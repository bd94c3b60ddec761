---------------------------- MODULE LookupProofs ----------------------------
(***************************************************************************)
(* Proofs about Lookup, for any configuration files, any bytes behind the  *)
(* data in GetData's buffer, and any number of calls and lost connections: *)
(* Start returns connected, and the address a caller connects to is the    *)
(* one its provider listens on.                                            *)
(***************************************************************************)
EXTENDS LookupInv, ConfigFileProofs

-----------------------------------------------------------------------------
(***************************************************************************)
(* Texts: where they split, and how many digits they begin with.           *)
(***************************************************************************)

\* Leading stops at the first character of another kind.
LEMMA LeadingIs ==
  ASSUME NEW T, NEW s \in Seq(T), NEW S, NEW k \in 1 .. Len(s),
         s[k] \notin S, \A i \in 1 .. k - 1 : s[i] \in S
  PROVE  Leading(s, S) = k - 1
<1> DEFINE others == { i \in DOMAIN s : s[i] \notin S }
<1>1. others \subseteq Nat /\ k \in others /\ \A i \in others : k <= i
  OBVIOUS
<1>2. Min(others) = k
  BY <1>1, MinIs
<1>. QED  BY <1>1, <1>2 DEF Leading

\* It takes all of a text that has no other.
LEMMA LeadingAll ==
  ASSUME NEW T, NEW s \in Seq(T), NEW S, \A i \in 1 .. Len(s) : s[i] \in S
  PROVE  Leading(s, S) = Len(s)
BY DEF Leading

\* A text that begins with none of a kind begins with something else.
LEMMA LeadingNone ==
  ASSUME NEW T, NEW s \in Seq(T), NEW S, s # <<>>, Leading(s, S) = 0
  PROVE  s[1] \notin S
<1>1. SUFFICES ASSUME s[1] \in S PROVE FALSE
  OBVIOUS
<1>2. Len(s) \in Nat \ {0}
  BY EmptySeq
<1> DEFINE others == { i \in DOMAIN s : s[i] \notin S }
<1>3. CASE others = {}
  BY <1>2, <1>3 DEF Leading
<1>4. CASE others # {}
  <2>1. others \subseteq Nat \ {0, 1}
    BY <1>1
  <2>2. Min(others) = 1
    <3>1. Min(others) \in Nat
      BY <1>4, <2>1, MinIsLeast
    <3>. QED  BY <1>4, <3>1 DEF Leading
  <2>. QED  BY <1>4, <2>1, <2>2, MinIsLeast
<1>. QED  BY <1>3, <1>4

\* A text that was put together of two is cut into the two.
LEMMA CutsApart ==
  ASSUME NEW S, NEW a \in Seq(S), NEW b \in Seq(S)
  PROVE  /\ SubSeq(a \o b, 1, Len(a)) = a
         /\ SubSeq(a \o b, Len(a) + 1, Len(a \o b)) = b
<1> DEFINE ab == a \o b
<1>1. /\ ab \in Seq(S) /\ Len(ab) = Len(a) + Len(b) /\ Len(a) \in Nat /\ Len(b) \in Nat
      /\ \A i \in 1 .. Len(a) : ab[i] = a[i]
      /\ \A i \in 1 .. Len(b) : ab[Len(a) + i] = b[i]
  BY ConcatProperties, LenProperties
<1> HIDE DEF ab
<1>2. SubSeq(ab, 1, Len(a)) = a
  <2>1. \A i \in 1 .. Len(a) : ab[i] \in S
    BY <1>1
  <2>2. /\ SubSeq(ab, 1, Len(a)) \in Seq(S)
        /\ Len(SubSeq(ab, 1, Len(a))) = IF 1 <= Len(a) THEN Len(a) - 1 + 1 ELSE 0
        /\ \A i \in 1 .. Len(a) - 1 + 1 : SubSeq(ab, 1, Len(a))[i] = ab[1 + i - 1]
    BY <1>1, <2>1, SubSeqProperties
  <2>3. Len(SubSeq(ab, 1, Len(a))) = Len(a)
    BY <1>1, <2>2
  <2>4. \A i \in 1 .. Len(a) : SubSeq(ab, 1, Len(a))[i] = a[i]
    BY <1>1, <2>2
  <2>. QED  BY <2>2, <2>3, <2>4, SeqEqual
<1>3. SubSeq(ab, Len(a) + 1, Len(ab)) = b
  <2> DEFINE m == Len(a) + 1
             rest == SubSeq(ab, m, Len(ab))
  <2>1. \A i \in m .. Len(ab) : ab[i] \in S
    BY <1>1
  <2>2. /\ rest \in Seq(S)
        /\ Len(rest) = IF m <= Len(ab) THEN Len(ab) - m + 1 ELSE 0
        /\ \A i \in 1 .. Len(ab) - m + 1 : rest[i] = ab[m + i - 1]
    BY <1>1, <2>1, SubSeqProperties
  <2>3. Len(rest) = Len(b)
    BY <1>1, <2>2
  <2>4. \A i \in 1 .. Len(b) : rest[i] = b[i]
    <3>1. SUFFICES ASSUME NEW i \in 1 .. Len(b) PROVE rest[i] = b[i]
      OBVIOUS
    <3>2. i \in 1 .. Len(ab) - m + 1 /\ m + i - 1 = Len(a) + i
      BY <1>1
    <3>. QED  BY <1>1, <2>2, <3>2
  <2>. QED  BY <2>2, <2>3, <2>4, SeqEqual
<1>. QED  BY <1>2, <1>3 DEF ab

-----------------------------------------------------------------------------
(***************************************************************************)
(* Numbers: what Number makes of digits, and Decimal of numbers.           *)
(***************************************************************************)
Figures == ToSet(Digits)

LEMMA DigitsAre ==
  /\ Digits \in Seq(Figures) /\ Len(Digits) = 10
  /\ Figures \subseteq Characters
  /\ \A d \in 0 .. 9 : Digits[d + 1] \in Figures /\ Find(Digits, Digits[d + 1]) = d + 1
  /\ \A c \in Figures : Find(Digits, c) \in 1 .. 10
<1>1. Figures = {"0", "1", "2", "3", "4", "5", "6", "7", "8", "9"}
  BY DEF Figures, ToSet, Digits
<1>2. Digits \in Seq(Figures) /\ Len(Digits) = 10
  BY <1>1 DEF Digits
<1>3. Figures \subseteq Characters
  BY LookupAssumption DEF Figures
<1>4. \A i, j \in 1 .. 10 : Digits[i] = Digits[j] => i = j
  BY DEF Digits
<1> HIDE DEF Figures
<1>5. ASSUME NEW d \in 0 .. 9
      PROVE  Digits[d + 1] \in Figures /\ Find(Digits, Digits[d + 1]) = d + 1
  <2>1. d + 1 \in 1 .. Len(Digits) /\ \A i \in 1 .. (d + 1) - 1 : i \in 1 .. 10 /\ i # d + 1
    BY <1>2
  <2>2. \A i \in 1 .. (d + 1) - 1 : Digits[i] # Digits[d + 1]
    BY <1>2, <1>4, <2>1
  <2>3. Find(Digits, Digits[d + 1]) = d + 1
    BY <1>2, <2>1, <2>2, FindIs
  <2>. QED  BY <1>2, <2>1, <2>3, ElementOfSeq
<1>6. ASSUME NEW c \in Figures PROVE Find(Digits, c) \in 1 .. 10
  <2>1. PICK i \in 1 .. 10 : c = Digits[i]
    <3>1. DOMAIN Digits = 1 .. 10
      BY <1>2, LenProperties
    <3>. QED  BY <3>1 DEF Figures, ToSet
  <2>2. i - 1 \in 0 .. 9 /\ (i - 1) + 1 = i
    OBVIOUS
  <2>. QED  BY <1>5, <2>1, <2>2
<1>. QED  BY <1>2, <1>3, <1>5, <1>6

LEMMA ShiftedIsNat ==
  ASSUME NEW v \in Nat, NEW c \in Figures
  PROVE  Shifted(v, c) \in Nat
<1>1. Find(Digits, c) \in 1 .. 10
  BY DigitsAre
<1> DEFINE k == Find(Digits, c)
<1> HIDE DEF k
<1>2. 10 * v + k - 1 \in Nat
  BY <1>1 DEF k
<1>. QED  BY <1>2 DEF Shifted, k

NumberBy(f, s) ==
  /\ f \in [0 .. Len(s) -> Nat] /\ f[0] = 0 /\ f[Len(s)] = Number(s)
  /\ \A n \in 1 .. Len(s) : f[n] = Shifted(f[n - 1], s[n])

LEMMA NumberRun ==
  ASSUME NEW s \in Seq(Figures)
  PROVE  \E f : NumberBy(f, s)
<1> DEFINE A == Nat
           B == Figures
           G == [x \in A \X B |-> Shifted(x[1], x[2])]
           N == Len(s)
           Eq(iter) == iter = [T \in SUBSET DOMAIN s |->
                         IF T = {} THEN 0 ELSE Shifted(iter[T \ {Max(T)}], s[Max(T)])]
           it == CHOOSE iter : Eq(iter)
<1>1. N \in Nat /\ DOMAIN s = 1 .. N /\ 0 \in A
  BY LenProperties
<1>2. G \in [A \X B -> A] /\ \A x \in A, c \in B : G[<<x, c>>] = Shifted(x, c)
  BY ShiftedIsNat
<1> HIDE DEF A, B, G
<1>3. s \in Seq(B)
  BY DEF B
<1>4. PICK iter \in [SUBSET (1 .. N) -> A] : Iterates(iter, G, 0, s, N)
  BY <1>1, <1>2, <1>3, FoldExists
<1>5. Eq(iter)
  <2>1. ASSUME NEW T \in SUBSET (1 .. N)
        PROVE  iter[T] = IF T = {} THEN 0 ELSE Shifted(iter[T \ {Max(T)}], s[Max(T)])
    <3>1. iter[T] = IF T = {} THEN 0 ELSE G[<<iter[T \ {Max(T)}], s[Max(T)]>>]
      BY <1>4 DEF Iterates
    <3>2. T # {} => iter[T \ {Max(T)}] \in A /\ s[Max(T)] \in B
      BY <1>1, <1>3, <1>4, LastPlace, ElementOfSeq
    <3>. QED  BY <1>2, <3>1, <3>2
  <2>. QED  BY <1>1, <1>4, <2>1
<1>6. Eq(it)
  <2> HIDE DEF Eq
  <2>. QED  BY <1>5
<1>7. Number(s) = it[1 .. N]
  <2>1. Number(s) = it[DOMAIN s]
    BY Zenon DEF Number, FoldLeft, MapThenFoldSet
  <2>. QED  BY <1>1, <2>1
<1> HIDE DEF it
<1>8. ASSUME NEW n \in 1 .. N PROVE it[1 .. n] = Shifted(it[1 .. n - 1], s[n])
  <2>1. /\ 1 .. n \in SUBSET DOMAIN s /\ 1 .. n # {}
        /\ Max(1 .. n) = n /\ (1 .. n) \ {Max(1 .. n)} = 1 .. n - 1
    BY <1>1, PlacesUpTo
  <2>2. it[1 .. n] = Shifted(it[(1 .. n) \ {Max(1 .. n)}], s[Max(1 .. n)])
    BY <1>6, <2>1
  <2>. QED  BY <2>1, <2>2
<1>9. Climbs(it, A, G, 0, s)
  <2>1. it[{}] = 0
    BY <1>1, <1>6
  <2>. QED  BY <1>2, <1>3, <1>8, <2>1, ElementOfSeq DEF Climbs
<1>10. RunsTo(it[1 .. N], A, G, 0, s)
  BY <1>1, <1>2, <1>3, <1>9, FoldRuns
<1> HIDE DEF Eq
<1>11. PICK f : Runs(f, A, G, 0, s) /\ f[N] = it[1 .. N]
  BY <1>10 DEF RunsTo
<1>12. ASSUME NEW n \in 1 .. N PROVE f[n] = Shifted(f[n - 1], s[n])
  <2>1. f[n - 1] \in A /\ s[n] \in B
    BY <1>1, <1>3, <1>11, ElementOfSeq DEF Runs
  <2>. QED  BY <1>2, <1>11, <2>1 DEF Runs
<1>13. NumberBy(f, s)
  BY <1>7, <1>11, <1>12 DEF Runs, NumberBy, A
<1>. QED  BY <1>13

LEMMA NumberIsNat ==
  ASSUME NEW s \in Seq(Figures)
  PROVE  Number(s) \in Nat
<1>1. PICK f : NumberBy(f, s)
  BY NumberRun
<1>2. Len(s) \in 0 .. Len(s)
  BY LenProperties
<1>. QED  BY <1>1, <1>2 DEF NumberBy

LEMMA NumberOfNone == Number(<<>>) = 0
<1>1. <<>> \in Seq(Figures) /\ Len(<<>>) = 0
  OBVIOUS
<1>2. PICK f : NumberBy(f, <<>>)
  BY <1>1, NumberRun
<1>. QED  BY <1>1, <1>2 DEF NumberBy

\* One more digit.
LEMMA NumberGoesOn ==
  ASSUME NEW s \in Seq(Figures), NEW c \in Figures
  PROVE  Number(s \o <<c>>) = Shifted(Number(s), c)
<1> DEFINE t == s \o <<c>>
           N == Len(s)
<1>1. /\ t \in Seq(Figures) /\ Len(t) = N + 1 /\ N \in Nat /\ t[N + 1] = c
      /\ \A i \in 1 .. N : t[i] = s[i]
  OBVIOUS
<1> HIDE DEF t
<1>2. PICK f : NumberBy(f, s)
  BY NumberRun
<1>3. PICK g : NumberBy(g, t)
  BY <1>1, NumberRun
<1> DEFINE S == { n \in 0 .. N : g[n] = f[n] }
<1>4. ASSUME NEW n \in 0 .. N, \A m \in 0 .. n - 1 : m \in S PROVE n \in S
  <2>1. CASE n = 0
    BY <1>2, <1>3, <2>1 DEF NumberBy
  <2>2. CASE n # 0
    <3>1. n \in 1 .. N /\ n \in 1 .. Len(t) /\ n - 1 \in 0 .. n - 1
      BY <1>1, <2>2
    <3>2. g[n] = Shifted(g[n - 1], t[n]) /\ f[n] = Shifted(f[n - 1], s[n])
      BY <1>2, <1>3, <3>1 DEF NumberBy
    <3>3. g[n - 1] = f[n - 1]
      BY <1>4, <3>1
    <3>. QED  BY <1>1, <3>1, <3>2, <3>3
  <2>. QED  BY <2>1, <2>2
<1>5. \A n \in 0 .. N : n \in S
  <2> HIDE DEF S
  <2>. QED  BY <1>1, <1>4, Upward
<1>6. g[N] = f[N] /\ N + 1 \in 1 .. Len(t) /\ (N + 1) - 1 = N
  BY <1>1, <1>5
<1>7. g[N + 1] = Shifted(g[(N + 1) - 1], t[N + 1]) /\ g[Len(t)] = Number(t)
  BY <1>3, <1>6 DEF NumberBy
<1>8. f[N] = Number(s)
  BY <1>2 DEF NumberBy
<1>9. Number(t) = Shifted(Number(s), c)
  BY <1>1, <1>6, <1>7, <1>8
<1>. QED  BY <1>9 DEF t

Print10(f, n) == IF n < 10 THEN <<Digits[n + 1]>> ELSE f[n \div 10] \o <<Digits[(n % 10) + 1]>>

\* The function that Decimal is exists, and is texts of digits.
LEMMA DecimalIs ==
  /\ Decimal \in [0 .. Word - 1 -> Seq(Figures) \ {<<>>}]
  /\ \A n \in 0 .. Word - 1 : Decimal[n] = Print10(Decimal, n)
<1> DEFINE A == Seq(Figures) \ {<<>>}
           Good(k) == \E f \in [0 .. k -> A] : \A n \in 0 .. k : f[n] = Print10(f, n)
           S == { k \in 0 .. Word - 1 : Good(k) }
<1>1. Word \in Nat /\ Word - 1 \in Nat
  BY DEF Word
<1> HIDE DEF Word
<1>2. \A n \in Nat : /\ n % 10 \in 0 .. 9 /\ n \div 10 \in Nat
                     /\ n >= 10 => n \div 10 \in 0 .. n - 1
  OBVIOUS
<1>3. \A d \in 0 .. 9 : <<Digits[d + 1]>> \in A /\ \A s \in A : s \o <<Digits[d + 1]>> \in A
  <2>1. ASSUME NEW d \in 0 .. 9, NEW s \in A PROVE s \o <<Digits[d + 1]>> \in A
    <3>1. Digits[d + 1] \in Figures
      BY DigitsAre
    <3>2. /\ s \o <<Digits[d + 1]>> \in Seq(Figures)
          /\ Len(s \o <<Digits[d + 1]>>) = Len(s) + 1 /\ Len(s) \in Nat
      BY <3>1
    <3>. QED  BY <3>2
  <2>2. ASSUME NEW d \in 0 .. 9 PROVE <<Digits[d + 1]>> \in A
    BY DigitsAre
  <2>. QED  BY <2>1, <2>2
<1> HIDE DEF A
<1>4. ASSUME NEW N \in 0 .. Word - 1, NEW f \in [0 .. N -> A], NEW n \in 0 .. N + 1
      PROVE  Print10(f, n) \in A
  <2>1. CASE n < 10
    <3>1. n \in 0 .. 9
      BY <2>1
    <3>. QED  BY <1>3, <2>1, <3>1 DEF Print10
  <2>2. CASE ~(n < 10)
    <3>1. n % 10 \in 0 .. 9 /\ n \div 10 \in 0 .. N
      BY <1>2, <2>2
    <3>2. f[n \div 10] \in A
      BY <3>1
    <3>. QED  BY <1>3, <2>2, <3>1, <3>2 DEF Print10
  <2>. QED  BY <2>1, <2>2
<1>5. ASSUME NEW k \in 0 .. Word - 1, \A m \in 0 .. k - 1 : m \in S PROVE Good(k)
  <2>1. CASE k = 0
    <3> DEFINE f == [n \in 0 .. k |-> <<Digits[0 + 1]>>]
    <3>1. \A n \in 0 .. k : n = 0
      BY <2>1
    <3>2. f \in [0 .. k -> A]
      BY <1>3
    <3>3. \A n \in 0 .. k : f[n] = Print10(f, n)
      BY <3>1 DEF Print10
    <3>. QED  BY <3>2, <3>3
  <2>2. CASE k # 0
    <3>1. k - 1 \in 0 .. k - 1 /\ k - 1 \in 0 .. Word - 1 /\ k \in 0 .. (k - 1) + 1
      BY <1>1, <2>2
    <3>2. PICK old \in [0 .. k - 1 -> A] : \A n \in 0 .. k - 1 : old[n] = Print10(old, n)
      BY <1>5, <3>1
    <3> DEFINE f == [n \in 0 .. k |-> IF n = k THEN Print10(old, k) ELSE old[n]]
    <3>3. Print10(old, k) \in A
      BY <1>4, <3>1
    <3>4. f \in [0 .. k -> A] /\ f[k] = Print10(old, k) /\ \A n \in 0 .. k - 1 : f[n] = old[n]
      <4>1. \A n \in 0 .. k : n = k \/ n \in 0 .. k - 1
        OBVIOUS
      <4>2. \A n \in 0 .. k - 1 : n \in 0 .. k /\ n # k
        OBVIOUS
      <4>. QED  BY <3>3, <4>1, <4>2
    <3> HIDE DEF f
    <3>5. \A n \in 0 .. k : Print10(f, n) = Print10(old, n)
      <4>1. \A n \in 0 .. k : ~(n < 10) => n \div 10 \in 0 .. k - 1
        BY <1>2
      <4>. QED  BY <3>4, <4>1 DEF Print10
    <3>6. \A n \in 0 .. k : f[n] = Print10(f, n)
      <4>1. \A n \in 0 .. k : n = k \/ n \in 0 .. k - 1
        OBVIOUS
      <4>. QED  BY <3>2, <3>4, <3>5, <4>1
    <3>. QED  BY <3>4, <3>6
  <2>. QED  BY <2>1, <2>2
<1> HIDE DEF Good
<1>6. \A k \in 0 .. Word - 1 : k \in S
  <2>1. \A k \in 0 .. Word - 1 : (\A m \in 0 .. k - 1 : m \in S) => k \in S
    BY <1>5
  <2> HIDE DEF S
  <2>. QED  BY <1>1, <2>1, Upward
<1>7. Good(Word - 1)
  BY <1>1, <1>6
<1>8. PICK f \in [0 .. Word - 1 -> A] : \A n \in 0 .. Word - 1 : f[n] = Print10(f, n)
  BY <1>7 DEF Good
<1> DEFINE Eq(g) == g = [n \in 0 .. Word - 1 |-> Print10(g, n)]
<1>9. Eq(f)
  BY <1>8
<1>10. Decimal = CHOOSE g : Eq(g)
  BY Zenon DEF Decimal, Print10
<1>11. Eq(Decimal)
  <2> HIDE DEF Eq
  <2>. QED  BY <1>9, <1>10
<1>12. \A n \in 0 .. Word - 1 : Decimal[n] = Print10(Decimal, n)
  BY <1>11
<1> DEFINE T == { n \in 0 .. Word - 1 : Decimal[n] = f[n] }
<1> HIDE DEF Eq
<1>13. ASSUME NEW n \in 0 .. Word - 1, \A m \in 0 .. n - 1 : m \in T PROVE n \in T
  <2>1. ~(n < 10) => Decimal[n \div 10] = f[n \div 10]
    BY <1>2, <1>13
  <2>2. Print10(Decimal, n) = Print10(f, n)
    BY <2>1 DEF Print10
  <2>. QED  BY <1>8, <1>12, <2>2
<1>14. \A n \in 0 .. Word - 1 : n \in T
  <2> HIDE DEF T
  <2>. QED  BY <1>1, <1>13, Upward
<1>15. Decimal \in [0 .. Word - 1 -> A]
  <2>1. DOMAIN Decimal = 0 .. Word - 1 /\ Decimal = [n \in DOMAIN Decimal |-> Decimal[n]]
    BY <1>11 DEF Eq
  <2>2. \A n \in 0 .. Word - 1 : Decimal[n] \in A
    BY <1>14
  <2>. QED  BY <2>1, <2>2
<1>. QED  BY <1>12, <1>15 DEF A

\* A port's digits are read as the port.
LEMMA NumberOfDecimal ==
  ASSUME NEW n \in 0 .. Word - 1
  PROVE  Number(Decimal[n]) = n
<1> DEFINE S == { k \in 0 .. Word - 1 : Number(Decimal[k]) = k }
<1>1. Word - 1 \in Nat
  BY DEF Word
<1> HIDE DEF Word
<1>2. \A d \in 0 .. 9 : Digits[d + 1] \in Figures /\ \A v \in Nat : Shifted(v, Digits[d + 1]) = 10 * v + d
  <2>1. ASSUME NEW d \in 0 .. 9, NEW v \in Nat PROVE Shifted(v, Digits[d + 1]) = 10 * v + d
    <3>1. Shifted(v, Digits[d + 1]) = 10 * v + (d + 1) - 1
      BY DigitsAre DEF Shifted
    <3>. QED  BY <3>1
  <2>. QED  BY <2>1, DigitsAre
<1>3. ASSUME NEW k \in 0 .. Word - 1, \A m \in 0 .. k - 1 : m \in S PROVE Number(Decimal[k]) = k
  <2>1. Decimal[k] = Print10(Decimal, k)
    BY DecimalIs
  <2>2. CASE k < 10
    <3>1. k \in 0 .. 9 /\ Decimal[k] = <<Digits[k + 1]>>
      BY <2>1, <2>2 DEF Print10
    <3>2. Digits[k + 1] \in Figures
      BY <1>2, <3>1
    <3>6. <<>> \in Seq(Figures)
      OBVIOUS
    <3>3. Number(<<>> \o <<Digits[k + 1]>>) = Shifted(Number(<<>>), Digits[k + 1])
      BY <3>2, <3>6, NumberGoesOn
    <3>4. <<>> \o <<Digits[k + 1]>> = <<Digits[k + 1]>>
      BY <3>2
    <3>5. Number(<<Digits[k + 1]>>) = 10 * 0 + k
      <4>1. Shifted(0, Digits[k + 1]) = 10 * 0 + k
        BY <1>2, <3>1
      <4>. QED  BY <3>3, <3>4, <4>1, NumberOfNone
    <3>. QED  BY <3>1, <3>5
  <2>3. CASE ~(k < 10)
    <3> DEFINE h == k \div 10
               d == k % 10
    <3>1. h \in 0 .. k - 1 /\ d \in 0 .. 9 /\ 10 * h + d = k
      BY <2>3
    <3>2. Decimal[k] = Decimal[h] \o <<Digits[d + 1]>>
      BY <2>1, <2>3 DEF Print10
    <3> HIDE DEF h, d
    <3>3. Decimal[h] \in Seq(Figures) /\ Number(Decimal[h]) = h
      BY <1>1, <1>3, <3>1, DecimalIs
    <3>4. Number(Decimal[k]) = Shifted(h, Digits[d + 1])
      BY <1>2, <3>1, <3>2, <3>3, NumberGoesOn
    <3>5. Shifted(h, Digits[d + 1]) = 10 * h + d
      <4>1. h \in Nat
        BY <3>1
      <4>. QED  BY <1>2, <3>1, <4>1
    <3>. QED  BY <3>1, <3>4, <3>5
  <2>. QED  BY <2>2, <2>3
<1>4. \A k \in 0 .. Word - 1 : k \in S
  <2>1. \A k \in 0 .. Word - 1 : (\A m \in 0 .. k - 1 : m \in S) => k \in S
    BY <1>3
  <2> HIDE DEF S
  <2>. QED  BY <1>1, <2>1, Upward
<1>. QED  BY <1>4

\* A port is read back from its digits, whatever follows them but a digit.
LEMMA PortIsReadBack ==
  ASSUME NEW n \in 0 .. Word - 1, NEW g \in Seq(Characters), Leading(g, ToSet(Digits)) = 0
  PROVE  Port(Decimal[n] \o g) = n
<1> DEFINE D == Decimal[n]
           all == D \o g
           figures == ToSet(Digits)
<1>1. D \in Seq(figures) /\ D # <<>> /\ Number(D) = n
  BY DecimalIs, NumberOfDecimal DEF Figures
<1>2. figures = {"0", "1", "2", "3", "4", "5", "6", "7", "8", "9"}
  BY DEF ToSet, Digits
<1>3. figures \subseteq Characters
  BY LookupAssumption
<1> HIDE DEF D, figures
<1>4. D \in Seq(Characters)
  BY <1>1, <1>3, SeqMonotonic
<1>5. /\ all \in Seq(Characters) /\ Len(all) = Len(D) + Len(g) /\ Len(g) \in Nat
      /\ \A i \in 1 .. Len(D) : all[i] = D[i]
      /\ g # <<>> => all[Len(D) + 1] = g[1] /\ Len(g) >= 1
  <2>1. g # <<>> => Len(g) \in Nat \ {0}
    BY EmptySeq
  <2>2. Len(D) \in Nat /\ Len(g) \in Nat
    BY <1>4, LenProperties
  <2>. QED  BY <1>4, <2>1, <2>2, ConcatProperties
<1>6. Len(D) \in Nat \ {0} /\ \A i \in 1 .. Len(D) : all[i] \in figures
  BY <1>1, <1>5, EmptySeq, ElementOfSeq
<1>7. SubSeq(all, 1, Len(D)) = D /\ SubSeq(all, 1, Len(all)) = all
  BY <1>4, <1>5, CutsApart, SubSeqFull
<1> HIDE DEF all
<1>8. 1 \in 1 .. Len(all) /\ all # <<>> /\ all[1] \in figures
  BY <1>5, <1>6, EmptySeq
<1>9. all[1] \notin White /\ all[1] # "-" /\ all[1] # "+"
  BY <1>2, <1>8 DEF White
<1>10. Leading(all, White) = 0
  BY <1>5, <1>8, <1>9, LeadingIs
<1>11. Leading(all, figures) = Len(D)
  <2>1. CASE g = <<>>
    <3>1. Len(all) = Len(D)
      BY <1>5, <1>6, <2>1
    <3>. QED  BY <1>5, <1>6, <3>1, LeadingAll
  <2>2. CASE g # <<>>
    <3>1. g[1] \notin figures
      BY <2>2, LeadingNone DEF figures
    <3>2. PICK k \in 1 .. Len(all) : k = Len(D) + 1
      BY <1>5, <1>6, <2>2
    <3>3. all[k] \notin figures /\ \A i \in 1 .. k - 1 : all[i] \in figures
      BY <1>5, <1>6, <2>2, <3>1, <3>2
    <3>4. Leading(all, figures) = k - 1
      BY <1>5, <3>3, LeadingIs
    <3>. QED  BY <1>6, <3>2, <3>4
  <2>. QED  BY <2>1, <2>2
<1>12. Atoi(all) = n
  <2>1. SubSeq(all, Leading(all, White) + 1, Len(all)) = all
    BY <1>7, <1>10
  <2>2. Number(SubSeq(all, 1, Leading(all, ToSet(Digits)))) = n
    BY <1>1, <1>7, <1>11 DEF figures
  <2>. QED  BY <1>8, <1>9, <2>1, <2>2 DEF Atoi
<1>13. n % Word = n
  <2>1. \A w \in Nat : \A k \in 0 .. w - 1 : k % w = k
    OBVIOUS
  <2>2. Word \in Nat
    BY DEF Word
  <2>. QED  BY <2>1, <2>2
<1>14. Port(all) = n
  BY <1>12, <1>13 DEF Port
<1>. QED  BY <1>14 DEF all, D

\* An endpoint is read back from its text, if its address has no colon.
LEMMA EndpointIsReadBack ==
  ASSUME NEW e \in Endpoints, ":" \notin ToSet(e.ip),
         NEW g \in Garbage, Leading(g, ToSet(Digits)) = 0
  PROVE  LET read == TextOf(e) \o g IN
         e = [ip |-> SubSeq(read, 1, Find(read, ":") - 1), port |-> Port(AfterColon(read))]
<1> DEFINE ip == e.ip
           colon == <<":">>
           port == Decimal[e.port]
           rest == port \o g
           read == TextOf(e) \o g
<1>1. ip \in Seq(Characters) /\ e.port \in 0 .. Word - 1 /\ colon \in Seq(Characters) /\ g \in Seq(Characters)
      /\ e = [ip |-> ip, port |-> e.port]
  BY LookupAssumption DEF Endpoints
<1>2. port \in Seq(Characters)
  <2>1. port \in Seq(Figures)
    BY <1>1, DecimalIs
  <2>2. Figures \subseteq Characters
    BY DigitsAre
  <2>. QED  BY <2>1, <2>2, SeqMonotonic
<1>3. Port(rest) = e.port
  BY <1>1, PortIsReadBack
<1> HIDE DEF port
<1>4. rest \in Seq(Characters)
  BY <1>1, <1>2, ConcatProperties
<1> DEFINE front == ip \o colon
           back == colon \o rest
<1>5. read = front \o rest /\ read = ip \o back
  <2>1. read = (front \o port) \o g /\ rest = port \o g
    BY DEF TextOf, port
  <2>2. front \in Seq(Characters)
    BY <1>1, ConcatProperties
  <2> HIDE DEF front, rest, ip, colon, read
  <2>3. (front \o port) \o g = front \o (port \o g)
    <3>1. front \in Seq(Characters) /\ port \in Seq(Characters) /\ g \in Seq(Characters)
      BY ONLY <1>1, <1>2, <2>2
    <3>. QED  BY ONLY <3>1, ConcatAssociative
  <2>4. (ip \o colon) \o rest = ip \o (colon \o rest)
    <3>1. ip \in Seq(Characters) /\ colon \in Seq(Characters) /\ rest \in Seq(Characters)
      BY ONLY <1>1, <1>4
    <3>. QED  BY ONLY <3>1, ConcatAssociative
  <2>5. read = front \o rest
    BY ONLY <2>1, <2>3
  <2>. QED  BY ONLY <2>4, <2>5 DEF front, back
<1> HIDE DEF rest
<1>6. /\ front \in Seq(Characters) /\ Len(front) = Len(ip) + 1 /\ Len(ip) \in Nat /\ back \in Seq(Characters)
      /\ front[Len(ip) + 1] = ":" /\ \A i \in 1 .. Len(ip) : front[i] = ip[i]
      /\ Len(rest) \in Nat
  <2>1. Len(colon) = 1 /\ colon[1] = ":" /\ Len(ip) \in Nat /\ Len(rest) \in Nat
    BY <1>1, <1>4
  <2>2. /\ front \in Seq(Characters) /\ Len(front) = Len(ip) + Len(colon)
        /\ \A i \in 1 .. Len(ip) + Len(colon) :
             front[i] = IF i <= Len(ip) THEN ip[i] ELSE colon[i - Len(ip)]
    BY <1>1, ConcatProperties
  <2>3. back \in Seq(Characters)
    BY <1>1, <1>4, ConcatProperties
  <2>. QED  BY <2>1, <2>2, <2>3
<1>7. /\ read \in Seq(Characters) /\ Len(read) = Len(front) + Len(rest)
      /\ \A i \in 1 .. Len(front) : read[i] = front[i]
  <2>1. /\ front \o rest \in Seq(Characters) /\ Len(front \o rest) = Len(front) + Len(rest)
        /\ \A i \in 1 .. Len(front) + Len(rest) :
             (front \o rest)[i] = IF i <= Len(front) THEN front[i] ELSE rest[i - Len(front)]
    BY <1>4, <1>6, ConcatProperties
  <2>. QED  BY <1>5, <1>6, <2>1
<1>8. Find(read, ":") = Len(ip) + 1
  <2>1. PICK k \in 1 .. Len(read) : k = Len(ip) + 1
    BY <1>6, <1>7
  <2>2. read[k] = ":"
    <3>1. k \in 1 .. Len(front)
      BY <1>6, <2>1
    <3>2. read[k] = front[k]
      BY <1>7, <3>1
    <3>. QED  BY <1>6, <2>1, <3>2
  <2>3. ASSUME NEW i \in 1 .. k - 1 PROVE read[i] # ":"
    <3>1. i \in 1 .. Len(ip) /\ i \in 1 .. Len(front)
      BY <1>6, <2>1
    <3>2. read[i] = ip[i]
      <4>1. read[i] = front[i]
        BY <1>7, <3>1
      <4>. QED  BY <1>6, <3>1, <4>1
    <3>3. i \in DOMAIN ip
      BY <1>1, <3>1, LenProperties
    <3>. QED  BY <3>2, <3>3 DEF ToSet
  <2>4. Find(read, ":") = k
    BY <1>7, <2>2, <2>3, FindIs
  <2>. QED  BY <2>1, <2>4
<1>9. SubSeq(read, 1, Find(read, ":") - 1) = ip
  <2>1. SubSeq(ip \o back, 1, Len(ip)) = ip
    BY <1>1, <1>6, CutsApart
  <2>2. Find(read, ":") - 1 = Len(ip)
    BY <1>6, <1>8
  <2>. QED  BY <1>5, <2>1, <2>2
<1>10. AfterColon(read) = rest
  <2>1. SubSeq(front \o rest, Len(front) + 1, Len(front \o rest)) = rest
    BY <1>4, <1>6, CutsApart
  <2>2. AfterColon(read) = SubSeq(read, Find(read, ":") + 1, Len(read))
    BY DEF AfterColon
  <2>. QED  BY <1>5, <1>6, <1>8, <2>1, <2>2
<1>. QED  BY <1>1, <1>3, <1>9, <1>10

\* Leading counts characters of the kind.
LEMMA LeadingCounts ==
  ASSUME NEW C, NEW s \in Seq(C), NEW S
  PROVE  /\ Leading(s, S) \in 0 .. Len(s)
         /\ \A i \in 1 .. Leading(s, S) : s[i] \in S
<1> DEFINE others == { i \in DOMAIN s : s[i] \notin S }
<1>1. Len(s) \in Nat /\ DOMAIN s = 1 .. Len(s)
  BY LenProperties
<1>2. Leading(s, S) = IF others = {} THEN Len(s) ELSE Min(others) - 1
  BY DEF Leading
<1>3. CASE others = {}
  BY <1>1, <1>2, <1>3
<1>4. CASE others # {}
  <2>1. others \subseteq Nat
    BY <1>1
  <2>2. PICK k \in others : k = Min(others) /\ \A i \in others : k <= i
    BY <1>4, <2>1, MinIsLeast
  <2>3. k \in 1 .. Len(s)
    BY <1>1
  <2>4. ASSUME NEW i \in 1 .. k - 1 PROVE s[i] \in S
    <3>1. i \in 1 .. Len(s) /\ ~(k <= i)
      BY <1>1, <2>3
    <3>. QED  BY <1>1, <2>2, <3>1
  <2>5. Leading(s, S) = k - 1
    BY <1>2, <1>4, <2>2
  <2>6. k - 1 \in 0 .. Len(s)
    BY <1>1, <2>3
  <2> HIDE DEF others
  <2>. QED  BY <2>4, <2>5, <2>6
<1>. QED  BY <1>3, <1>4

\* A number is read from any text, and a port has 16 bits.
LEMMA PortIsWord ==
  ASSUME NEW s \in Seq(Characters)
  PROVE  Port(s) \in 0 .. Word - 1
<1> DEFINE t == SubSeq(s, Leading(s, White) + 1, Len(s))
           signed == t # <<>> /\ t[1] \in {"-", "+"}
           u == IF signed THEN Tail(t) ELSE t
           n == Number(SubSeq(u, 1, Leading(u, Figures)))
<1>1. Len(s) \in Nat /\ Leading(s, White) \in 0 .. Len(s)
  BY LenProperties, LeadingCounts
<1>2. t \in Seq(Characters)
  <2>1. Leading(s, White) + 1 \in 1 .. Len(s) + 1 /\ Len(s) \in Int /\ Len(s) <= Len(s)
    BY <1>1
  <2>. QED  BY <2>1, PartIsText
<1> HIDE DEF t
<1>3. u \in Seq(Characters)
  BY <1>2, HeadTailProperties
<1>4. Atoi(s) = IF signed /\ t[1] = "-" THEN -n ELSE n
  BY DEF Atoi, t, Figures
<1> HIDE DEF u, signed
<1>5. SubSeq(u, 1, Leading(u, Figures)) \in Seq(Figures)
  <2>1. Leading(u, Figures) \in 0 .. Len(u) /\ Len(u) \in Nat
    BY <1>3, LenProperties, LeadingCounts
  <2>2. \A i \in 1 .. Leading(u, Figures) : u[i] \in Figures
    BY <1>3, LeadingCounts
  <2>3. Leading(u, Figures) \in Int
    BY <2>1
  <2>. QED  BY <2>2, <2>3, SubSeqProperties
<1>6. n \in Nat
  BY <1>5, NumberIsNat
<1> HIDE DEF n
<1>7. Atoi(s) \in Int
  <2>1. -n \in Int /\ n \in Int
    BY <1>6
  <2>. QED  BY <1>4, <2>1
<1>8. Word \in Nat \ {0}
  BY DEF Word
<1>9. \A w \in Nat \ {0} : \A k \in Int : k % w \in 0 .. w - 1
  OBVIOUS
<1>. QED  BY <1>7, <1>8, <1>9 DEF Port

-----------------------------------------------------------------------------
(***************************************************************************)
(* The steps.                                                              *)
(***************************************************************************)

\* The stages of a process, and what tells the two processes apart.
LEMMA TwoProcesses ==
  /\ Provider \in Processes /\ Caller \in Processes /\ Provider # Caller
  /\ \A p \in Processes : p = Provider \/ p = Caller
BY DEF Processes, Provider, Caller

\* What MprpcConfig returns is text.
LEMMA LoadIsText ==
  ASSUME NEW p \in Processes, NEW t \in Texts[p], NEW k
  PROVE  Load(LoadConfigFile(t), k) \in Seq(Characters)
<1>1. t \in Seq(Characters)
  BY LookupAssumption
<1>2. LoadConfigFile(t) \in Maps(Characters)
  BY <1>1, ConfigIsFirsts
<1>3. PICK D : LoadConfigFile(t) \in [D -> Seq(Characters)]
  BY <1>2 DEF Maps
<1>. QED  BY <1>3 DEF Load

LEMMA AppInitKeeps ==
  ASSUME LookupInvariant, NEW p \in Processes, NEW args \in CommandLines, NEW t \in Texts[p],
         AppInit(p, args, t)
  PROVE  LookupInvariant'
<1> USE DEF LookupInvariant
<1>1. /\ pc[p] = "boot"
      /\ \/ /\ pc' = [pc EXCEPT ![p] = "main"]
            /\ text' = [text EXCEPT ![p] = t]
            /\ config' = [config EXCEPT ![p] = LoadConfigFile(t)]
         \/ /\ pc' = [pc EXCEPT ![p] = "exited"]
            /\ text' = text /\ config' = config
      /\ UNCHANGED <<handleVars, endpoint, node, lookupVars, calls, losses>>
  <2> HIDE DEF LookupInvariant
  <2>. QED  BY DEF AppInit, Goto, appVars
<1>2. t \in Files /\ LoadConfigFile(t) \in Configs
  BY LookupAssumption DEF Configs, Files
<1>3. TypeOK'
  <2>1. text' \in [Processes -> {<<>>} \union Files]
    BY <1>1, <1>2 DEF TypeOK
  <2>2. config' \in [Processes -> Configs]
    BY <1>1, <1>2 DEF TypeOK
  <2> DEFINE stages == {"boot", "main", "init", "set", "wait", "started", "serve",
                        "connect", "exited", "crashed"}
  <2>3. pc' \in [Processes -> stages]
    <3>1. pc \in [Processes -> stages] /\ "main" \in stages /\ "exited" \in stages
      BY DEF TypeOK
    <3> HIDE DEF stages
    <3>. QED  BY <1>1, <3>1
  <2>4. UNCHANGED <<link, context, posts, wasUp, stray, calls, losses>>
    BY <1>1 DEF handleVars
  <2>. QED  BY <2>1, <2>2, <2>3, <2>4 DEF TypeOK
<1>4. SemaphoreInv'
  BY <1>1 DEF SemaphoreInv, TypeOK, handleVars
<1>5. ConfigInv'
  BY <1>1 DEF ConfigInv, TypeOK, handleVars
<1>6. NodeInv' /\ DestInv'
  BY <1>1, TwoProcesses DEF NodeInv, DestInv, TypeOK, Published, lookupVars
<1>. QED  BY <1>3, <1>4, <1>5, <1>6

\* Run reads its address, CallMethod begins (rpc_provider.cc:53-56,
\* mprpc_channel.cc:97).
LEMMA StartBeginsKeeps ==
  ASSUME LookupInvariant, NEW p \in Processes, StartBegins(p)
  PROVE  LookupInvariant'
<1> USE DEF LookupInvariant
<1>1. /\ pc[p] = "main" /\ pc' = [pc EXCEPT ![p] = "init"]
      /\ link' = [link EXCEPT ![p] = "down"] /\ context' = [context EXCEPT ![p] = "null"]
      /\ wasUp' = [wasUp EXCEPT ![p] = FALSE] /\ stray' = [stray EXCEPT ![p] = FALSE]
      /\ UNCHANGED <<appVars, posts, node, lookupVars, losses>>
  BY DEF StartBegins, Goto
<1>2. calls' \in 0 .. MaxCalls
  BY LookupAssumption DEF StartBegins, TypeOK
<1>3. TypeOK'
  BY <1>1, <1>2 DEF TypeOK, appVars
<1>4. SemaphoreInv'
  BY <1>1 DEF SemaphoreInv, TypeOK
<1>5. ConfigInv'
  BY <1>1 DEF ConfigInv, TypeOK, appVars, handleVars
<1>6. CASE p = Provider
  <2>1. endpoint' \in Endpoints
    <3>1. text[Provider] \in Texts[Provider] /\ config[Provider] = LoadConfigFile(text[Provider])
      BY <1>1, <1>6 DEF ConfigInv
    <3>2. /\ Load(config[Provider], IpKey) \in Seq(Characters)
          /\ Port(Load(config[Provider], PortKey)) \in 0 .. Word - 1
      BY <3>1, TwoProcesses, LoadIsText, PortIsWord
    <3>3. endpoint' = [ip |-> Load(config[Provider], IpKey),
                       port |-> Port(Load(config[Provider], PortKey))]
      BY <1>6 DEF StartBegins
    <3>. QED  BY <3>2, <3>3 DEF Endpoints
  <2>2. node = NoNode /\ ~Published
    BY <1>1, <1>6 DEF NodeInv, Published
  <2>3. NodeInv' /\ DestInv'
    BY <1>1, <1>6, <2>1, <2>2, TwoProcesses DEF NodeInv, DestInv, TypeOK, appVars, NoNode
  <2>. QED  BY <1>3, <1>4, <1>5, <2>3
<1>7. CASE p = Caller
  <2>1. endpoint' = endpoint
    BY <1>7, TwoProcesses DEF StartBegins
  <2>2. NodeInv' /\ DestInv'
    BY <1>1, <1>7, <2>1, TwoProcesses DEF NodeInv, DestInv, TypeOK, Published, appVars, lookupVars
  <2>. QED  BY <1>3, <1>4, <1>5, <2>2
<1>. QED  BY <1>6, <1>7, TwoProcesses

LEMMA StartExitsKeeps ==
  ASSUME LookupInvariant, NEW p \in Processes, StartExits(p)
  PROVE  LookupInvariant'
<1> USE DEF LookupInvariant
<1>1. /\ pc[p] = "main" /\ pc' = [pc EXCEPT ![p] = "exited"]
      /\ UNCHANGED <<appVars, handleVars, endpoint, node, lookupVars, calls, losses>>
  BY DEF StartExits, Goto
<1>2. TypeOK' /\ SemaphoreInv'
  BY <1>1 DEF TypeOK, SemaphoreInv, appVars, handleVars
<1>3. NodeInv' /\ DestInv'
  BY <1>1, TwoProcesses DEF NodeInv, DestInv, TypeOK, Published, appVars, lookupVars
<1>4. ConfigInv'
  BY <1>1 DEF ConfigInv, TypeOK, appVars, handleVars
<1>. QED  BY <1>2, <1>3, <1>4

\* The three steps of Start after zookeeper_init (zookeeper_client.cc:66-72).
LEMMA StartStepKeeps ==
  ASSUME LookupInvariant, NEW p \in Processes, StartStep(p)
  PROVE  LookupInvariant'
<1> USE DEF LookupInvariant
<1>1. /\ UNCHANGED <<appVars, link, wasUp, stray, endpoint, node, lookupVars, calls, losses>>
      /\ \/ /\ pc[p] = "init" /\ pc' = [pc EXCEPT ![p] = "set"]
            /\ posts' = [posts EXCEPT ![p] = 0] /\ context' = [context EXCEPT ![p] = "sem"]
         \/ /\ pc[p] = "set" /\ pc' = [pc EXCEPT ![p] = "wait"]
            /\ UNCHANGED <<posts, context>>
         \/ /\ pc[p] = "wait" /\ posts[p] > 0 /\ pc' = [pc EXCEPT ![p] = "started"]
            /\ posts' = [posts EXCEPT ![p] = @ - 1] /\ context' = [context EXCEPT ![p] = "gone"]
  BY DEF StartStep, SetsContext, Waits, StartEnds, Goto, handleVars
<1>2. TypeOK'
  <2> DEFINE stages == {"boot", "main", "init", "set", "wait", "started", "serve",
                        "connect", "exited", "crashed"}
  <2>1. pc' \in [Processes -> stages]
    <3>1. pc \in [Processes -> stages] /\ "set" \in stages /\ "wait" \in stages /\ "started" \in stages
      BY DEF TypeOK
    <3> HIDE DEF stages
    <3>. QED  BY <1>1, <3>1
  <2>2. posts' \in [Processes -> Nat]
    BY <1>1 DEF TypeOK
  <2>3. context' \in [Processes -> {"null", "sem", "gone"}]
    BY <1>1 DEF TypeOK
  <2>4. UNCHANGED <<text, config, link, wasUp, stray, calls, losses>>
    BY <1>1 DEF appVars
  <2>. QED  BY <2>1, <2>2, <2>3, <2>4 DEF TypeOK
<1>3. SemaphoreInv'
  BY <1>1 DEF SemaphoreInv, TypeOK
<1>4. NodeInv' /\ DestInv'
  BY <1>1, TwoProcesses DEF NodeInv, DestInv, TypeOK, Published, appVars, lookupVars
<1>5. ConfigInv'
  BY <1>1 DEF ConfigInv, TypeOK, appVars, handleVars
<1>. QED  BY <1>2, <1>3, <1>4, <1>5

\* A post is of the connection that is there (zookeeper_client.cc:13-22).
LEMMA ConnectsKeeps ==
  ASSUME LookupInvariant, NEW p \in Processes, Connects(p)
  PROVE  LookupInvariant'
<1> USE DEF LookupInvariant
<1>1. /\ link' = [link EXCEPT ![p] = "up"] /\ wasUp' = [wasUp EXCEPT ![p] = TRUE]
      /\ link[p] # "none" /\ pc[p] # "exited"
      /\ pc' = pc \/ pc' = [pc EXCEPT ![p] = "crashed"]
      /\ posts' = posts \/ posts' = [posts EXCEPT ![p] = posts[p] + 1]
      /\ stray' = stray \/ stray' = [stray EXCEPT ![p] = TRUE]
      /\ UNCHANGED <<appVars, context, endpoint, node, lookupVars, calls, losses>>
  BY DEF Connects, HasHandle, WatcherPosts, Goto, Post
<1>2. TypeOK'
  <2>1. /\ pc' \in [Processes -> {"boot", "main", "init", "set", "wait", "started", "serve",
                                  "connect", "exited", "crashed"}]
        /\ link' \in [Processes -> {"none", "down", "up", "expired"}]
    BY <1>1 DEF TypeOK
  <2>2. posts' \in [Processes -> Nat]
    BY <1>1 DEF TypeOK
  <2>3. wasUp' \in [Processes -> BOOLEAN] /\ stray' \in [Processes -> BOOLEAN]
    BY <1>1 DEF TypeOK
  <2>4. UNCHANGED <<text, config, context, calls, losses>>
    BY <1>1 DEF appVars
  <2>. QED  BY <2>1, <2>2, <2>3, <2>4 DEF TypeOK
<1>3. SemaphoreInv'
  BY <1>1 DEF SemaphoreInv, TypeOK
<1>4. NodeInv' /\ DestInv'
  BY <1>1, TwoProcesses DEF NodeInv, DestInv, TypeOK, Published, appVars, lookupVars
<1>5. ConfigInv'
  BY <1>1 DEF ConfigInv, TypeOK, appVars, handleVars
<1>. QED  BY <1>2, <1>3, <1>4, <1>5

LEMMA LosesKeeps ==
  ASSUME LookupInvariant, NEW p \in Processes, LinkLost(p) \/ SessionExpires(p)
  PROVE  LookupInvariant'
<1> USE DEF LookupInvariant
<1>1. /\ link' = [link EXCEPT ![p] = "down"] \/ link' = [link EXCEPT ![p] = "expired"]
      /\ node' = node \/ node' = NoNode
      /\ losses' = losses \/ (losses < MaxLosses /\ losses' = losses + 1)
      /\ UNCHANGED <<appVars, pc, context, posts, wasUp, stray, endpoint, lookupVars, calls>>
  <2>1. CASE LinkLost(p)
    BY <2>1 DEF LinkLost
  <2>2. CASE SessionExpires(p)
    <3>1. node' = node \/ node' = NoNode
      BY <2>2 DEF SessionExpires
    <3>2. /\ link' = [link EXCEPT ![p] = "expired"] /\ losses' = losses
          /\ UNCHANGED <<appVars, pc, context, posts, wasUp, stray, endpoint, lookupVars, calls>>
      BY <2>2 DEF SessionExpires
    <3>. QED  BY <3>1, <3>2
  <2>. QED  BY <2>1, <2>2
<1>2. TypeOK'
  <2>1. losses' \in 0 .. MaxLosses
    BY <1>1, LookupAssumption DEF TypeOK
  <2>. QED  BY <1>1, <2>1 DEF TypeOK, appVars
<1>3. SemaphoreInv'
  BY <1>1 DEF SemaphoreInv
<1>4. NodeInv' /\ DestInv'
  BY <1>1 DEF NodeInv, DestInv, Published, appVars, lookupVars, NoNode
<1>5. ConfigInv'
  <2>1. link[p] # "none"
    BY DEF LinkLost, SessionExpires, HasHandle
  <2>. QED  BY <1>1, <2>1 DEF ConfigInv, TypeOK, appVars
<1>. QED  BY <1>2, <1>3, <1>4, <1>5

\* The node's data is the address that Run read (rpc_provider.cc:92-94).
LEMMA PublishesKeeps ==
  ASSUME LookupInvariant, Publishes
  PROVE  LookupInvariant'
<1> USE DEF LookupInvariant
<1>1. /\ pc[Provider] = "started" /\ pc' = [pc EXCEPT ![Provider] = "serve"]
      /\ node' = TextOf(endpoint) \/ node' = node
      /\ UNCHANGED <<appVars, handleVars, endpoint, lookupVars, calls, losses>>
  BY DEF Publishes, Goto, TextOf
<1>2. TypeOK' /\ SemaphoreInv'
  BY <1>1, TwoProcesses DEF TypeOK, SemaphoreInv, appVars, handleVars
<1>3. pc'[Provider] = "serve" /\ pc'[Caller] = pc[Caller] /\ endpoint \in Endpoints
  BY <1>1, TwoProcesses DEF TypeOK, NodeInv
<1>4. NodeInv' /\ DestInv'
  BY <1>1, <1>3 DEF NodeInv, DestInv, Published, lookupVars
<1>5. ConfigInv'
  BY <1>1 DEF ConfigInv, TypeOK, appVars, handleVars
<1>. QED  BY <1>2, <1>4, <1>5

\* The caller reads the node and what follows it in the buffer
\* (mprpc_channel.cc:97-117).
LEMMA LookupSucceedsKeeps ==
  ASSUME LookupInvariant, NEW g \in Garbage, LookupSucceeds(g)
  PROVE  LookupInvariant'
<1> USE DEF LookupInvariant
<1>1. /\ pc[Caller] = "started" /\ pc' = [pc EXCEPT ![Caller] = "connect"]
      /\ node # NoNode /\ garbage' = g /\ host' = node \o g
      /\ dest' = [ip |-> SubSeq(host', 1, Find(host', ":") - 1), port |-> Port(AfterColon(host'))]
      /\ UNCHANGED <<appVars, handleVars, endpoint, node, calls, losses>>
  BY DEF LookupSucceeds, Goto
<1>2. TypeOK' /\ SemaphoreInv'
  BY <1>1, TwoProcesses DEF TypeOK, SemaphoreInv, appVars, handleVars
<1>3. /\ pc'[Provider] = pc[Provider] /\ Published /\ endpoint \in Endpoints
      /\ node = TextOf(endpoint)
  BY <1>1, TwoProcesses DEF TypeOK, NodeInv
<1>4. NodeInv'
  BY <1>1, <1>3 DEF NodeInv, Published, appVars
<1>5. DestInv'
  BY <1>1, <1>3 DEF DestInv, Published
<1>6. ConfigInv'
  BY <1>1 DEF ConfigInv, TypeOK, appVars, handleVars
<1>. QED  BY <1>2, <1>4, <1>5, <1>6

\* The end of a call, or of one whose look-up failed.
LEMMA ReturnsKeeps ==
  ASSUME LookupInvariant, LookupFails \/ CallReturns
  PROVE  LookupInvariant'
<1> USE DEF LookupInvariant
<1>1. /\ pc' = [pc EXCEPT ![Caller] = "main"]
      /\ pc[Caller] \in {"started", "connect"}
      /\ link' = [link EXCEPT ![Caller] = "none"] /\ context' = [context EXCEPT ![Caller] = "null"]
      /\ UNCHANGED <<appVars, posts, wasUp, stray, endpoint, node, calls, losses>>
  BY DEF LookupFails, CallReturns, Returns, Goto
<1>2. TypeOK' /\ SemaphoreInv'
  BY <1>1, TwoProcesses DEF TypeOK, SemaphoreInv, appVars
<1>3. pc'[Caller] = "main" /\ pc'[Provider] = pc[Provider]
  BY <1>1, TwoProcesses DEF TypeOK
<1>4. NodeInv' /\ DestInv'
  BY <1>1, <1>3 DEF NodeInv, DestInv, Published, appVars
<1>5. ConfigInv'
  BY <1>1 DEF ConfigInv, TypeOK, appVars, handleVars
<1>. QED  BY <1>2, <1>4, <1>5

-----------------------------------------------------------------------------
(***************************************************************************)
(* The invariant holds in every state, and what follows from it.           *)
(***************************************************************************)

LEMMA InitInv == Init => LookupInvariant
<1> SUFFICES ASSUME Init PROVE LookupInvariant
  OBVIOUS
<1>1. TypeOK
  BY LookupAssumption DEF Init, TypeOK, Configs
<1>2. ConfigInv /\ SemaphoreInv /\ NodeInv /\ DestInv
  BY TwoProcesses DEF Init, ConfigInv, SemaphoreInv, NodeInv, DestInv
<1>. QED  BY <1>1, <1>2 DEF LookupInvariant

LEMMA StepKeeps == LookupInvariant /\ [Next]_vars => LookupInvariant'
<1> SUFFICES ASSUME LookupInvariant, [Next]_vars PROVE LookupInvariant'
  OBVIOUS
<1>1. CASE UNCHANGED vars
  BY <1>1 DEF vars, LookupInvariant, TypeOK, ConfigInv, SemaphoreInv, NodeInv, DestInv, Published
<1>2. ASSUME NEW p \in Processes, NEW args \in CommandLines, NEW t \in Texts[p], AppInit(p, args, t)
      PROVE  LookupInvariant'
  BY <1>2, AppInitKeeps
<1>3. ASSUME NEW p \in Processes, StartBegins(p) PROVE LookupInvariant'
  BY <1>3, StartBeginsKeeps
<1>4. ASSUME NEW p \in Processes, StartExits(p) PROVE LookupInvariant'
  BY <1>4, StartExitsKeeps
<1>5. ASSUME NEW p \in Processes, StartStep(p) PROVE LookupInvariant'
  BY <1>5, StartStepKeeps
<1>6. ASSUME NEW p \in Processes, Connects(p) PROVE LookupInvariant'
  BY <1>6, ConnectsKeeps
<1>7. ASSUME NEW p \in Processes, LinkLost(p) \/ SessionExpires(p) PROVE LookupInvariant'
  BY <1>7, LosesKeeps
<1>8. ASSUME NEW g \in Garbage, LookupSucceeds(g) PROVE LookupInvariant'
  BY <1>8, LookupSucceedsKeeps
<1>. QED  BY <1>1, <1>2, <1>3, <1>4, <1>5, <1>6, <1>7, <1>8, PublishesKeeps, ReturnsKeeps DEF Next

\* Every reachable state satisfies the inductive invariant, whatever the files
\* hold and however often the connections are lost.
THEOREM LookupInvariance == Spec => []LookupInvariant
<1>1. Init => LookupInvariant
  BY InitInv
<1>2. LookupInvariant /\ [Next]_vars => LookupInvariant'
  BY StepKeeps
<1>. QED  BY <1>1, <1>2, PTL DEF Spec

\* Start returns in a session that has been connected
\* (zookeeper_client.cc:57-72).
THEOREM StartReturnsConnected == Spec => []StartMeansConnected
<1>1. LookupInvariant => StartMeansConnected
  BY DEF LookupInvariant, SemaphoreInv, StartMeansConnected
<1>. QED  BY <1>1, LookupInvariance, PTL

\* In a process that runs the configuration is what its file says, line by
\* line (mprpc_config.cc:6-64).
THEOREM ConfigIsItsFile == Spec => []ConfigAgrees
<1>1. LookupInvariant => ConfigAgrees
  <2>1. ASSUME LookupInvariant, NEW p \in Processes, pc[p] \notin {"boot", "exited"},
               ~HasLongLine(text[p])
        PROVE  Means(text[p], config[p])
    <3>1. text[p] \in Texts[p] /\ config[p] = LoadConfigFile(text[p])
      BY <2>1 DEF LookupInvariant, ConfigInv
    <3>2. text[p] \in Seq(Characters)
      BY <3>1, LookupAssumption
    <3>. QED  BY <2>1, <3>1, <3>2, LoadsWhatItMeans
  <2>. QED  BY <2>1 DEF ConfigAgrees
<1>. QED  BY <1>1, LookupInvariance, PTL

\* A caller connects to the address the provider read from its configuration
\* and listens on (rpc_provider.cc:53-94, zookeeper_client.cc:118-132,
\* mprpc_channel.cc:97-117).
THEOREM CallerFindsProvider == Spec => []AddressArrives
<1>1. LookupInvariant => AddressArrives
  <2> SUFFICES ASSUME LookupInvariant, pc[Caller] = "connect", ":" \notin ToSet(endpoint.ip),
                      Leading(garbage, ToSet(Digits)) = 0
               PROVE  dest = endpoint
    BY DEF AddressArrives
  <2> DEFINE read == TextOf(endpoint) \o garbage
  <2>1. /\ endpoint \in Endpoints /\ garbage \in Garbage
        /\ dest = [ip |-> SubSeq(read, 1, Find(read, ":") - 1), port |-> Port(AfterColon(read))]
    BY DEF LookupInvariant, DestInv
  <2>2. endpoint = [ip |-> SubSeq(read, 1, Find(read, ":") - 1), port |-> Port(AfterColon(read))]
    BY <2>1, EndpointIsReadBack
  <2>. QED  BY <2>1, <2>2
<1>. QED  BY <1>1, LookupInvariance, PTL

=============================================================================
