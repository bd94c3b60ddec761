--------------------------- MODULE MarshalProofs ---------------------------
(***************************************************************************)
(* Proofs about Marshal, for any services, stubs and messages, and any     *)
(* codec that parses what it wrote and tells where its fields end:         *)
(* OnMessage decodes the bytes CallMethod framed into the call they were   *)
(* made from, so that what runs is the call the stub was given, on the     *)
(* object NotifyService was given first; what comes back is that call's    *)
(* response; and a read cut anywhere is decoded as RpcWire says.           *)
(***************************************************************************)
EXTENDS MarshalInv, SequenceTheorems, WellFoundedInduction, TLAPS

-----------------------------------------------------------------------------
(***************************************************************************)
(* The frame.                                                              *)
(***************************************************************************)

LEMMA Divides ==
  ASSUME NEW n \in Nat, NEW q \in Int, NEW r \in Int, q = n \div Byte, r = n % Byte
  PROVE  q \in Nat /\ r \in 0 .. Byte - 1 /\ n = r + Byte * q
BY DEF Byte

LEMMA DividesTwice ==
  ASSUME NEW n \in Nat, NEW q \in Nat, q = n \div Byte
  PROVE  n \div (Byte * Byte) = q \div Byte
BY DEF Byte

LEMMA DividesThrice ==
  ASSUME NEW n \in Nat, NEW q \in Nat, q = n \div (Byte * Byte)
  PROVE  n \div (Byte * Byte * Byte) = q \div Byte
BY DEF Byte

\* The provider reads the four bytes of header_size as the number the caller
\* has in memory (mprpc_channel.cc:66, rpc_provider.cc:131-133).
LEMMA FixedIsReadBack ==
  ASSUME NEW n \in Nat, NEW b, \A i \in 1 .. 4 : b[i] = Fixed32(n)[i]
  PROVE  FromFixed32(b) = n
<1>1. PICK q \in Int : q = n \div Byte
  BY DEF Byte
<1>2. PICK r \in Int : r = n % Byte
  BY DEF Byte
<1>3. q \in Nat /\ n = r + Byte * q
  BY <1>1, <1>2, Divides
<1>4. PICK q2 \in Int : q2 = q \div Byte
  BY <1>3 DEF Byte
<1>5. PICK r2 \in Int : r2 = q % Byte
  BY <1>3 DEF Byte
<1>6. q2 \in Nat /\ q = r2 + Byte * q2 /\ q2 = n \div (Byte * Byte)
  BY <1>1, <1>3, <1>4, <1>5, Divides, DividesTwice
<1>7. PICK q3 \in Int : q3 = q2 \div Byte
  BY <1>6 DEF Byte
<1>8. PICK r3 \in Int : r3 = q2 % Byte
  BY <1>6 DEF Byte
<1>9. q2 = r3 + Byte * q3 /\ q3 = n \div (Byte * Byte * Byte)
  BY <1>6, <1>7, <1>8, Divides, DividesThrice
<1>10. b[1] = r /\ b[2] = r2 /\ b[3] = r3 /\ b[4] = q3
  BY <1>1, <1>2, <1>5, <1>6, <1>8, <1>9 DEF Fixed32
<1>. QED  BY <1>3, <1>6, <1>9, <1>10 DEF FromFixed32

LEMMA FourBytes ==
  ASSUME NEW n \in Nat
  PROVE  Fixed32(n) \in Seq(Int) /\ Len(Fixed32(n)) = 4
<1>1. /\ n % Byte \in Int /\ (n \div Byte) % Byte \in Int
      /\ (n \div (Byte * Byte)) % Byte \in Int /\ n \div (Byte * Byte * Byte) \in Int
  BY DEF Byte
<1>. QED  BY <1>1 DEF Fixed32

\* A part of a sequence is found where it is.
LEMMA SliceIs ==
  ASSUME NEW S, NEW b \in Seq(S), NEW h \in Seq(S), NEW from \in Nat,
         from + Len(h) <= Len(b),
         \A i \in 1 .. Len(h) : b[from + i] = h[i]
  PROVE  Slice(b, from, Len(h)) = h
<1>1. PICK l \in Nat : l = Len(h)
  OBVIOUS
<1>2. Slice(b, from, l) = SubSeq(b, from + 1, from + l)
  <2>1. from + l = Len(b) \/ from + l < Len(b)
    BY <1>1
  <2>. QED  BY <1>1, <2>1 DEF Slice
<1>3. SubSeq(b, from + 1, from + l) \in Seq(S) /\ Len(SubSeq(b, from + 1, from + l)) = l
  BY <1>1
<1>4. \A i \in 1 .. l : SubSeq(b, from + 1, from + l)[i] = b[from + i]
  BY <1>1
<1>5. SubSeq(b, from + 1, from + l) = h
  BY <1>1, <1>3, <1>4, SeqEqual
<1>. QED  BY <1>1, <1>2, <1>5

\* What is left of a part of a sequence that is cut.
LEMMA SliceOfPart ==
  ASSUME NEW S, NEW b \in Seq(S), NEW h \in Seq(S), NEW from \in Nat, NEW n \in Nat,
         from + Len(h) <= Len(b), from <= n, n <= from + Len(h),
         \A i \in 1 .. Len(h) : b[from + i] = h[i]
  PROVE  Slice(SubSeq(b, 1, n), from, Len(h)) = SubSeq(h, 1, n - from)
<1> DEFINE c == SubSeq(b, 1, n)
<1>1. PICK l \in Nat : l = Len(h)
  OBVIOUS
<1>2. Len(b) \in Nat /\ n <= Len(b) /\ n - from \in 0 .. l
  BY <1>1
<1>3. c \in Seq(S) /\ Len(c) = n /\ \A i \in 1 .. n : c[i] = b[i]
  BY <1>2
<1>4. SubSeq(h, 1, n - from) \in Seq(S) /\ Len(SubSeq(h, 1, n - from)) = n - from
      /\ \A i \in 1 .. n - from : SubSeq(h, 1, n - from)[i] = h[i]
  BY <1>1, <1>2
<1> HIDE DEF c
<1>5. Slice(c, from, l) = SubSeq(c, from + 1, n)
  <2>1. from + l = n \/ ~(from + l < n)
    BY <1>1
  <2>. QED  BY ONLY <1>3, <2>1 DEF Slice
<1>6. /\ SubSeq(c, from + 1, n) \in Seq(S) /\ Len(SubSeq(c, from + 1, n)) = n - from
      /\ \A i \in 1 .. n - from : SubSeq(c, from + 1, n)[i] = c[from + i]
  BY <1>3
<1>7. \A i \in 1 .. n - from : SubSeq(c, from + 1, n)[i] = SubSeq(h, 1, n - from)[i]
  <2>1. SUFFICES ASSUME NEW i \in 1 .. n - from
                 PROVE  SubSeq(c, from + 1, n)[i] = SubSeq(h, 1, n - from)[i]
    OBVIOUS
  <2>2. from + i \in 1 .. n /\ i \in 1 .. Len(h)
    BY <1>1, <1>2
  <2>. QED  BY <1>3, <1>4, <1>6, <2>1, <2>2
<1>8. SubSeq(c, from + 1, n) = SubSeq(h, 1, n - from)
  BY <1>4, <1>6, <1>7, SeqEqual
<1>. QED  BY <1>1, <1>5, <1>8 DEF c

\* Three sequences, cut apart where they were joined.
LEMMA CutsApart ==
  ASSUME NEW S, NEW a \in Seq(S), NEW h \in Seq(S), NEW g \in Seq(S)
  PROVE  /\ Len(a \o h \o g) = Len(a) + Len(h) + Len(g)
         /\ \A i \in 1 .. Len(a) : (a \o h \o g)[i] = a[i]
         /\ Slice(a \o h \o g, Len(a), Len(h)) = h
         /\ Slice(a \o h \o g, Len(a) + Len(h), Len(g)) = g
         /\ \A i \in 1 .. Len(h) : (a \o h \o g)[Len(a) + i] = h[i]
         /\ \A i \in 1 .. Len(g) : (a \o h \o g)[Len(a) + Len(h) + i] = g[i]
<1> DEFINE c == a \o h
           b == c \o g
<1>1. Len(a) \in Nat /\ Len(h) \in Nat /\ Len(g) \in Nat
  OBVIOUS
<1>2. c \in Seq(S) /\ Len(c) = Len(a) + Len(h)
  BY ConcatProperties, LenProperties
<1>3. /\ \A i \in 1 .. Len(a) : c[i] = a[i]
      /\ \A i \in 1 .. Len(h) : c[Len(a) + i] = h[i]
  BY ConcatProperties, LenProperties
<1> HIDE DEF c
<1>4. b \in Seq(S) /\ Len(b) = Len(c) + Len(g)
  BY <1>2, ConcatProperties, LenProperties
<1>5. /\ \A i \in 1 .. Len(c) : b[i] = c[i]
      /\ \A i \in 1 .. Len(g) : b[Len(c) + i] = g[i]
  BY <1>2, ConcatProperties, LenProperties
<1> HIDE DEF b
<1>6. Len(b) = Len(a) + Len(h) + Len(g)
  BY <1>1, <1>2, <1>4
<1>7. \A i \in 1 .. Len(a) : b[i] = a[i]
  BY <1>1, <1>2, <1>3, <1>5
<1>8. \A i \in 1 .. Len(h) : b[Len(a) + i] = h[i]
  BY <1>1, <1>2, <1>3, <1>5
<1>9. \A i \in 1 .. Len(g) : b[Len(a) + Len(h) + i] = g[i]
  BY <1>2, <1>5
<1>10. Slice(b, Len(a), Len(h)) = h
  <2>1. Len(a) + Len(h) <= Len(b)
    BY <1>1, <1>6
  <2>. QED  BY <1>1, <1>4, <1>8, <2>1, SliceIs
<1>11. Slice(b, Len(a) + Len(h), Len(g)) = g
  <2>1. Len(a) + Len(h) \in Nat /\ Len(a) + Len(h) + Len(g) <= Len(b)
    BY <1>1, <1>6
  <2>. QED  BY <1>4, <1>9, <2>1, SliceIs
<1>. QED  BY <1>6, <1>7, <1>8, <1>9, <1>10, <1>11 DEF b, c

\* The same three, less their end.
LEMMA CutsApartWhenCut ==
  ASSUME NEW S, NEW a \in Seq(S), NEW h \in Seq(S), NEW g \in Seq(S),
         NEW n \in Nat, Len(a) <= n, n <= Len(a) + Len(h) + Len(g)
  PROVE  LET c == SubSeq(a \o h \o g, 1, n) IN
         /\ Len(c) = n
         /\ \A i \in 1 .. Len(a) : c[i] = a[i]
         /\ n <= Len(a) + Len(h) => Slice(c, Len(a), Len(h)) = SubSeq(h, 1, n - Len(a))
         /\ Len(a) + Len(h) <= n =>
              /\ Slice(c, Len(a), Len(h)) = h
              /\ Slice(c, Len(a) + Len(h), Len(g)) = SubSeq(g, 1, n - (Len(a) + Len(h)))
<1> DEFINE b == a \o h \o g
           c == SubSeq(b, 1, n)
<1>1. /\ Len(b) = Len(a) + Len(h) + Len(g)
      /\ \A i \in 1 .. Len(a) : b[i] = a[i]
      /\ \A i \in 1 .. Len(h) : b[Len(a) + i] = h[i]
      /\ \A i \in 1 .. Len(g) : b[Len(a) + Len(h) + i] = g[i]
  BY CutsApart
<1>2. b \in Seq(S)
  BY ConcatProperties
<1> HIDE DEF b
<1>3. Len(a) \in Nat /\ Len(h) \in Nat /\ Len(g) \in Nat /\ Len(b) \in Nat
  BY <1>2, LenProperties
<1>4. c \in Seq(S) /\ Len(c) = n /\ \A i \in 1 .. n : c[i] = b[i]
  BY <1>1, <1>2, <1>3
<1> HIDE DEF c
<1>5. \A i \in 1 .. Len(a) : c[i] = a[i]
  BY <1>1, <1>3, <1>4
<1>6. ASSUME n <= Len(a) + Len(h) PROVE Slice(c, Len(a), Len(h)) = SubSeq(h, 1, n - Len(a))
  <2>1. Len(a) + Len(h) <= Len(b)
    BY <1>1, <1>3
  <2>2. Len(a) \in Nat /\ \A i \in 1 .. Len(h) : b[Len(a) + i] = h[i]
    BY <1>1, <1>3
  <2>. QED  BY ONLY <1>2, <1>6, <2>1, <2>2, Len(a) <= n, h \in Seq(S), n \in Nat, SliceOfPart
            DEF c
<1>7. ASSUME Len(a) + Len(h) <= n PROVE Slice(c, Len(a), Len(h)) = h
  <2>1. ASSUME NEW i \in 1 .. Len(h) PROVE c[Len(a) + i] = h[i]
    <3>1. Len(a) + i \in 1 .. n
      BY ONLY <1>3, <1>7, <2>1, n \in Nat
    <3>. QED  BY ONLY <1>1, <1>4, <2>1, <3>1
  <2>. QED  BY <1>3, <1>4, <1>7, <2>1, SliceIs
<1>8. ASSUME Len(a) + Len(h) <= n
      PROVE  Slice(c, Len(a) + Len(h), Len(g)) = SubSeq(g, 1, n - (Len(a) + Len(h)))
  <2>1. Len(a) + Len(h) \in Nat /\ Len(a) + Len(h) + Len(g) <= Len(b)
    BY <1>1, <1>3
  <2>. QED  BY ONLY <1>1, <1>2, <1>8, <2>1, n <= Len(a) + Len(h) + Len(g), g \in Seq(S),
                    n \in Nat, SliceOfPart DEF c
<1>. QED  BY <1>4, <1>5, <1>6, <1>7, <1>8 DEF b, c

-----------------------------------------------------------------------------
(***************************************************************************)
(* Decoding.                                                               *)
(***************************************************************************)

\* A call of a stub, its arguments' bytes, and the header in front of them.
Stubbed(s, m, request) == s \in Stubs /\ m \in ToSet(s.methods) /\ request \in m.requests
ArgsOf(m, request)      == SerializeToString(m.input, request)
HeaderFor(s, m, request) == Header(s.name, m.name, Len(ArgsOf(m, request)))
ReadBack(msg)           == [ok |-> TRUE, msg |-> msg]

\* A message that round-trips, whole and cut.
LEMMA WholeIsReadBack ==
  ASSUME NEW class, NEW msg, RoundTrips(class, msg)
  PROVE  /\ SerializeToString(class, msg) \in Seq(0 .. 255)
         /\ ParseFromString(class, Cleared(class), SerializeToString(class, msg)) = ReadBack(msg)
<1> DEFINE bytes == SerializeToString(class, msg)
<1>1. /\ bytes \in Seq(0 .. 255)
      /\ ParseFromString(class, Cleared(class), SubSeq(bytes, 1, Len(bytes))) = ReadBack(msg)
  BY DEF RoundTrips, ReadBack
<1> HIDE DEF bytes
<1>2. SubSeq(bytes, 1, Len(bytes)) = bytes
  BY <1>1
<1>. QED  BY <1>1, <1>2 DEF bytes

LEMMA PartIsReadBack ==
  ASSUME NEW class, NEW msg, RoundTrips(class, msg), NEW n \in 0 .. Len(SerializeToString(class, msg))
  PROVE  ParseFromString(class, Cleared(class), SubSeq(SerializeToString(class, msg), 1, n)).ok
           = (n \in FieldEndsOf(class, msg))
BY DEF RoundTrips

\* Both parts of a request are read back as what was written.
LEMMA PartsRoundTrip ==
  ASSUME NEW s, NEW m, NEW request, Stubbed(s, m, request)
  PROVE  /\ RoundTrips(m.input, request)
         /\ RoundTrips(RpcHeader, HeaderFor(s, m, request))
         /\ SerializeToString(RpcHeader, HeaderFor(s, m, request)) # <<>>
BY CodecAssumption DEF Stubbed, HeaderFor, ArgsOf

\* OnMessage takes what it has of a request apart where CallMethod put it
\* together, and so looks up the method it names and no other
\* (rpc_provider.cc:128-155).
LEMMA CutIsDecoded ==
  ASSUME NEW s, NEW m, NEW request, Stubbed(s, m, request),
         NEW header, header = HeaderFor(s, m, request),
         NEW hdr, hdr = SerializeToString(RpcHeader, header),
         NEW args, args = ArgsOf(m, request),
         NEW n \in 0 .. Len(Framed(s.name, m, request))
  PROVE  LET c == SubSeq(Framed(s.name, m, request), 1, n) IN
         /\ Len(Framed(s.name, m, request)) = 4 + Len(hdr) + Len(args)
         /\ n < 4 => Decode(c) = Throws
         /\ 4 <= n /\ n < 4 + Len(hdr) =>
              Decode(c) = IF n - 4 \in FieldEndsOf(RpcHeader, header) THEN Throws ELSE Drops
         /\ 4 + Len(hdr) <= n =>
              Decode(c) = FindMethod(header, SubSeq(args, 1, n - (4 + Len(hdr))))
<1> DEFINE size == Fixed32(Len(hdr))
           b    == size \o hdr \o args
           c    == SubSeq(b, 1, n)
<1>1. RoundTrips(m.input, request) /\ RoundTrips(RpcHeader, header)
  BY PartsRoundTrip
<1>2. args \in Seq(0 .. 255) /\ hdr \in Seq(0 .. 255)
  BY <1>1, WholeIsReadBack DEF ArgsOf
<1>3. /\ ParseFromString(RpcHeader, Cleared(RpcHeader), hdr) = ReadBack(header)
      /\ \A k \in 0 .. Len(hdr) :
           ParseFromString(RpcHeader, Cleared(RpcHeader), SubSeq(hdr, 1, k)).ok
             = (k \in FieldEndsOf(RpcHeader, header))
  BY <1>1, WholeIsReadBack, PartIsReadBack
<1>4. Framed(s.name, m, request) = b
  BY DEF Framed, HeaderOf, HeaderFor, ArgsOf
<1>5. header.args_size = Len(args)
  BY DEF HeaderFor, Header
<1>6. PICK H \in Nat, A \in Nat : H = Len(hdr) /\ A = Len(args)
  BY <1>2
<1>7. size \in Seq(Int) /\ hdr \in Seq(Int) /\ args \in Seq(Int)
  <2>1. hdr \in Seq(Int) /\ args \in Seq(Int)
    BY <1>2, 0 .. 255 \subseteq Int, SeqMonotonic
  <2>. QED  BY <1>6, <2>1, FourBytes
<1>8. Len(size) = 4
  BY <1>6, FourBytes
<1> HIDE DEF size
<1>9. Len(b) = 4 + H + A /\ b \in Seq(Int)
  <2>1. Len(b) = Len(size) + Len(hdr) + Len(args)
    BY <1>7, CutsApart
  <2>2. b \in Seq(Int)
    BY <1>7, ConcatProperties
  <2>. QED  BY <1>6, <1>8, <2>1, <2>2
<1>10. ASSUME 4 <= n
       PROVE  /\ Len(c) = n /\ FromFixed32(c) = H
              /\ n <= 4 + H => Slice(c, 4, H) = SubSeq(hdr, 1, n - 4)
              /\ 4 + H <= n =>
                   /\ Slice(c, 4, H) = hdr
                   /\ Slice(c, 4 + H, A) = SubSeq(args, 1, n - (4 + H))
  <2>1. /\ Len(size) <= n /\ n <= Len(size) + Len(hdr) + Len(args) /\ n \in Nat
    BY <1>4, <1>6, <1>8, <1>9, <1>10
  <2>2. /\ Len(c) = n
        /\ \A i \in 1 .. Len(size) : c[i] = size[i]
        /\ n <= Len(size) + Len(hdr) =>
             Slice(c, Len(size), Len(hdr)) = SubSeq(hdr, 1, n - Len(size))
        /\ Len(size) + Len(hdr) <= n =>
             /\ Slice(c, Len(size), Len(hdr)) = hdr
             /\ Slice(c, Len(size) + Len(hdr), Len(args))
                  = SubSeq(args, 1, n - (Len(size) + Len(hdr)))
    BY ONLY <1>7, <2>1, CutsApartWhenCut
  <2> HIDE DEF c
  <2>3. \A i \in 1 .. 4 : c[i] = Fixed32(H)[i]
    BY <1>6, <1>8, <2>2 DEF size
  <2>4. FromFixed32(c) = H
    BY <2>3, FixedIsReadBack
  <2>. QED  BY ONLY <1>6, <1>8, <2>2, <2>4
<1>11. n < 4 => Len(c) = n
  BY <1>4, <1>9
<1> HIDE DEF b, c
<1>12. n < 4 => Decode(c) = Throws
  BY <1>11 DEF Decode
<1>13. ASSUME 4 <= n, n < 4 + H
       PROVE  Decode(c) = IF n - 4 \in FieldEndsOf(RpcHeader, header) THEN Throws ELSE Drops
  <2> DEFINE part == ParseFromString(RpcHeader, Cleared(RpcHeader), SubSeq(hdr, 1, n - 4))
  <2>1. part.ok = (n - 4 \in FieldEndsOf(RpcHeader, header))
    <3>1. n - 4 \in 0 .. Len(hdr)
      BY <1>6, <1>13
    <3>. QED  BY ONLY <1>3, <3>1, Zenon
  <2>2. Decode(c) = DecodeHeader(c, H, part)
    <3>1. ~(Len(c) < 4) /\ FromFixed32(c) = H /\ Slice(c, 4, H) = SubSeq(hdr, 1, n - 4)
      BY <1>10, <1>13
    <3>. QED  BY ONLY <3>1 DEF Decode
  <2>3. Len(c) < 4 + H
    BY <1>10, <1>13
  <2> HIDE DEF part
  <2>. QED  BY ONLY <2>1, <2>2, <2>3 DEF DecodeHeader
<1>14. ASSUME 4 + H <= n
       PROVE  Decode(c) = FindMethod(header, SubSeq(args, 1, n - (4 + H)))
  <2>1. 4 <= n /\ ~(n < 4) /\ ~(n < 4 + H)
    BY <1>14
  <2>2. Len(c) = n /\ FromFixed32(c) = H /\ Slice(c, 4, H) = hdr
        /\ Slice(c, 4 + H, A) = SubSeq(args, 1, n - (4 + H))
    BY <1>10, <1>14, <2>1
  <2>3. Decode(c) = DecodeHeader(c, H, ReadBack(header))
    BY <1>3, <2>1, <2>2 DEF Decode
  <2>4. ReadBack(header).ok /\ ReadBack(header).msg = header
    BY DEF ReadBack
  <2>. QED  BY <1>5, <1>6, <2>1, <2>2, <2>3, <2>4 DEF DecodeHeader
<1>. QED  BY <1>4, <1>6, <1>9, <1>12, <1>13, <1>14 DEF c

\* A request that is there as a whole.
LEMMA FrameIsDecoded ==
  ASSUME NEW s, NEW m, NEW request, Stubbed(s, m, request)
  PROVE  Decode(Framed(s.name, m, request))
           = FindMethod(HeaderFor(s, m, request), ArgsOf(m, request))
<1> DEFINE args == ArgsOf(m, request)
           hdr  == SerializeToString(RpcHeader, HeaderFor(s, m, request))
           b    == Framed(s.name, m, request)
<1>1. args \in Seq(0 .. 255) /\ hdr \in Seq(0 .. 255)
  BY PartsRoundTrip, WholeIsReadBack DEF ArgsOf
<1>2. b = Fixed32(Len(hdr)) \o hdr \o args
  BY DEF Framed, HeaderOf, HeaderFor, ArgsOf
<1> HIDE DEF args, hdr, b
<1>3. b \in Seq(Int)
  <2>1. hdr \in Seq(Int) /\ args \in Seq(Int)
    BY <1>1, 0 .. 255 \subseteq Int, SeqMonotonic
  <2>2. Fixed32(Len(hdr)) \in Seq(Int)
    BY <1>1, FourBytes
  <2>. QED  BY <1>2, <2>1, <2>2, ConcatProperties
<1>4. PICK n \in Nat, H \in Nat, A \in Nat : n = Len(b) /\ H = Len(hdr) /\ A = Len(args)
  BY <1>1, <1>3
<1>5. n = 4 + H + A /\ (4 + H <= n =>
        Decode(SubSeq(b, 1, n)) = FindMethod(HeaderFor(s, m, request), SubSeq(args, 1, n - (4 + H))))
  BY <1>4, CutIsDecoded DEF args, hdr, b
<1>6. 4 + H <= n /\ n - (4 + H) = A
  BY <1>5
<1>7. SubSeq(b, 1, n) = b /\ SubSeq(args, 1, A) = args
  BY <1>1, <1>3, <1>4
<1>. QED  BY <1>5, <1>6, <1>7 DEF args, b

-----------------------------------------------------------------------------
(***************************************************************************)
(* The two look-ups.                                                       *)
(***************************************************************************)

\* Natural numbers have a least one.
LEMMA MinIsIn ==
  ASSUME NEW S, S \subseteq Nat, S # {}
  PROVE  Min(S) \in S
<1> DEFINE less == OpToRel(<, Nat)
<1>1. \A x, y \in Nat : x < y => <<x, y>> \in less
  BY DEF OpToRel
<1>2. IsWellFoundedOn(less, Nat)
  BY NatLessThanWellFounded
<1> HIDE DEF less
<1>3. PICK x \in S : \A y \in S : ~ (<<y, x>> \in less)
  BY <1>2, WFMin
<1>4. \A y \in S : x <= y
  <2>1. SUFFICES ASSUME NEW y \in S PROVE ~(y < x)
    OBVIOUS
  <2>. QED  BY <1>1, <1>3
<1>. QED  BY <1>4 DEF Min

\* What the map's entry for x is.
LEMMA MapKnows ==
  ASSUME TypeOK, MapInv, NEW x \in DOMAIN serviceMap
  PROVE  serviceMap[x] \in Objects /\ Class[serviceMap[x]].name = x
<1>1. PICK n \in DOMAIN notified : FirstOf(n, x) /\ serviceMap[x] = notified[n]
  BY DEF MapInv
<1>2. notified[n] \in Objects
  BY <1>1 DEF TypeOK
<1>. QED  BY <1>1, <1>2 DEF FirstOf

\* Object o's class has the stub's i-th method.
SameMethod(o, s, i) ==
  /\ i \in DOMAIN Class[o].methods
  /\ Class[o].methods[i].name = s.methods[i].name
  /\ Class[o].methods[i].input = s.methods[i].input
  /\ Class[o].methods[i].output = s.methods[i].output

\* A stub's method is found in the service's descriptor under its own index or
\* not at all: the two have the same .proto file (rpc_provider.cc:184-191).
LEMMA MethodIsFound ==
  ASSUME NEW s \in Stubs, NEW i \in DOMAIN s.methods, NEW o \in Objects, Class[o].name = s.name
  PROVE  LET k == MethodIndex(o, s.methods[i].name) IN
         \/ k = 0 /\ \A x \in ToSet(Class[o].methods) : x.name # s.methods[i].name
         \/ k = i /\ SameMethod(o, s, i)
<1> DEFINE k == MethodIndex(o, s.methods[i].name)
           I == { j \in 1 .. Len(Class[o].methods) : Class[o].methods[j].name = s.methods[i].name }
<1>1. k = IF I # {} THEN Min(I) ELSE 0
  BY ONLY Zenon DEF MethodIndex, SelectInSeq
<1>2. /\ I \subseteq Nat /\ I \subseteq DOMAIN Class[o].methods
      /\ DOMAIN Class[o].methods = 1 .. Len(Class[o].methods)
  BY DescriptorAssumption
<1>3. ASSUME NEW j \in I PROVE j = i /\ SameMethod(o, s, i)
  <2>1. j \in DOMAIN Class[o].methods /\ s.methods[i].name = Class[o].methods[j].name
    BY <1>2
  <2>2. /\ i = j
        /\ s.methods[i].input = Class[o].methods[j].input
        /\ s.methods[i].output = Class[o].methods[j].output
    BY ONLY <2>1, DescriptorAssumption, s \in Stubs, i \in DOMAIN s.methods, o \in Objects,
            Class[o].name = s.name
  <2>. QED  BY ONLY <2>1, <2>2 DEF SameMethod
<1>4. I = {} => \A x \in ToSet(Class[o].methods) : x.name # s.methods[i].name
  BY <1>2 DEF ToSet
<1> HIDE DEF I, k
<1>5. CASE I # {}
  <2>1. k \in I
    BY <1>1, <1>2, <1>5, MinIsIn
  <2>. QED  BY <1>3, <2>1 DEF k
<1>6. CASE I = {}
  BY <1>1, <1>4, <1>6 DEF k
<1>. QED  BY <1>5, <1>6

\* What OnMessage does of a stub's call once its header is read: the method is
\* the stub's, and the arguments decide (rpc_provider.cc:157-204).
LEMMA FindsMethod ==
  ASSUME TypeOK, MapInv, NEW s \in Stubs, NEW i \in DOMAIN s.methods, NEW header, NEW bytes,
         header.service_name = s.name, header.method_name = s.methods[i].name,
         NEW args, args = ParseFromString(s.methods[i].input, Cleared(s.methods[i].input), bytes)
  PROVE  LET o == serviceMap[s.name] IN
         /\ KnownMethod(s, s.methods[i].name) => s.name \in DOMAIN serviceMap /\ SameMethod(o, s, i)
         /\ FindMethod(header, bytes)
              = IF KnownMethod(s, s.methods[i].name) /\ args.ok
                THEN Outcome("dispatch", o, i, args.msg) ELSE Drops
<1> DEFINE o == serviceMap[s.name]
           name == s.methods[i].name
           k == MethodIndex(o, name)
<1>1. CASE s.name \notin DOMAIN serviceMap
  BY <1>1 DEF FindMethod, KnownMethod
<1>2. CASE s.name \in DOMAIN serviceMap
  <2>1. o \in Objects /\ Class[o].name = s.name
    BY <1>2, MapKnows
  <2>2. FindMethod(header, bytes) = DecodeArgs(o, k, bytes)
    BY <1>2 DEF FindMethod
  <2>3. \/ k = 0 /\ \A x \in ToSet(Class[o].methods) : x.name # name
        \/ k = i /\ SameMethod(o, s, i)
    BY <2>1, MethodIsFound
  <2>4. i # 0
    BY DescriptorAssumption
  <2> HIDE DEF k
  <2>5. CASE k = 0
    <3>1. ~KnownMethod(s, name)
      BY <2>3, <2>4, <2>5 DEF KnownMethod
    <3>2. DecodeArgs(o, k, bytes) = Drops
      BY ONLY <2>5 DEF DecodeArgs
    <3>. QED  BY <2>2, <3>1, <3>2
  <2>6. CASE k = i /\ SameMethod(o, s, i)
    <3>1. KnownMethod(s, name)
      BY ONLY <1>2, <2>6 DEF KnownMethod, SameMethod, ToSet
    <3>2. DecodeArgs(o, i, bytes) = IF args.ok THEN Outcome("dispatch", o, i, args.msg) ELSE Drops
      <4>1. Class[o].methods[i].input = s.methods[i].input
        BY ONLY <2>6 DEF SameMethod
      <4>. QED  BY ONLY <2>4, <4>1, args = ParseFromString(s.methods[i].input, Cleared(s.methods[i].input), bytes) DEF DecodeArgs
    <3>. QED  BY <1>2, <2>2, <2>6, <3>1, <3>2
  <2>. QED  BY <2>3, <2>5, <2>6
<1>. QED  BY <1>1, <1>2

\* A call that is on the wire is one a stub can make.
LEMMA CallIsStubbed ==
  ASSUME CallInv, pc \in Called, NEW s, s = call.service, NEW m, m = s.methods[call.index]
  PROVE  /\ s \in Stubs /\ call.index \in DOMAIN s.methods /\ Stubbed(s, m, call.request)
         /\ call.bytes = Framed(s.name, m, call.request)
         /\ HeaderFor(s, m, call.request).service_name = s.name
         /\ HeaderFor(s, m, call.request).method_name = m.name
<1>1. /\ s \in Stubs /\ call.index \in DOMAIN s.methods /\ call.request \in m.requests
      /\ call.bytes = Framed(s.name, m, call.request)
  BY DEF CallInv, Method
<1>2. m \in ToSet(s.methods)
  BY <1>1 DEF ToSet
<1>. QED  BY <1>1, <1>2 DEF Stubbed, HeaderFor, Header

\* OnMessage drops a request that is on the wire, or dispatches what the stub
\* was called with, to the object the map has for the stub's service.
LEMMA CallIsDecoded ==
  ASSUME TypeOK, MapInv, CallInv, pc = "sent"
  PROVE  \/ Decode(call.bytes) = Drops
         \/ /\ call.service.name \in DOMAIN serviceMap
            /\ SameMethod(serviceMap[call.service.name], call.service, call.index)
            /\ Decode(call.bytes) = Outcome("dispatch", serviceMap[call.service.name],
                                            call.index, call.request)
<1> DEFINE s == call.service
           m == s.methods[call.index]
           args == ArgsOf(m, call.request)
           header == HeaderFor(s, m, call.request)
<1>1. /\ s \in Stubs /\ call.index \in DOMAIN s.methods /\ Stubbed(s, m, call.request)
      /\ call.bytes = Framed(s.name, m, call.request)
      /\ header.service_name = s.name /\ header.method_name = m.name
  BY CallIsStubbed DEF Called
<1>2. Decode(call.bytes) = FindMethod(header, args)
  BY <1>1, FrameIsDecoded
<1>3. ParseFromString(m.input, Cleared(m.input), args) = ReadBack(call.request)
  BY <1>1, PartsRoundTrip, WholeIsReadBack DEF ArgsOf
<1>4. ReadBack(call.request).ok /\ ReadBack(call.request).msg = call.request
  BY DEF ReadBack
<1> HIDE DEF args, header
<1>5. /\ KnownMethod(s, m.name) =>
           s.name \in DOMAIN serviceMap /\ SameMethod(serviceMap[s.name], s, call.index)
      /\ FindMethod(header, args)
           = IF KnownMethod(s, m.name) /\ ReadBack(call.request).ok
             THEN Outcome("dispatch", serviceMap[s.name], call.index, ReadBack(call.request).msg)
             ELSE Drops
  BY <1>1, <1>3, FindsMethod
<1>. QED  BY <1>2, <1>4, <1>5

\* What becomes of the first n bytes of a request, from the ends of the fields
\* of its header, of H bytes, and of its arguments.
CutOutcome(n, H, headerEnds, known, argsEnds) ==
  IF n < 4 \/ (n < 4 + H /\ n - 4 \in headerEnds) THEN "throw"
  ELSE IF 4 + H <= n /\ known /\ n - (4 + H) \in argsEnds THEN "dispatch"
  ELSE "drop"

\* What OnMessage makes of a read that stops after n bytes of a request:
\* the ends of the fields decide (rpc_provider.cc:128-204).
LEMMA CutCallIsDecoded ==
  ASSUME TypeOK, MapInv, CallInv, pc = "sent", NEW n \in 1 .. Len(call.bytes),
         NEW s, s = call.service, NEW m, m = s.methods[call.index],
         NEW header, header = HeaderFor(s, m, call.request),
         NEW H, H = Len(SerializeToString(RpcHeader, header))
  PROVE  Decode(SubSeq(call.bytes, 1, n)).what =
           CutOutcome(n, H, FieldEndsOf(RpcHeader, header), KnownMethod(s, m.name),
                      FieldEndsOf(m.input, call.request))
<1> DEFINE args == ArgsOf(m, call.request)
           cut  == SubSeq(call.bytes, 1, n)
           rest == SubSeq(args, 1, n - (4 + H))
           part == ParseFromString(m.input, Cleared(m.input), rest)
<1>1. /\ s \in Stubs /\ call.index \in DOMAIN s.methods /\ Stubbed(s, m, call.request)
      /\ call.bytes = Framed(s.name, m, call.request)
      /\ header.service_name = s.name /\ header.method_name = m.name
  BY CallIsStubbed DEF Called
<1>2. RoundTrips(m.input, call.request) /\ RoundTrips(RpcHeader, header)
  BY <1>1, PartsRoundTrip
<1>3. H \in Nat /\ Len(args) \in Nat
  BY <1>2, WholeIsReadBack, LenProperties DEF ArgsOf
<1>4. n \in 0 .. Len(call.bytes) /\ n \in Nat
  BY <1>1
<1>5. /\ Len(call.bytes) = 4 + H + Len(args)
      /\ n < 4 => Decode(cut) = Throws
      /\ 4 <= n /\ n < 4 + H =>
           Decode(cut) = IF n - 4 \in FieldEndsOf(RpcHeader, header) THEN Throws ELSE Drops
      /\ 4 + H <= n => Decode(cut) = FindMethod(header, rest)
  BY <1>1, <1>4, CutIsDecoded
<1>6. Throws.what = "throw" /\ Drops.what = "drop"
  BY DEF Throws, Drops, Outcome
<1>7. ASSUME 4 + H <= n
      PROVE  part.ok = (n - (4 + H) \in FieldEndsOf(m.input, call.request))
  <2>1. n - (4 + H) \in 0 .. Len(args)
    BY <1>3, <1>4, <1>5, <1>7
  <2>. QED  BY ONLY <1>2, <2>1, PartIsReadBack, Zenon DEF ArgsOf
<1>8. FindMethod(header, rest) = IF KnownMethod(s, m.name) /\ part.ok
                                 THEN Outcome("dispatch", serviceMap[s.name], call.index, part.msg)
                                 ELSE Drops
  BY <1>1, FindsMethod
<1> HIDE DEF args, cut, rest, part
<1>9. FindMethod(header, rest).what = IF KnownMethod(s, m.name) /\ part.ok THEN "dispatch" ELSE "drop"
  BY <1>6, <1>8 DEF Outcome
<1>10. CASE n < 4
  <2>1. Decode(cut).what = "throw"
    BY ONLY <1>5, <1>6, <1>10
  <2>. QED  BY ONLY <1>10, <2>1 DEF cut, CutOutcome
<1>11. CASE 4 <= n /\ n < 4 + H
  <2>1. ~(n < 4) /\ ~(4 + H <= n)
    BY <1>3, <1>4, <1>11
  <2>2. Decode(cut).what = IF n - 4 \in FieldEndsOf(RpcHeader, header) THEN "throw" ELSE "drop"
    BY ONLY <1>5, <1>6, <1>11
  <2>. QED  BY ONLY <1>11, <2>1, <2>2 DEF cut, CutOutcome
<1>12. CASE 4 + H <= n
  <2>1. ~(n < 4) /\ ~(n < 4 + H)
    BY <1>3, <1>4, <1>12
  <2>2. Decode(cut).what = IF KnownMethod(s, m.name) /\ part.ok THEN "dispatch" ELSE "drop"
    BY ONLY <1>5, <1>9, <1>12
  <2>. QED  BY ONLY <1>7, <1>12, <2>1, <2>2 DEF cut, CutOutcome
<1>13. n < 4 \/ (4 <= n /\ n < 4 + H) \/ 4 + H <= n
  BY <1>3, <1>4
<1>. QED  BY ONLY <1>10, <1>11, <1>12, <1>13

-----------------------------------------------------------------------------
(***************************************************************************)
(* Every step.                                                             *)
(***************************************************************************)

\* NotifyService appends, and the first object of a name stays the first.
LEMMA NotifyServiceKeeps ==
  ASSUME MarshalInvariant, NEW o \in Objects, NotifyService(o)
  PROVE  MarshalInvariant'
<1> USE DEF MarshalInvariant
<1> DEFINE x0 == Class[o].name
<1>1. /\ pc = "notify" /\ pc' = "notify" /\ served = Nothing /\ served' = Nothing
      /\ notified' = Append(notified, o) /\ serviceMap' = Kept(o)
      /\ responses' = responses
  BY DEF NotifyService, ServedInv
<1>2. /\ notified \in Seq(Objects) /\ notified' \in Seq(Objects)
      /\ Len(notified) \in Nat /\ Len(notified') = Len(notified) + 1
      /\ DOMAIN notified = 1 .. Len(notified) /\ DOMAIN notified' = 1 .. Len(notified) + 1
      /\ \A n \in 1 .. Len(notified) : notified'[n] = notified[n]
      /\ notified'[Len(notified) + 1] = o
  BY <1>1 DEF TypeOK
<1>3. /\ DOMAIN serviceMap' = DOMAIN serviceMap \union {x0}
      /\ \A x \in DOMAIN serviceMap : serviceMap'[x] = serviceMap[x]
      /\ x0 \notin DOMAIN serviceMap => serviceMap'[x0] = o
  BY <1>1 DEF Kept
<1> HIDE DEF x0
<1>4. TypeOK'
  BY <1>1, <1>2 DEF TypeOK
<1>5. \A n \in DOMAIN notified' : Class[notified'[n]].name \in DOMAIN serviceMap'
  <2>1. Class[o].name \in DOMAIN serviceMap'
    BY <1>3 DEF x0
  <2>. QED  BY <1>2, <1>3, <2>1 DEF MapInv
<1>6. ASSUME NEW x \in DOMAIN serviceMap'
      PROVE  \E n \in DOMAIN notified' : FirstOf(n, x)' /\ serviceMap'[x] = notified'[n]
  <2>1. CASE x \in DOMAIN serviceMap
    <3>1. PICK n \in DOMAIN notified : FirstOf(n, x) /\ serviceMap[x] = notified[n]
      BY <2>1 DEF MapInv
    <3>2. /\ n \in 1 .. Len(notified) /\ Class[notified[n]].name = x
          /\ \A k \in 1 .. n - 1 : Class[notified[k]].name # x
      BY <1>2, <3>1 DEF FirstOf
    <3>3. n \in DOMAIN notified' /\ notified'[n] = notified[n]
      BY <1>2, <3>2
    <3>4. \A k \in 1 .. n - 1 : notified'[k] = notified[k]
      BY <1>2, <3>2
    <3>5. FirstOf(n, x)'
      BY <3>2, <3>3, <3>4 DEF FirstOf
    <3>6. serviceMap'[x] = notified'[n]
      BY <1>3, <2>1, <3>1, <3>3
    <3>. QED  BY <3>3, <3>5, <3>6
  <2>2. CASE x \notin DOMAIN serviceMap
    <3>1. PICK n \in Nat : n = Len(notified) + 1
      BY <1>2
    <3>2. x = x0 /\ Class[o].name = x /\ serviceMap'[x] = o
      BY <1>3, <2>2 DEF x0
    <3>3. ASSUME NEW k \in 1 .. n - 1 PROVE Class[notified'[k]].name # x
      <4>1. k \in DOMAIN notified /\ notified'[k] = notified[k]
        BY <1>2, <3>1
      <4>2. Class[notified[k]].name \in DOMAIN serviceMap
        BY <4>1 DEF MapInv
      <4>. QED  BY <2>2, <4>1, <4>2
    <3>4. n \in DOMAIN notified' /\ notified'[n] = o
      BY <1>2, <3>1
    <3>5. FirstOf(n, x)'
      BY <3>2, <3>3, <3>4 DEF FirstOf
    <3>. QED  BY <3>2, <3>4, <3>5
  <2>. QED  BY <2>1, <2>2
<1>7. MapInv'
  BY <1>5, <1>6 DEF MapInv
<1>8. CallInv' /\ ServedInv' /\ ReplyInv' /\ ReturnedInv' /\ AbortsOnlyUnimplemented'
  BY <1>1 DEF CallInv, Called, ServedInv, RequestArrives, ReplyInv, ReturnedInv,
              AbortsOnlyUnimplemented
<1>. QED  BY <1>4, <1>7, <1>8

LEMMA RunKeeps ==
  ASSUME MarshalInvariant, Run
  PROVE  MarshalInvariant'
<1> USE DEF MarshalInvariant, Run
<1>1. TypeOK' /\ CallInv'
  BY DEF TypeOK, CallInv, Called
<1>2. MapInv'
  BY DEF MapInv, FirstOf
<1>3. ServedInv' /\ ReplyInv' /\ ReturnedInv' /\ AbortsOnlyUnimplemented'
  BY DEF ServedInv, RequestArrives, ReplyInv, ReturnedInv, AbortsOnlyUnimplemented
<1>. QED  BY <1>1, <1>2, <1>3

LEMMA CallMethodKeeps ==
  ASSUME MarshalInvariant, NEW s \in Stubs, NEW i \in DOMAIN s.methods,
         NEW request \in s.methods[i].requests, CallMethod(s, i, request)
  PROVE  MarshalInvariant'
<1> USE DEF MarshalInvariant, CallMethod
<1>1. TypeOK'
  BY DEF TypeOK
<1>2. MapInv'
  BY DEF MapInv, FirstOf
<1>3. CallInv'
  BY DEF CallInv, Method, StubMethod
<1>4. ServedInv' /\ ReplyInv' /\ ReturnedInv' /\ AbortsOnlyUnimplemented'
  BY DEF ServedInv, RequestArrives, ReplyInv, ReturnedInv, AbortsOnlyUnimplemented
<1>. QED  BY <1>1, <1>2, <1>3, <1>4

\* CHOOSE finds the least number of a set.
LEMMA LeastIs ==
  ASSUME NEW S, S \subseteq Nat, NEW n \in S, \A y \in S : n <= y
  PROVE  (CHOOSE k \in S : \A y \in S : k <= y) = n
<1>1. \A k \in S : (\A y \in S : k <= y) => k = n
  OBVIOUS
<1>. QED  BY <1>1

\* The object the map has for a name is the one RequestArrives names.
LEMMA MapHasFirst ==
  ASSUME TypeOK, MapInv, NEW x \in DOMAIN serviceMap,
         NEW class, class = { n \in DOMAIN notified : Class[notified[n]].name = x }
  PROVE  serviceMap[x] = notified[CHOOSE n \in class : \A y \in class : n <= y]
<1>1. PICK n \in DOMAIN notified : FirstOf(n, x) /\ serviceMap[x] = notified[n]
  BY DEF MapInv
<1>2. class \subseteq Nat /\ n \in Nat
  BY DEF TypeOK
<1>3. n \in class
  BY <1>1 DEF FirstOf
<1>4. \A y \in class : n <= y
  <2>1. SUFFICES ASSUME NEW y \in class, ~(n <= y) PROVE FALSE
    OBVIOUS
  <2>2. y \in 1 .. n - 1 /\ Class[notified[y]].name = x
    BY <1>2, <2>1 DEF TypeOK
  <2>. QED  BY <1>1, <2>2 DEF FirstOf
<1>5. (CHOOSE k \in class : \A y \in class : k <= y) = n
  BY ONLY <1>2, <1>3, <1>4, LeastIs
<1>. QED  BY <1>1, <1>5

\* OnMessage serves the call that is on the wire, or nothing, and ends the
\* process only in a method nobody implemented.
LEMMA OnMessageKeeps ==
  ASSUME MarshalInvariant, OnMessage
  PROVE  MarshalInvariant'
<1> USE DEF MarshalInvariant
<1> DEFINE d == Decode(call.bytes)
           s == call.service
           i == call.index
           o == serviceMap[s.name]
<1>1. /\ pc = "sent" /\ served = Nothing
      /\ UNCHANGED <<notified, serviceMap, calls, call, got, responses, failed>>
  BY DEF OnMessage, ServedInv
<1>2. \/ d = Drops
      \/ /\ s.name \in DOMAIN serviceMap /\ SameMethod(o, s, i)
         /\ d = Outcome("dispatch", o, i, call.request)
  BY <1>1, CallIsDecoded
<1>3. \/ pc' = "stuck" /\ served' = served
      \/ /\ Dispatch(d) /\ s.name \in DOMAIN serviceMap /\ SameMethod(o, s, i)
         /\ d = Outcome("dispatch", o, i, call.request)
  <2>1. CASE d = Drops
    BY <2>1 DEF OnMessage, Drops, Outcome
  <2>2. CASE d = Outcome("dispatch", o, i, call.request)
    <3>1. d.what = "dispatch"
      BY <2>2 DEF Outcome
    <3>2. Dispatch(d)
      BY <3>1 DEF OnMessage
    <3>3. d # Drops
      BY <3>1 DEF Drops, Outcome
    <3>. QED  BY <1>2, <3>2, <3>3
  <2>. QED  BY <1>2, <2>1, <2>2
<1> HIDE DEF d
<1>4. MapInv'
  BY <1>1 DEF MapInv, FirstOf
<1>5. CASE pc' \in {"stuck", "aborted"} /\ served' = served
  <2>1. TypeOK' /\ CallInv'
    BY <1>1, <1>5 DEF TypeOK, CallInv, Called
  <2>2. ServedInv' /\ ReplyInv' /\ ReturnedInv'
    BY <1>1, <1>5 DEF ServedInv, RequestArrives, ReplyInv, ReturnedInv
  <2>3. pc' = "stuck" => AbortsOnlyUnimplemented'
    BY DEF AbortsOnlyUnimplemented
  <2>4. ASSUME pc' = "aborted" PROVE AbortsOnlyUnimplemented'
    <3>1. /\ Dispatch(d) /\ s.name \in DOMAIN serviceMap
          /\ d = Outcome("dispatch", o, i, call.request)
      BY <1>3, <2>4
    <3>2. d.object = o /\ d.index = i
      BY <3>1 DEF Outcome
    <3>3. i \notin Overrides[o]
      BY <2>4, <3>1, <3>2 DEF Dispatch, Responds
    <3>. QED  BY <1>1, <3>1, <3>3 DEF AbortsOnlyUnimplemented
  <2>. QED  BY <1>4, <1>5, <2>1, <2>2, <2>3, <2>4
<1>6. ASSUME Dispatch(d), s.name \in DOMAIN serviceMap, SameMethod(o, s, i),
             d = Outcome("dispatch", o, i, call.request)
      PROVE  MarshalInvariant'
  <2>1. d.object = o /\ d.index = i /\ d.request = call.request
    BY <1>6 DEF Outcome
  <2>2. CASE DefaultMethod(d)
    BY <1>5, <2>2 DEF DefaultMethod
  <2>3. ASSUME i \in Overrides[o], NEW response \in Answers(o, i), Responds(d, response)
        PROVE  MarshalInvariant'
    <3>1. /\ pc' = "answered" /\ served'.index = i /\ served'.request = call.request
          /\ served'.object = o /\ served'.response = response
          /\ reply' = SerializeToString(Class[o].methods[i].output, response)
      BY <2>1, <2>3 DEF Responds
    <3>2. TypeOK' /\ CallInv' /\ ReturnedInv' /\ AbortsOnlyUnimplemented'
      BY <1>1, <3>1 DEF TypeOK, CallInv, Called, ReturnedInv, AbortsOnlyUnimplemented
    <3> DEFINE class == { n \in DOMAIN notified : Class[notified[n]].name = s.name }
    <3>3. o = notified[CHOOSE n \in class : \A y \in class : n <= y]
      <4>1. TypeOK /\ MapInv /\ s.name \in DOMAIN serviceMap
        BY <1>6
      <4>2. \A t \in DOMAIN serviceMap : class = { n \in DOMAIN notified : Class[notified[n]].name = t }
              => serviceMap[t] = notified[CHOOSE n \in class : \A y \in class : n <= y]
        BY ONLY <4>1, MapHasFirst, Zenon
      <4>. QED  BY ONLY <4>1, <4>2
    <3>4. RequestArrives'
      BY ONLY <1>1, <3>1, <3>3, Zenon DEF RequestArrives
    <3>5. ServedInv'
      BY <3>1, <3>4 DEF ServedInv
    <3>6. o \in Objects /\ Class[o].methods[i].output = Method(s, i).output
      BY <1>6, MapKnows DEF SameMethod, Method
    <3>7. Answered(Method(s, i).output, response)
      BY <2>3, <3>6 DEF Answered
    <3>8. ReplyInv'
      BY <1>1, <3>1, <3>6, <3>7 DEF ReplyInv
    <3>. QED  BY <1>4, <3>2, <3>5, <3>8
  <2>. QED  BY <1>6, <2>1, <2>2, <2>3 DEF Dispatch
<1>. QED  BY <1>3, <1>5, <1>6

\* The response object has what this reply parses to, whatever it had before.
LEMMA ParseResponseKeeps ==
  ASSUME MarshalInvariant, NEW n \in 0 .. Len(reply), ParseResponse(n)
  PROVE  MarshalInvariant'
<1> USE DEF MarshalInvariant
<1> DEFINE k == <<call.service, call.index>>
           class == Method(k[1], k[2]).output
           parsed == ParseFromString(class, Cleared(class), SubSeq(reply, 1, n))
<1>1. /\ pc = "answered" /\ pc' = "returned" /\ got' = n
      /\ UNCHANGED <<notified, serviceMap, calls, call, served, reply>>
  BY DEF ParseResponse
<1>2. /\ responses' = [responses EXCEPT ![k] = parsed.msg] /\ failed' = ~parsed.ok
  BY DEF ParseResponse, ParseFromString
<1>3. k \in DOMAIN responses
  BY <1>1 DEF CallInv, Called, TypeOK, Keys
<1> HIDE DEF parsed
<1>4. TypeOK'
  BY <1>1, <1>2 DEF TypeOK
<1>5. CallInv'
  BY <1>1 DEF CallInv, Called
<1>6. MapInv'
  BY <1>1 DEF MapInv, FirstOf
<1>7. ServedInv' /\ ReplyInv' /\ AbortsOnlyUnimplemented'
  BY <1>1 DEF ServedInv, RequestArrives, ReplyInv, AbortsOnlyUnimplemented
<1>8. responses'[k] = parsed.msg
  BY <1>2, <1>3
<1>9. ReturnedInv'
  BY <1>1, <1>2, <1>8 DEF ReturnedInv, parsed
<1>. QED  BY <1>4, <1>5, <1>6, <1>7, <1>9

LEMMA InitInv == Init => MarshalInvariant
<1> SUFFICES ASSUME Init PROVE MarshalInvariant
  OBVIOUS
<1>1. TypeOK
  BY DEF Init, TypeOK
<1>2. MapInv /\ CallInv /\ ServedInv /\ ReplyInv /\ ReturnedInv /\ AbortsOnlyUnimplemented
  BY DEF Init, MapInv, CallInv, Called, ServedInv, RequestArrives, ReplyInv, ReturnedInv,
         AbortsOnlyUnimplemented
<1>. QED  BY <1>1, <1>2 DEF MarshalInvariant

LEMMA StepKeeps == MarshalInvariant /\ [Next]_vars => MarshalInvariant'
<1> SUFFICES ASSUME MarshalInvariant, [Next]_vars PROVE MarshalInvariant'
  OBVIOUS
<1>1. ASSUME NEW o \in Objects, NotifyService(o) PROVE MarshalInvariant'
  BY <1>1, NotifyServiceKeeps
<1>2. CASE Run
  BY <1>2, RunKeeps
<1>3. ASSUME NEW k \in Keys, NEW request \in Method(k[1], k[2]).requests,
             CallMethod(k[1], k[2], request)
      PROVE  MarshalInvariant'
  <2>1. k[1] \in Stubs /\ k[2] \in DOMAIN k[1].methods
    BY DEF Keys
  <2>2. request \in k[1].methods[k[2]].requests
    BY DEF Method
  <2>. QED  BY <1>3, <2>1, <2>2, CallMethodKeeps
<1>4. CASE OnMessage
  BY <1>4, OnMessageKeeps
<1>5. ASSUME NEW n \in 0 .. Len(reply), ParseResponse(n) PROVE MarshalInvariant'
  BY <1>5, ParseResponseKeeps
<1>6. CASE UNCHANGED vars
  BY <1>6 DEF vars, MarshalInvariant, TypeOK, MapInv, FirstOf, CallInv, ServedInv, RequestArrives,
              ReplyInv, ReturnedInv, AbortsOnlyUnimplemented
<1>. QED  BY <1>1, <1>2, <1>3, <1>4, <1>5, <1>6 DEF Next

-----------------------------------------------------------------------------
(***************************************************************************)
(* The theorems.                                                           *)
(***************************************************************************)

\* The inductive invariant: m_serviceMap has the first object of each name,
\* and the bytes on the wire are those of the call (rpc_provider.cc:9-47).
THEOREM MarshalInvariance == Spec => []MarshalInvariant
<1>1. MarshalInvariant /\ [Next]_vars => MarshalInvariant'
  BY StepKeeps
<1>. QED  BY InitInv, <1>1, PTL DEF Spec

\* What runs is what the stub was called with (rpc_provider.cc:128-219).
THEOREM RequestsArrive == Spec => []RequestArrives
<1>1. MarshalInvariant => RequestArrives
  BY DEF MarshalInvariant, ServedInv
<1>. QED  BY <1>1, MarshalInvariance, PTL

\* No framed request makes OnMessage throw: the provider ends only in a method
\* its author left to protoc's default (rpc_provider.cc:219).
THEOREM AbortsAreUnimplemented == Spec => []AbortsOnlyUnimplemented
<1>1. MarshalInvariant => AbortsOnlyUnimplemented
  BY DEF MarshalInvariant
<1>. QED  BY <1>1, MarshalInvariance, PTL

\* Nothing of an earlier response is in the one the caller gets, and of the
\* handler's only what had not arrived is missing (mprpc_channel.cc:153-178).
THEOREM ResponsesAreParts == Spec => []ResponseIsPart
<1>1. MarshalInvariant => ResponseIsPart
  <2> SUFFICES ASSUME MarshalInvariant, pc = "returned", ~failed PROVE ResponseIsPart
    BY DEF ResponseIsPart
  <2> DEFINE k == <<call.service, call.index>>
             class == Method(k[1], k[2]).output
             bytes == SerializeToString(class, served.response)
             parsed(b) == ParseFromString(class, Cleared(class), b)
  <2>1. Answered(class, served.response) /\ reply = bytes
    BY DEF MarshalInvariant, ReplyInv
  <2>2. /\ got \in 0 .. Len(bytes) /\ parsed(SubSeq(bytes, 1, got)).ok
        /\ responses[k] = parsed(SubSeq(bytes, 1, got)).msg
    BY <2>1 DEF MarshalInvariant, ReturnedInv
  <2>3. RoundTrips(class, served.response) /\ MergesBack(class, served.response)
    BY <2>1, CodecAssumption DEF Answered
  <2>4. got \in FieldEndsOf(class, served.response)
    <3>1. parsed(SubSeq(bytes, 1, got)).ok = (got \in FieldEndsOf(class, served.response))
      BY <2>2, <2>3, PartIsReadBack
    <3>. QED  BY ONLY <2>2, <3>1, Zenon
  <2>5. /\ parsed(SubSeq(bytes, got + 1, Len(bytes))).ok
        /\ MergeFrom(class, parsed(SubSeq(bytes, 1, got)).msg,
                     parsed(SubSeq(bytes, got + 1, Len(bytes))).msg) = served.response
    BY <2>3, <2>4 DEF MergesBack
  <2>. QED  BY <2>1, <2>2, <2>5 DEF ResponseIsPart
<1>. QED  BY <1>1, MarshalInvariance, PTL

\* RpcWire gives what as the outcome of a read of the first n bytes.
WireGives(h, input, request, output, response, n, known, what) ==
  /\ what = "throw" <=> Wire(h, input, request, output, response)!Throws(0, n)
  /\ what = "drop" <=> Wire(h, input, request, output, response)!Drops(0, n, known)
  /\ what = "dispatch" <=> Wire(h, input, request, output, response)!Dispatches(0, n, known)

LEMMA WireSays ==
  ASSUME NEW h, NEW input, NEW request, NEW output, NEW response, NEW known, NEW what,
         NEW n \in Nat, Len(SerializeToString(RpcHeader, h)) \in Nat,
         what = CutOutcome(n, Len(SerializeToString(RpcHeader, h)), FieldEndsOf(RpcHeader, h),
                           known, FieldEndsOf(input, request))
  PROVE  WireGives(h, input, request, output, response, n, known, what)
<1> DEFINE H == Len(SerializeToString(RpcHeader, h))
           inHeader == n - 4 \in FieldEndsOf(RpcHeader, h)
           inArgs   == n - (4 + H) \in FieldEndsOf(input, request)
<1>1. Wire(h, input, request, output, response)!Throws(0, n) <=> n < 4 \/ (n < 4 + H /\ inHeader)
  BY DEF Wire!Throws, Wire!HeaderEnd, Wire!PrefixLen
<1>2. Wire(h, input, request, output, response)!Dispatches(0, n, known)
        <=> 4 + H <= n /\ known /\ inArgs
  BY DEF Wire!Dispatches, Wire!HeaderEnd, Wire!PrefixLen
<1>3. Wire(h, input, request, output, response)!Drops(0, n, known)
        <=> \/ 4 <= n /\ n < 4 + H /\ ~inHeader
            \/ 4 + H <= n /\ (~known \/ ~inArgs)
  BY DEF Wire!Drops, Wire!HeaderEnd, Wire!PrefixLen
<1>4. what = IF n < 4 \/ (n < 4 + H /\ inHeader) THEN "throw"
             ELSE IF 4 + H <= n /\ known /\ inArgs THEN "dispatch" ELSE "drop"
  BY DEF CutOutcome
<1>5. /\ n < 4 => ~(4 <= n) /\ ~(4 + H <= n)
      /\ ~(n < 4) => 4 <= n
      /\ n < 4 + H <=> ~(4 + H <= n)
  OBVIOUS
<1> HIDE DEF H, inHeader, inArgs
<1>6. \/ n < 4 \/ (n < 4 + H /\ inHeader)
      \/ ~(n < 4) /\ n < 4 + H /\ ~inHeader
      \/ ~(n < 4) /\ 4 + H <= n
  BY ONLY <1>5
<1>7. CASE n < 4 \/ (n < 4 + H /\ inHeader)
  BY ONLY <1>1, <1>2, <1>3, <1>4, <1>5, <1>7 DEF WireGives
<1>8. CASE ~(n < 4) /\ n < 4 + H /\ ~inHeader
  BY ONLY <1>1, <1>2, <1>3, <1>4, <1>5, <1>8 DEF WireGives
<1>9. CASE ~(n < 4) /\ 4 + H <= n
  BY ONLY <1>1, <1>2, <1>3, <1>4, <1>5, <1>9 DEF WireGives
<1>. QED  BY ONLY <1>6, <1>7, <1>8, <1>9

\* A read of a request that is cut anywhere is decoded, and a reply that is cut
\* anywhere parses, as RpcWire says: the outcomes RpcCall's actions choose from
\* are those of the bytes (rpc_provider.cc:128-204, mprpc_channel.cc:153-178).
THEOREM OffsetsAreBytes == Spec => []WireIsOffsets
<1>1. MarshalInvariant => WireIsOffsets
  <2> SUFFICES ASSUME MarshalInvariant PROVE WireIsOffsets
    OBVIOUS
  <2> DEFINE s == call.service
             m == s.methods[call.index]
             h == HeaderFor(s, m, call.request)
             H == Len(SerializeToString(RpcHeader, h))
             known == KnownMethod(s, m.name)
  <2>1. ASSUME pc = "sent", NEW n \in 1 .. Len(call.bytes)
        PROVE  LET what == Decode(SubSeq(call.bytes, 1, n)).what
                   none == Cleared(m.output)
               IN /\ what = "throw" <=> Wire(h, m.input, call.request, m.output, none)!Throws(0, n)
                  /\ what = "drop" <=>
                       Wire(h, m.input, call.request, m.output, none)!Drops(0, n, known)
                  /\ what = "dispatch" <=>
                       Wire(h, m.input, call.request, m.output, none)!Dispatches(0, n, known)
    <3>1. n \in Nat /\ H \in Nat
      <4>1. Stubbed(s, m, call.request)
        BY <2>1, CallIsStubbed DEF MarshalInvariant, Called
      <4>. QED  BY <4>1, PartsRoundTrip, WholeIsReadBack, LenProperties
    <3>2. PICK what : what = Decode(SubSeq(call.bytes, 1, n)).what
      OBVIOUS
    <3>3. what = CutOutcome(n, H, FieldEndsOf(RpcHeader, h), known,
                            FieldEndsOf(m.input, call.request))
      BY <2>1, <3>2, CutCallIsDecoded DEF MarshalInvariant
    <3> HIDE DEF known, h
    <3>4. WireGives(h, m.input, call.request, m.output, Cleared(m.output), n, known, what)
      BY ONLY <3>1, <3>3, WireSays
    <3>. QED  BY ONLY <3>2, <3>4 DEF WireGives
  <2>2. ASSUME pc = "returned"
        PROVE  ~failed = Wire(h, m.input, call.request, m.output, served.response)!Parses(got)
    <3>1. Answered(m.output, served.response) /\ reply = SerializeToString(m.output, served.response)
      BY <2>2 DEF MarshalInvariant, ReplyInv, Method
    <3> DEFINE ok == ParseFromString(m.output, Cleared(m.output), SubSeq(reply, 1, got)).ok
    <3>2. got \in 0 .. Len(reply) /\ failed = ~ok
      <4>1. ReturnedInv
        BY DEF MarshalInvariant
      <4>. QED  BY ONLY <2>2, <4>1, Zenon DEF ReturnedInv, Method
    <3>3. RoundTrips(m.output, served.response)
      BY <3>1, CodecAssumption DEF Answered
    <3>4. ok = (got \in FieldEndsOf(m.output, served.response))
      BY <3>1, <3>2, <3>3, PartIsReadBack
    <3> HIDE DEF ok
    <3>. QED  BY ONLY <3>2, <3>4 DEF Wire!Parses
  <2>. QED  BY <2>1, <2>2 DEF WireIsOffsets, HeaderFor, ArgsOf, Method
<1>. QED  BY <1>1, MarshalInvariance, PTL

\* What RpcCall's proofs assume of the offsets holds of the bytes of any call
\* that was answered: WireAssumption of RpcWire.
THEOREM BytesFitOffsets ==
  Spec => [](pc \in {"answered", "returned"} =>
               LET m == Method(call.service, call.index)
                   h == Header(call.service.name, m.name,
                               Len(SerializeToString(m.input, call.request)))
               IN Wire(h, m.input, call.request, m.output, served.response)!WireAssumption)
<1> DEFINE m == Method(call.service, call.index)
           h == HeaderFor(call.service, m, call.request)
           fits == Wire(h, m.input, call.request, m.output, served.response)!WireAssumption
<1>1. ASSUME MarshalInvariant, pc \in {"answered", "returned"} PROVE fits
  <2>1. Answered(m.output, served.response)
    BY <1>1 DEF MarshalInvariant, ReplyInv
  <2>2. Stubbed(call.service, m, call.request)
    BY <1>1, CallIsStubbed DEF MarshalInvariant, Called, Method
  <2>3. /\ RoundTrips(m.input, call.request) /\ RoundTrips(RpcHeader, h)
        /\ SerializeToString(RpcHeader, h) # <<>> /\ RoundTrips(m.output, served.response)
    BY <2>1, <2>2, PartsRoundTrip, CodecAssumption DEF Answered
  <2>4. \A class, msg : RoundTrips(class, msg) =>
          LET bytes == SerializeToString(class, msg) IN
          /\ bytes \in Seq(0 .. 255) /\ Len(bytes) \in Nat
          /\ {0, Len(bytes)} \subseteq FieldEndsOf(class, msg)
          /\ FieldEndsOf(class, msg) \subseteq 0 .. Len(bytes)
    BY LenProperties DEF RoundTrips
  <2>5. Len(SerializeToString(RpcHeader, h)) # 0
    BY <2>3, <2>4
  <2> HIDE DEF h, m
  <2>. QED  BY <2>3, <2>4, <2>5 DEF Wire!WireAssumption
<1>2. MarshalInvariant => (pc \in {"answered", "returned"} => fits)
  BY <1>1
<1> HIDE DEF fits
<1>3. Spec => [](pc \in {"answered", "returned"} => fits)
  BY <1>2, MarshalInvariance, PTL
<1>. QED  BY <1>3 DEF fits, HeaderFor, ArgsOf
=============================================================================
