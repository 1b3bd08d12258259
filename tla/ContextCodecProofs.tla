------------------------- MODULE ContextCodecProofs -------------------------
(***************************************************************************)
(* Proofs about the context-ID codec for the code's own field layout:      *)
(* uint32 fields (Width = 4) of bytes (Radix = 256), for every set of      *)
(* peers, every injective peer encoding and every catalog bound.           *)
(*                                                                         *)
(* The argument: GetUint over four bytes unfolds to the polynomial Word,   *)
(* and PutUint's four digits of Word are the four bytes (ByteDigits);      *)
(* conversely the four digits of a value below 2^32 are bytes whose Word   *)
(* is the value (GetPutUint).  The header fields and the peer ID are then  *)
(* read back at the offsets readContextID slices (LayoutSlices), and a     *)
(* string that readContextID accepts rejoins from its slices               *)
(* (RejoinSlices).  For a Width left open the unfolding is an induction    *)
(* over the digits, which the provers cannot do; TLC checks the codec for  *)
(* Radix 3 and Width 2 instead.                                            *)
(***************************************************************************)
EXTENDS ContextCodec, SequenceTheorems, TLAPS

\* The powers of a byte the big-endian layout uses.
LEMMA BytePowers ==
    ASSUME Radix = 256
    PROVE  /\ Radix ^ 0 = 1
           /\ Radix ^ 1 = 256
           /\ Radix ^ 2 = 65536
           /\ Radix ^ 3 = 16777216
           /\ Radix ^ 4 = 4294967296
OBVIOUS

\* binary.BigEndian.Uint32 unfolded: the value of four big-endian bytes.
LEMMA GetUintUnfold ==
    ASSUME Radix = 256, Width = 4, NEW s, \A i \in 1..4 : s[i] \in Int
    PROVE  GetUint(s) = ((s[1] * Radix + s[2]) * Radix + s[3]) * Radix + s[4]
<1> DEFINE w == [i \in 0..4 |->
                   IF i = 0 THEN 0
                   ELSE IF i = 1 THEN 0 * Radix + s[1]
                   ELSE IF i = 2 THEN (0 * Radix + s[1]) * Radix + s[2]
                   ELSE IF i = 3 THEN ((0 * Radix + s[1]) * Radix + s[2]) * Radix + s[3]
                   ELSE (((0 * Radix + s[1]) * Radix + s[2]) * Radix + s[3]) * Radix + s[4]]
<1>1. w = [i \in 0..Width |-> IF i = 0 THEN 0 ELSE w[i - 1] * Radix + s[i]]
  OBVIOUS
<1> DEFINE Eq(v) == v = [i \in 0..Width |-> IF i = 0 THEN 0 ELSE v[i - 1] * Radix + s[i]]
           V == CHOOSE v : Eq(v)
<1>2. Eq(V)
  <2>1. \E v : Eq(v)
    BY <1>1, Zenon
  <2> QED
    BY <2>1
<1> HIDE DEF V
<1>3. /\ V[0] = 0
      /\ \A i \in 1..4 : V[i] = V[i - 1] * Radix + s[i]
  <2> V = [i \in 0..4 |-> IF i = 0 THEN 0 ELSE V[i - 1] * Radix + s[i]]
    BY <1>2 DEF Eq
  <2> QED
    OBVIOUS
<1>4. V[4] = ((s[1] * Radix + s[2]) * Radix + s[3]) * Radix + s[4]
  BY <1>3
<1> QED
  BY <1>4 DEF GetUint, V

\* binary.BigEndian.PutUint32 unfolded: the four bytes of a value.
LEMMA PutUintUnfold ==
    ASSUME Radix = 256, Width = 4, NEW x \in Int
    PROVE  /\ PutUint(x) \in [1..4 -> Int]
           /\ PutUint(x)[1] = (x \div 16777216) % 256
           /\ PutUint(x)[2] = (x \div 65536) % 256
           /\ PutUint(x)[3] = (x \div 256) % 256
           /\ PutUint(x)[4] = x % 256
BY BytePowers DEF PutUint

\* Reading back the four bytes PutUint32 wrote gives the value written.
LEMMA GetPutUint ==
    ASSUME Radix = 256, Width = 4, NEW x \in 0..FieldMax - 1
    PROVE  GetUint(PutUint(x)) = x
<1> DEFINE d1 == (x \div 16777216) % 256
           d2 == (x \div 65536) % 256
           d3 == (x \div 256) % 256
           d4 == x % 256
<1>1. x \in Int /\ 0 <= x /\ x < 4294967296
  BY BytePowers DEF FieldMax
<1>2. /\ PutUint(x) \in [1..4 -> Int]
      /\ PutUint(x)[1] = d1 /\ PutUint(x)[2] = d2
      /\ PutUint(x)[3] = d3 /\ PutUint(x)[4] = d4
  BY <1>1, PutUintUnfold
<1> HIDE DEF d1, d2, d3, d4
<1>3. GetUint(PutUint(x)) = ((d1 * 256 + d2) * 256 + d3) * 256 + d4
  BY <1>2, GetUintUnfold
<1>4. ((d1 * 256 + d2) * 256 + d3) * 256 + d4 = x
  <2>1. x = (x \div 256) * 256 + d4
    BY <1>1, SMT DEF d4
  <2>2. x \div 256 = (x \div 65536) * 256 + d3
    BY <1>1, SMT DEF d3
  <2>3. x \div 65536 = (x \div 16777216) * 256 + d2
    BY <1>1, SMT DEF d2
  <2>4. d1 = x \div 16777216
    BY <1>1, SMT DEF d1
  <2> QED
    BY <2>1, <2>2, <2>3, <2>4, SMT
<1> QED
  BY <1>3, <1>4

\* The big-endian value of four bytes a, b, c, d.
Word(a, b, c, d) == ((a * 256 + b) * 256 + c) * 256 + d

\* x is a byte value.
IsByte(x) == x \in Int /\ 0 <= x /\ x < 256

\* PutUint32 of the value of bytes a, b, c, d writes a, b, c, d.
WritesDigits(a, b, c, d) ==
    /\ PutUint(Word(a, b, c, d)) \in [1..4 -> Int]
    /\ PutUint(Word(a, b, c, d))[1] = a /\ PutUint(Word(a, b, c, d))[2] = b
    /\ PutUint(Word(a, b, c, d))[3] = c /\ PutUint(Word(a, b, c, d))[4] = d

\* PutUint32 of the value of four bytes writes those bytes.
LEMMA ByteDigits ==
    ASSUME Radix = 256, Width = 4,
           NEW a, NEW b, NEW c, NEW d,
           IsByte(a), IsByte(b), IsByte(c), IsByte(d)
    PROVE  WritesDigits(a, b, c, d)
<1> SUFFICES ASSUME a \in Int, b \in Int, c \in Int, d \in Int,
                    0 <= a, a < 256, 0 <= b, b < 256, 0 <= c, c < 256, 0 <= d, d < 256
             PROVE  WritesDigits(a, b, c, d)
  BY DEF IsByte
<1> DEFINE m2 == a * 256 + b
           m3 == m2 * 256 + c
           n == Word(a, b, c, d)
<1>0. n \in Int /\ n = m3 * 256 + d
  BY DEF Word
<1>1. n % 256 = d /\ n \div 256 = m3
  BY <1>0, SMT
<1>2. m3 % 256 = c /\ m2 % 256 = b /\ a % 256 = a
  BY SMT
<1>3. n \div 65536 = m2
  <2> n = m2 * 65536 + (c * 256 + d)
    BY <1>0, SMT
  <2> QED
    BY SMT
<1>4. n \div 16777216 = a
  <2> n = a * 16777216 + ((b * 256 + c) * 256 + d)
    BY <1>0, SMT
  <2> QED
    BY SMT
<1> HIDE DEF m3, m2, n
<1>5. /\ PutUint(n) \in [1..4 -> Int]
      /\ PutUint(n)[1] = (n \div 16777216) % 256
      /\ PutUint(n)[2] = (n \div 65536) % 256
      /\ PutUint(n)[3] = (n \div 256) % 256
      /\ PutUint(n)[4] = n % 256
  BY <1>0, BytePowers DEF PutUint
<1> QED
  BY <1>1, <1>2, <1>3, <1>4, <1>5 DEF n, WritesDigits

\* Writing the value of four bytes gives back those bytes.
LEMMA PutGetUint ==
    ASSUME Radix = 256, Width = 4, NEW s \in [1..4 -> Int],
           \A i \in 1..4 : 0 <= s[i] /\ s[i] < 256
    PROVE  PutUint(GetUint(s)) = s
<1>1. /\ s[1] \in Int /\ 0 <= s[1] /\ s[1] < 256
      /\ s[2] \in Int /\ 0 <= s[2] /\ s[2] < 256
      /\ s[3] \in Int /\ 0 <= s[3] /\ s[3] < 256
      /\ s[4] \in Int /\ 0 <= s[4] /\ s[4] < 256
  OBVIOUS
<1>2. GetUint(s) = Word(s[1], s[2], s[3], s[4])
  BY GetUintUnfold DEF Word
<1>3. /\ PutUint(Word(s[1], s[2], s[3], s[4])) \in [1..4 -> Int]
      /\ PutUint(Word(s[1], s[2], s[3], s[4]))[1] = s[1]
      /\ PutUint(Word(s[1], s[2], s[3], s[4]))[2] = s[2]
      /\ PutUint(Word(s[1], s[2], s[3], s[4]))[3] = s[3]
      /\ PutUint(Word(s[1], s[2], s[3], s[4]))[4] = s[4]
  <2>1. IsByte(s[1]) /\ IsByte(s[2]) /\ IsByte(s[3]) /\ IsByte(s[4])
    BY <1>1 DEF IsByte
  <2>2. WritesDigits(s[1], s[2], s[3], s[4])
    BY <2>1, ByteDigits
  <2> QED
    BY <2>2 DEF WritesDigits
<1>4. \A i \in 1..4 : PutUint(Word(s[1], s[2], s[3], s[4]))[i] = s[i]
  BY <1>3
<1> QED
  BY <1>2, <1>3, <1>4

\* PutUint32 writes four bytes.
LEMMA PutUintSeq ==
    ASSUME Radix = 256, Width = 4, NEW x \in Int
    PROVE  PutUint(x) \in Seq(Int) /\ Len(PutUint(x)) = 4
<1>1. PutUint(x) \in [1..4 -> Int]
  BY PutUintUnfold
<1> QED
  BY <1>1, 4 \in Nat DEF PutUint

\* The three parts of the concatenation a \o c \o t sit at the offsets
\* readContextID slices: two four-byte header fields, then the peer ID.
Layout(a, c, t) ==
    /\ Len(a \o c \o t) = 8 + Len(t)
    /\ SubSeq(a \o c \o t, 1, 4) = a
    /\ SubSeq(a \o c \o t, 5, 8) = c
    /\ SubSeq(a \o c \o t, 9, Len(a \o c \o t)) = t

\* The three parts of a context ID are read back at their offsets: the two
\* header fields and the peer ID's bytes after them.
LEMMA LayoutSlices ==
    ASSUME NEW S, NEW a \in Seq(S), NEW c \in Seq(S), NEW t \in Seq(S),
           Len(a) = 4, Len(c) = 4
    PROVE  Layout(a, c, t)
<1> DEFINE ac == a \o c
           b == ac \o t
<1>1. ac \in Seq(S) /\ Len(ac) = Len(a) + Len(c)
  BY ConcatProperties, ZenonT(30)
<1>2. b \in Seq(S) /\ Len(b) = Len(ac) + Len(t)
  BY <1>1, ConcatProperties, ZenonT(30)
<1>3. Len(ac) = 8 /\ Len(b) = 8 + Len(t) /\ Len(t) \in Nat
  BY <1>1, <1>2
<1> HIDE DEF ac, b
<1>4. SubSeq(b, 1, 4) = a
  <2>1. 1 \in 1..Len(ac) /\ 4 \in 1..Len(ac) /\ 1 \in 1..Len(a) /\ 4 \in 1..Len(a)
    BY <1>3
  <2>2. SubSeq(b, 1, 4) = SubSeq(ac, 1, 4)
    BY <1>1, <2>1, SubSeqOfConcat1, ZenonT(30) DEF b
  <2>3. SubSeq(ac, 1, 4) = SubSeq(a, 1, 4)
    BY <2>1, SubSeqOfConcat1, ZenonT(30) DEF ac
  <2>4. SubSeq(a, 1, Len(a)) = a
    BY SubSeqFull
  <2> QED
    BY <2>2, <2>3, <2>4
<1>5. SubSeq(b, 5, 8) = c
  <2>1. 5 \in 1..Len(ac) /\ 8 \in 1..Len(ac)
        /\ 5 \in Len(a) + 1..Len(a) + Len(c) /\ 8 \in Len(a) + 1..Len(a) + Len(c)
        /\ 5 - Len(a) = 1 /\ 8 - Len(a) = Len(c) /\ 5 \in Int /\ 8 \in Int
    BY <1>3
  <2>2. SubSeq(b, 5, 8) = SubSeq(ac, 5, 8)
    BY <1>1, <2>1, SubSeqOfConcat1, ZenonT(30) DEF b
  <2>3. SubSeq(ac, 5, 8) = SubSeq(c, 5 - Len(a), 8 - Len(a))
    BY <2>1, SubSeqOfConcat2, SMTT(30) DEF ac
  <2>4. SubSeq(c, 1, Len(c)) = c
    BY SubSeqFull
  <2> QED
    BY <2>1, <2>2, <2>3, <2>4
<1>6. SubSeq(b, 9, Len(b)) = t
  <2>1. CASE Len(t) = 0
    <3>1. t = << >>
      BY <2>1, EmptySeq
    <3>2. SubSeq(b, 9, Len(b)) = << >>
      BY <1>3, <2>1, SubSeqEmpty
    <3> QED
      BY <3>1, <3>2
  <2>2. CASE Len(t) > 0
    <3>1. 9 - Len(ac) = 1 /\ Len(b) - Len(ac) = Len(t) /\ 9 \in Len(ac) + 1..Len(ac) + Len(t)
          /\ Len(b) \in Len(ac) + 1..Len(ac) + Len(t)
          /\ Len(b) - Len(ac) = Len(t)
      BY <2>2, <1>3
    <3>2. SubSeq(b, 9, Len(b)) = SubSeq(t, 9 - Len(ac), Len(b) - Len(ac))
      BY <1>1, <3>1, SubSeqOfConcat2, SMTT(30) DEF b
    <3>3. SubSeq(t, 1, Len(t)) = t
      BY SubSeqFull
    <3> QED
      BY <3>1, <3>2, <3>3, Zenon
  <2> QED
    BY <2>1, <2>2, <1>3
<1> QED
  BY <1>3, <1>4, <1>5, <1>6 DEF b, ac, Layout

\* makeContextID then readContextID gives back the parameters, for a first
\* content ID that fits in a uint32.
LEMMA RoundTrip ==
    ASSUME Radix = 256, Width = 4,
           NEW p \in Params, p.first < FieldMax
    PROVE  ReadContextID(MakeContextID(p)) = Result("ok", p.provider, p.first, p.count)
<1> DEFINE a == PutUint(p.first)
           c == PutUint(p.count)
           t == PeerCode[p.provider]
           b == a \o c \o t
<1>0. FieldMax \in Int /\ 0 < FieldMax /\ HeaderLen = 8
  BY BytePowers, SMT DEF FieldMax, HeaderLen
<1>1. /\ p.provider \in Peers
      /\ p.first \in 0..FieldMax - 1
      /\ p.count \in 0..FieldMax - 1
  BY <1>0 DEF Params
<1>2. ToUint32(p.first) = p.first /\ ToUint32(p.count) = p.count
  BY <1>0, <1>1 DEF ToUint32
<1>3. MakeContextID(p) = b
  BY <1>2 DEF MakeContextID
<1>4. a \in Seq(Int) /\ Len(a) = 4 /\ c \in Seq(Int) /\ Len(c) = 4
  BY <1>1, PutUintSeq
<1>5. t \in Seq(Int)
  <2>1. t \in Seq(0..Radix - 1)
    BY <1>1, CodecAssumption
  <2>2. 0..Radix - 1 \subseteq Int
    OBVIOUS
  <2> QED
    BY <2>1, <2>2, SeqMonotonic, Zenon
<1> HIDE DEF a, c, t
<1>6. /\ Len(b) = 8 + Len(t)
      /\ SubSeq(b, 1, 4) = a
      /\ SubSeq(b, 5, 8) = c
      /\ SubSeq(b, 9, Len(b)) = t
  <2>1. Layout(a, c, t)
    BY <1>4, <1>5, LayoutSlices
  <2> QED
    BY <2>1 DEF b, Layout
<1> HIDE DEF b
<1>7. ~(Len(b) < HeaderLen) /\ SubSeq(b, HeaderLen + 1, Len(b)) = t
  BY <1>0, <1>5, <1>6
<1>8. /\ \E q \in Peers : PeerCode[q] = t
      /\ (CHOOSE q \in Peers : PeerCode[q] = t) = p.provider
  BY <1>1, CodecAssumption DEF t
<1>9. SubSeq(b, 1, Width) = a /\ SubSeq(b, Width + 1, HeaderLen) = c
  BY <1>0, <1>6
<1>10. GetUint(a) = p.first /\ GetUint(c) = p.count
  BY <1>1, GetPutUint DEF a, c
<1>11. ReadContextID(b)
         = Result("ok", CHOOSE q \in Peers : PeerCode[q] = t,
                  GetUint(SubSeq(b, 1, Width)), GetUint(SubSeq(b, Width + 1, HeaderLen)))
  BY <1>7, <1>8, Zenon DEF ReadContextID
<1> QED
  BY <1>3, <1>8, <1>9, <1>10, <1>11, Zenon

\* The strings of the model are byte sequences.
LEMMA StringsAreSeqs ==
    Strings \subseteq Seq(Bytes)
<1> SUFFICES ASSUME NEW n \in 0..MaxLen + 1, NEW b \in [1..n -> Bytes]
             PROVE  b \in Seq(Bytes)
  BY DEF Strings
<1>1. n \in Nat
  OBVIOUS
<1> QED
  BY <1>1

\* h holds four bytes.
FieldOK(h) == h \in [1..4 -> Int] /\ \A i \in 1..4 : 0 <= h[i] /\ h[i] < 256

\* A byte is a number below 256.
LEMMA ByteBounds ==
    ASSUME Radix = 256, NEW x \in Bytes
    PROVE  x \in Int /\ 0 <= x /\ x < 256
BY DEF Bytes

\* A four-byte slice of a byte string holds four bytes.
LEMMA HeaderField ==
    ASSUME Radix = 256, NEW b \in Seq(Bytes), NEW m \in Nat, 1 <= m, m + 3 <= Len(b)
    PROVE  FieldOK(SubSeq(b, m, m + 3))
<1>0. \A i \in 1..Len(b) : b[i] \in Bytes
  BY ElementOfSeq
<1>1. \A i \in 1..Len(b) : b[i] \in Int /\ 0 <= b[i] /\ b[i] < 256
  BY <1>0, ByteBounds
<1>2. SubSeq(b, m, m + 3) = [i \in 1..4 |-> b[m + i - 1]]
  BY DEF SubSeq
<1>3. \A i \in 1..4 : m + i - 1 \in 1..Len(b)
  OBVIOUS
<1> QED
  BY <1>1, <1>2, <1>3, Zenon DEF FieldOK

\* Reading four bytes as a uint32, converting with uint32(...) and writing
\* them with PutUint32 gives back the four bytes.
LEMMA FieldReencodes ==
    ASSUME Radix = 256, Width = 4, NEW h, FieldOK(h)
    PROVE  PutUint(ToUint32(GetUint(h))) = h
<1>1. /\ h[1] \in Int /\ 0 <= h[1] /\ h[1] < 256
      /\ h[2] \in Int /\ 0 <= h[2] /\ h[2] < 256
      /\ h[3] \in Int /\ 0 <= h[3] /\ h[3] < 256
      /\ h[4] \in Int /\ 0 <= h[4] /\ h[4] < 256
  BY DEF FieldOK
<1>2. GetUint(h) = Word(h[1], h[2], h[3], h[4])
  BY <1>1, GetUintUnfold DEF Word
<1>3. Word(h[1], h[2], h[3], h[4]) \in Int
      /\ 0 <= Word(h[1], h[2], h[3], h[4])
      /\ Word(h[1], h[2], h[3], h[4]) < 4294967296
  BY <1>1, SMT DEF Word
<1>4. FieldMax = 4294967296
  BY BytePowers, SMT DEF FieldMax
<1>5. ToUint32(GetUint(h)) = GetUint(h)
  BY <1>2, <1>3, <1>4, SMT DEF ToUint32
<1>6. PutUint(GetUint(h)) = h
  BY <1>1, PutGetUint DEF FieldOK
<1> QED
  BY <1>5, <1>6

\* A byte string is its two header fields followed by its tail.
Rejoin(b) == SubSeq(b, 1, 4) \o SubSeq(b, 5, 8) \o SubSeq(b, 9, Len(b)) = b

\* Slicing a string of at least eight bytes as readContextID does loses no
\* byte: the slices rejoin into the string.
LEMMA RejoinSlices ==
    ASSUME NEW S, NEW b \in Seq(S), 8 <= Len(b)
    PROVE  Rejoin(b)
<1>1. SubSeq(b, 1, 4) \o SubSeq(b, 5, 8) = SubSeq(b, 1, 8)
  <2> 1 \in 1..Len(b) + 1 /\ 4 \in 1 - 1..Len(b) /\ 8 \in 4..Len(b) /\ 4 + 1 = 5
    OBVIOUS
  <2> QED
    BY ConcatAdjacentSubSeq, Zenon
<1>2. SubSeq(b, 1, 8) \o SubSeq(b, 9, Len(b)) = SubSeq(b, 1, Len(b))
  <2> 1 \in 1..Len(b) + 1 /\ 8 \in 1 - 1..Len(b) /\ Len(b) \in 8..Len(b) /\ 8 + 1 = 9
    OBVIOUS
  <2> QED
    BY ConcatAdjacentSubSeq, Zenon
<1>3. SubSeq(b, 1, Len(b)) = b
  BY SubSeqFull, Zenon
<1> QED
  BY <1>1, <1>2, <1>3 DEF Rejoin

\* readContextID accepts a byte string only as the context ID makeContextID
\* builds from the provider, first content ID and count it decoded.
LEMMA Reencodes ==
    ASSUME Radix = 256, Width = 4, NEW b \in Seq(Bytes),
           ReadContextID(b).status = "ok"
    PROVE  LET r == ReadContextID(b) IN
           MakeContextID([provider |-> r.provider, first |-> r.first,
                          count |-> r.count]) = b
<1> DEFINE h1 == SubSeq(b, 1, 4)
           h2 == SubSeq(b, 5, 8)
           tail == SubSeq(b, 9, Len(b))
           q == CHOOSE p \in Peers : PeerCode[p] = tail
<1>0. HeaderLen = 8
  BY DEF HeaderLen
<1>1. /\ 8 <= Len(b)
      /\ \E p \in Peers : PeerCode[p] = tail
      /\ ReadContextID(b) = Result("ok", q, GetUint(h1), GetUint(h2))
  BY <1>0 DEF ReadContextID, Result
<1>2. PeerCode[q] = tail
  BY <1>1
<1>3. FieldOK(h1) /\ FieldOK(h2)
  BY <1>1, HeaderField
<1>4. PutUint(ToUint32(GetUint(h1))) = h1 /\ PutUint(ToUint32(GetUint(h2))) = h2
  BY <1>3, FieldReencodes, Zenon
<1>5. Rejoin(b)
  BY <1>1, RejoinSlices
<1> HIDE DEF h1, h2, tail, q
<1>6. MakeContextID([provider |-> q, first |-> GetUint(h1), count |-> GetUint(h2)])
        = h1 \o h2 \o tail
  BY <1>2, <1>4, Zenon DEF MakeContextID
<1> QED
  BY <1>1, <1>5, <1>6 DEF Rejoin, Result, h1, h2, tail

\* The parameters of the batch being advertised stay well typed.
ParamsOK == params \in Params

\* makeContextID and readContextID (autoretrieve.go) with the code's own
\* layout, uint32 fields of bytes: every context ID built for a batch whose
\* first content ID fits in a uint32 reads back as that batch's provider,
\* first content ID and count, for every set of peers and their encodings.
THEOREM CodecRoundTripHolds ==
    ASSUME Radix = 256, Width = 4
    PROVE  Spec => []CodecRoundTrip
<1>1. Init => ParamsOK
  BY DEF Init, ParamsOK
<1>2. ParamsOK /\ [Next]_<<params, bytes>> => ParamsOK'
  BY DEF ParamsOK, Next
<1>3. ParamsOK => CodecRoundTrip
  BY RoundTrip DEF ParamsOK, CodecRoundTrip
<1> QED
  BY <1>1, <1>2, <1>3, PTL DEF Spec


\* The bytes handed to readContextID are a byte string of the model.
BytesOK == bytes \in Seq(Bytes)

\* readContextID (autoretrieve.go) with the code's own layout: a byte string
\* it decodes without error is exactly the context ID makeContextID builds
\* from what it decoded, so a context ID has one reading, whatever the set
\* of peers and their encodings.
THEOREM DecodeReencodesHolds ==
    ASSUME Radix = 256, Width = 4
    PROVE  Spec => []DecodeReencodes
<1>1. Init => BytesOK
  BY StringsAreSeqs DEF Init, BytesOK
<1>2. BytesOK /\ [Next]_<<params, bytes>> => BytesOK'
  BY DEF BytesOK, Next
<1>3. BytesOK => DecodeReencodes
  BY Reencodes DEF BytesOK, DecodeReencodes
<1> QED
  BY <1>1, <1>2, <1>3, PTL DEF Spec

=============================================================================
