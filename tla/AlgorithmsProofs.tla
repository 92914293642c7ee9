-------------------------- MODULE AlgorithmsProofs --------------------------
(***************************************************************************)
(* What the server computes without keeping state is right for every input *)
(* the constants allow, not only for those the run enumerates.             *)
(***************************************************************************)
EXTENDS Algorithms, SequenceTheorems, FiniteSetTheorems, WellFoundedInduction, TLAPS

-----------------------------------------------------------------------------
(* Whole numbers *)

\* A number is a quotient and a remainder in one way only.
LEMMA Divided ==
  ASSUME NEW w \in Nat \ {0}, NEW q \in Int, NEW r \in 0..(w - 1)
  PROVE  (q * w + r) \div w = q /\ (q * w + r) % w = r
  OBVIOUS

\* What is left of a number is less than what it is divided by.
LEMMA Division ==
  ASSUME NEW w \in Nat \ {0}, NEW n \in Int
  PROVE  /\ n \div w \in Int /\ n % w \in 0..(w - 1)
         /\ n = (n \div w) * w + (n % w)
         /\ n >= 0 => n \div w >= 0
  OBVIOUS

\* Places of a picture are numbered row by row.
LEMMA RowMajor ==
  ASSUME NEW w \in Nat \ {0}, NEW h \in Nat, NEW x \in 0..(w - 1), NEW y \in 0..(h - 1)
  PROVE  y * w + x \in 0..(w * h - 1)
  OBVIOUS

\* And every number is that of a place.
LEMMA RowOf ==
  ASSUME NEW w \in Nat \ {0}, NEW h \in Nat, NEW i \in 0..(w * h - 1)
  PROVE  i % w \in 0..(w - 1) /\ i \div w \in 0..(h - 1)
  OBVIOUS
-----------------------------------------------------------------------------
(* Sequence numbers *)

\* The number to be handed out next is above the last one and above all that the
\* tablet has named since, unless one of them was the greatest there is.
Fresh(next, last, seen) ==
  LET n == Sequence(next).sequence IN
  /\ n \in 1..LastSequence
  /\ last = LastSequence \/ seen = LastSequence \/ (n > last /\ n > seen)

\* The number after, of 32 bits.
LEMMA AfterFacts ==
  ASSUME NEW n \in 0..LastSequence
  PROVE  After(n) = IF n = LastSequence THEN 0 ELSE n + 1
  BY WireAssumption DEF After

\* A number that is handed out is not handed out again before the numbers wrap.
LEMMA HandOutFresh ==
  ASSUME NEW next \in 0..LastSequence, NEW last, NEW seen, Fresh(next, last, seen)
  PROVE  /\ Sequence(next).next \in 0..LastSequence
         /\ Sequence(next).sequence \in 0..LastSequence
         /\ Fresh(Sequence(next).next, Sequence(next).sequence, 0)
<1> DEFINE n == NotZero(next)
           m == NotZero(After(n))
<1>1. n \in 1..LastSequence
  BY WireAssumption DEF NotZero
<1>2. m \in 1..LastSequence /\ (n # LastSequence => m > n)
  BY <1>1, AfterFacts, WireAssumption DEF NotZero
<1>3. NotZero(m) = m
  BY <1>2 DEF NotZero
<1> QED
  BY <1>1, <1>2, <1>3 DEF Fresh, Sequence

\* A status moves the next number past the one it names.
LEMMA ObserveFresh ==
  ASSUME NEW next \in 0..LastSequence, NEW last \in 0..LastSequence,
         NEW seen \in 0..LastSequence, NEW n \in 0..LastSequence, Fresh(next, last, seen)
  PROVE  /\ Advanced(next, n) \in 0..LastSequence /\ Larger(seen, n) \in 0..LastSequence
         /\ Fresh(Advanced(next, n), last, Larger(seen, n))
<1> DEFINE m == Advanced(next, n)
<1>1. NotZero(next) \in 1..LastSequence
      /\ (last = LastSequence \/ seen = LastSequence
            \/ (NotZero(next) > last /\ NotZero(next) > seen))
  BY DEF Fresh, Sequence
<1>2. m = IF next <= n THEN (IF n = LastSequence THEN 1 ELSE n + 1) ELSE next
  BY AfterFacts, WireAssumption DEF Advanced, NotZero
<1>3. m \in 0..LastSequence /\ NotZero(m) \in 1..LastSequence
  BY <1>2, WireAssumption DEF NotZero
<1>4. Larger(seen, n) \in 0..LastSequence
  BY DEF Larger
<1>5. \/ last = LastSequence \/ Larger(seen, n) = LastSequence
      \/ NotZero(m) > last /\ NotZero(m) > Larger(seen, n)
  BY <1>1, <1>2, WireAssumption DEF NotZero, Larger
<1> QED
  BY <1>3, <1>4, <1>5 DEF Fresh, Sequence
-----------------------------------------------------------------------------
(* Chunks *)

\* A decoder reads the length that was written, and as many bytes as were.
LEMMA LiteralLengthRead ==
  ASSUME NEW n \in Nat
  PROVE  /\ DecodedLength(LiteralLength(n)).literals = n
         /\ DecodedLength(LiteralLength(n)).bytes = 1 + Len(LiteralLength(n).more)
<1>1. CASE n < 15
  BY <1>1 DEF LiteralLength, DecodedLength
<1>2. CASE n >= 15
  <2> DEFINE k == (n - 15) \div 255
             r == (n - 15) % 255
             full == [i \in 1..k |-> 255]
             more == full \o <<r>>
  <2>1. k \in Nat /\ r \in 0..254 /\ n = 15 + 255 * k + r
    BY <1>2
  <2>2. LiteralLength(n) = [token |-> 15, more |-> more]
    BY <1>2 DEF LiteralLength
  <2> HIDE DEF k, r
  <2>3. full \in Seq(Nat) /\ Len(full) = k
    BY <2>1, SeqDef
  <2>4. <<r>> \in Seq(Nat) /\ Len(<<r>>) = 1 /\ <<r>>[1] = r
    BY <2>1
  <2>5. /\ more \in Seq(Nat) /\ Len(more) = k + 1 /\ DOMAIN more = 1..(k + 1)
        /\ \A i \in 1..k : more[i] = 255
        /\ more[k + 1] = r
    <3>1. more \in Seq(Nat) /\ Len(more) = k + 1
      BY <2>1, <2>3, <2>4, ConcatProperties
    <3>2. \A i \in 1..(k + 1) : more[i] = IF i <= k THEN full[i] ELSE <<r>>[i - k]
      BY <2>1, <2>3, <2>4, ConcatProperties
    <3>3. DOMAIN more = 1..(k + 1)
      BY <3>1, LenProperties
    <3> QED
      BY <3>1, <3>2, <3>3, <2>1, <2>4
  <2> HIDE DEF more
  <2>6. {i \in DOMAIN more : more[i] < 255} = {k + 1}
    BY <2>1, <2>5
  <2>7. (CHOOSE i \in {k + 1} : \A j \in {k + 1} : i <= j) = k + 1
    BY <2>1
  <2>8. DecodedLength([token |-> 15, more |-> more])
          = [literals |-> 15 + 255 * k + more[k + 1], bytes |-> 1 + (k + 1)]
    BY <2>1, <2>6, <2>7 DEF DecodedLength
  <2> QED
    BY <2>1, <2>2, <2>5, <2>8
<1> QED
  BY <1>1, <1>2

\* What the property says of a record of n bytes.
Reassembled(n, packed) ==
  LET chunks == Chunks(n, packed)
      Before(i) == (i - 1) * ChunkSize IN
  /\ chunks[Len(chunks)].index = chunks[Len(chunks)].final
  /\ \A i \in DOMAIN chunks :
       LET c == chunks[i] IN
       /\ c.index = i - 1 /\ c.raw \in 1..ChunkSize
       /\ i < Len(chunks) => Before(i) + c.raw = Before(i + 1)
       /\ i = Len(chunks) => Before(i) + c.raw = n
       /\ packed = 0 =>
            LET d == DecodedLength(c.literals) IN
            d.literals = c.raw /\ d.bytes + d.literals = c.bytes

\* The chunks of a record of any length.
LEMMA ChunksRight ==
  ASSUME NEW n \in Nat \ {0}, NEW packed \in {0, 1}
  PROVE  Reassembled(n, packed)
<1> DEFINE final == (n - 1) \div ChunkSize
           Raw(i) == IF i < final THEN ChunkSize ELSE n - final * ChunkSize
           chunks == Chunks(n, packed)
<1>1. final \in Nat /\ n - final * ChunkSize \in 1..ChunkSize
  BY SMTT(30) DEF ChunkSize
<1>2. chunks = [k \in 1..(final + 1) |->
                  [index |-> k - 1, final |-> final, raw |-> Raw(k - 1),
                   bytes |-> IF packed = 0
                             THEN 1 + Len(LiteralLength(Raw(k - 1)).more) + Raw(k - 1) ELSE packed,
                   literals |-> IF packed = 0 THEN LiteralLength(Raw(k - 1)) ELSE <<>>]]
  BY DEF Chunks
<1> HIDE DEF final, chunks
<1>3. DOMAIN chunks = 1..(final + 1) /\ Len(chunks) = final + 1
  BY <1>1, <1>2, SMTT(30)
<1>4. \A i \in 1..(final + 1) : Raw(i - 1) \in 1..ChunkSize
  BY <1>1 DEF ChunkSize
<1>5. chunks[final + 1].index = chunks[final + 1].final
  BY <1>1, <1>2
<1>6. ASSUME NEW i \in 1..(final + 1)
      PROVE  /\ chunks[i].index = i - 1 /\ chunks[i].raw = Raw(i - 1)
             /\ packed = 0 => /\ chunks[i].literals = LiteralLength(Raw(i - 1))
                              /\ chunks[i].bytes = 1 + Len(LiteralLength(Raw(i - 1)).more) + Raw(i - 1)
  BY <1>2
<1>7. ASSUME NEW i \in 1..(final + 1)
      PROVE  /\ i < final + 1 => (i - 1) * ChunkSize + Raw(i - 1) = (i + 1 - 1) * ChunkSize
             /\ i = final + 1 => (i - 1) * ChunkSize + Raw(i - 1) = n
  BY <1>1 DEF ChunkSize
<1>8. ASSUME NEW i \in 1..(final + 1), packed = 0
      PROVE  LET d == DecodedLength(chunks[i].literals) IN
             d.literals = chunks[i].raw /\ d.bytes + d.literals = chunks[i].bytes
  <2>1. PICK m \in Nat : m = Raw(i - 1)
    <3>1. Raw(i - 1) \in 1..ChunkSize
      BY <1>4
    <3> HIDE DEF Raw
    <3>2. \A k \in 1..ChunkSize : k \in Nat
      BY DEF ChunkSize
    <3> QED
      BY <3>1, <3>2
  <2>2. Len(LiteralLength(m).more) \in Nat
    <3>1. LiteralLength(m).more \in Seq(Int)
      BY SeqDef, ConcatProperties DEF LiteralLength
    <3> QED
      BY <3>1, LenProperties
  <2>3. PICK l \in Nat : l = Len(LiteralLength(m).more)
    BY <2>2
  <2>4. /\ DecodedLength(LiteralLength(m)).literals = m
        /\ DecodedLength(LiteralLength(m)).bytes = 1 + l
    BY <2>3, LiteralLengthRead
  <2> HIDE DEF Raw
  <2>5. /\ chunks[i].raw = m /\ chunks[i].literals = LiteralLength(m)
        /\ chunks[i].bytes = 1 + l + m
    BY <1>6, <1>8, <2>1, <2>3
  <2> QED
    BY <2>4, <2>5
<1> HIDE DEF Raw
<1>9. /\ chunks[Len(chunks)].index = chunks[Len(chunks)].final
      /\ \A i \in 1..(final + 1) :
           /\ chunks[i].index = i - 1 /\ chunks[i].raw \in 1..ChunkSize
           /\ i < Len(chunks) => (i - 1) * ChunkSize + chunks[i].raw = (i + 1 - 1) * ChunkSize
           /\ i = Len(chunks) => (i - 1) * ChunkSize + chunks[i].raw = n
  BY <1>3, <1>4, <1>5, <1>6, <1>7
<1> QED
  BY <1>3, <1>8, <1>9, SMTT(30) DEF Reassembled, chunks
-----------------------------------------------------------------------------
(* Packed frames *)

EvenWide(w) == \E r \in Nat \ {0} : w = 2 * r

Aligned(pic, w, h) ==
  LET sent == RotatePacked180(Pack(pic), (w * h) \div 2) IN
  \A p \in Places(w, h) :
    LET at == PhysicalCoordinates([x |-> p[1], y |-> p[2]], w, h) IN
    /\ ~at.refused /\ <<at.x, at.y>> \in Places(w, h)
    /\ Unpacked(sent, w, p[1], p[2]) = pic.at[<<at.x, at.y>>]

\* Inside the panel and beside it, in the words of the property.
Seen(pic, w, h) ==
  LET sent == RotatePacked180(Pack(pic), (w * h) \div 2) IN
  \A p \in Places(w + 1, h + 1) :
    LET at == PhysicalCoordinates([x |-> p[1], y |-> p[2]], w, h) IN
    /\ at.refused <=> p \notin Places(w, h)
    /\ ~at.refused => /\ <<at.x, at.y>> \in Places(w, h)
                      /\ Unpacked(sent, w, p[1], p[2]) = pic.at[<<at.x, at.y>>]

\* A tap anywhere on the panel is on the pixel of the picture that is shown there.
LEMMA PixelUnderTap ==
  ASSUME NEW w, EvenWide(w), NEW h \in Nat \ {0}, NEW pic, pic.width = w, pic.height = h
  PROVE  Aligned(pic, w, h)
<1>a. PICK r \in Nat \ {0} : w = 2 * r
  BY DEF EvenWide
<1>b. pic.width = 2 * r /\ pic.height = h
  BY <1>a
<1> SUFFICES ASSUME NEW p \in Places(2 * r, h)
             PROVE  LET at == PhysicalCoordinates([x |-> p[1], y |-> p[2]], 2 * r, h) IN
                    /\ ~at.refused /\ <<at.x, at.y>> \in Places(2 * r, h)
                    /\ Unpacked(RotatePacked180(Pack(pic), (2 * r * h) \div 2), 2 * r, p[1], p[2])
                         = pic.at[<<at.x, at.y>>]
  BY <1>a, Zenon DEF Aligned
<1> USE <1>b
<1>1. PICK x \in 0..(2 * r - 1), y \in 0..(h - 1) : x = p[1] /\ y = p[2]
  BY DEF Places
<1> DEFINE c == x \div 2
           sent == RotatePacked180(Pack(pic), r * h)
<1>2. c \in 0..(r - 1) /\ x = 2 * c + (x % 2) /\ x % 2 \in {0, 1}
  OBVIOUS
<1>3. (y * (2 * r) + x) \div 2 = y * r + c
  <2>1. y * (2 * r) + x = (y * r + c) * 2 + (x % 2) /\ y * r + c \in Int
    BY <1>2
  <2>2. PICK q \in Int : q = y * r + c
    BY <2>1
  <2>3. y * (2 * r) + x = q * 2 + (x % 2)
    BY <2>1, <2>2
  <2>4. PICK b \in {0, 1} : b = x % 2
    BY <1>2
  <2>5. (q * 2 + b) \div 2 = q
    OBVIOUS
  <2> QED
    BY <2>2, <2>3, <2>4, <2>5
<1>4. (2 * r * h) \div 2 = r * h
  <2>1. 2 * r * h = (r * h) * 2 + 0 /\ r * h \in Int
    OBVIOUS
  <2> QED
    BY <2>1, Divided
<1>5. /\ sent[y * r + c].low = pic.at[<<2 * r - 1 - 2 * c, h - 1 - y>>]
      /\ sent[y * r + c].high = pic.at[<<2 * r - 2 - 2 * c, h - 1 - y>>]
  <2> HIDE DEF c
  <2>1. PICK d \in 0..(r - 1) : d = c
    BY <1>2
  <2> DEFINE b == 2 * r
             i == y * r + d
             j == r * h - 1 - i
  <2>2. i \in 0..(r * h - 1)
    BY RowMajor
  <2>3. j = (h - 1 - y) * r + (r - 1 - d) /\ 2 * j = (h - 1 - y) * b + (b - 2 - 2 * d)
    OBVIOUS
  <2>4. j \in 0..(r * h - 1)
    BY <2>2
  <2>5. (2 * j) % b = b - 2 - 2 * d /\ (2 * j) \div b = h - 1 - y
    <3>1. b \in Nat \ {0} /\ h - 1 - y \in Int /\ b - 2 - 2 * d \in 0..(b - 1)
      OBVIOUS
    <3>2. PICK m \in Int, s \in 0..(b - 1) : m = h - 1 - y /\ s = b - 2 - 2 * d
      BY <3>1
    <3> HIDE DEF b, j
    <3>3. (m * b + s) % b = s /\ (m * b + s) \div b = m
      BY <3>1, Divided
    <3>4. 2 * j = m * b + s
      BY <2>3, <3>2
    <3> QED
      BY <3>2, <3>3, <3>4
  <2>6. (b * h) \div 2 = r * h
    <3>1. b * h = (r * h) * 2 + 0 /\ r * h \in Int
      OBVIOUS
    <3> QED
      BY <3>1, Divided
  <2>7. b - 2 - 2 * d + 1 = b - 1 - 2 * d
    OBVIOUS
  <2> HIDE DEF i, j
  <2>8. Pack(pic)[j] = [low |-> pic.at[<<b - 2 - 2 * d, h - 1 - y>>],
                        high |-> pic.at[<<b - 1 - 2 * d, h - 1 - y>>]]
    BY <2>4, <2>5, <2>6, <2>7 DEF Pack
  <2>9. RotatePacked180(Pack(pic), r * h)[i]
          = [low |-> Pack(pic)[j].high, high |-> Pack(pic)[j].low]
    BY <2>2 DEF RotatePacked180, j
  <2>10. /\ sent[y * r + d].low = pic.at[<<2 * r - 1 - 2 * d, h - 1 - y>>]
         /\ sent[y * r + d].high = pic.at[<<2 * r - 2 - 2 * d, h - 1 - y>>]
    BY <2>8, <2>9 DEF i
  <2> QED
    BY <2>1, <2>10
<1>6. Unpacked(sent, 2 * r, x, y) = pic.at[<<2 * r - 1 - x, h - 1 - y>>]
  <2>1. CASE x % 2 = 0
    <3>1. 2 * r - 1 - 2 * c = 2 * r - 1 - x
      BY <1>2, <2>1
    <3> QED
      BY <1>3, <1>5, <2>1, <3>1 DEF Unpacked
  <2>2. CASE x % 2 = 1
    <3>1. 2 * r - 2 - 2 * c = 2 * r - 1 - x
      BY <1>2, <2>2
    <3> QED
      BY <1>3, <1>5, <2>2, <3>1 DEF Unpacked
  <2> QED
    BY <1>2, <2>1, <2>2
<1>7. PICK at : at = PhysicalCoordinates([x |-> p[1], y |-> p[2]], 2 * r, h)
  OBVIOUS
<1>8. ~at.refused /\ at.x = 2 * r - 1 - x /\ at.y = h - 1 - y
  BY <1>1, <1>7 DEF PhysicalCoordinates
<1>9. <<at.x, at.y>> \in Places(2 * r, h)
  BY <1>1, <1>8 DEF Places
<1>10. Unpacked(sent, 2 * r, p[1], p[2]) = pic.at[<<at.x, at.y>>]
  BY <1>1, <1>6, <1>8, Zenon
<1> QED
  BY <1>4, <1>7, <1>8, <1>9, <1>10, Zenon

\* A tap beside the panel is refused.
LEMMA TapBeside ==
  ASSUME NEW w \in Nat \ {0}, NEW h \in Nat \ {0}, NEW p \in Places(w + 1, h + 1), p \notin Places(w, h)
  PROVE  PhysicalCoordinates([x |-> p[1], y |-> p[2]], w, h).refused
<1>1. PICK x \in 0..w, y \in 0..h : p = <<x, y>>
  BY DEF Places
<1>2. x >= w \/ y >= h
  BY <1>1 DEF Places
<1> QED
  BY <1>1, <1>2 DEF PhysicalCoordinates
-----------------------------------------------------------------------------
(* Changed rectangles *)

\* A set of numbers below a bound has a least one and a greatest one.
LEMMA Extremes ==
  ASSUME NEW m \in Nat, NEW S \in SUBSET (0..m), S # {}
  PROVE  /\ \E n \in S : \A k \in S : n <= k
         /\ \E n \in S : \A k \in S : k <= n
<1>1. \E n \in S : \A k \in S : n <= k
  <2>1. S \subseteq Nat
    OBVIOUS
  <2>2. PICK n \in S : \A k \in S : <<k, n>> \notin OpToRel(<, Nat)
    BY <2>1, NatLessThanWellFounded, WFMin
  <2>3. \A k \in S : ~(k < n)
    BY <2>1, <2>2 DEF OpToRel
  <2> QED
    BY <2>1, <2>3
<1>2. \E n \in S : \A k \in S : k <= n
  <2> DEFINE T == {m - k : k \in S}
  <2>1. T \subseteq Nat /\ T # {}
    <3>1. \A k \in S : m - k \in Nat
      OBVIOUS
    <3> QED
      BY <3>1
  <2>2. PICK d \in T : \A e \in T : <<e, d>> \notin OpToRel(<, Nat)
    BY <2>1, NatLessThanWellFounded, WFMin
  <2>3. \A e \in T : ~(e < d)
    BY <2>1, <2>2 DEF OpToRel
  <2>4. PICK n \in S : d = m - n
    BY <2>2
  <2>5. ASSUME NEW k \in S PROVE k <= n
    <3>1. m - k \in T
      OBVIOUS
    <3>2. ~(m - k < m - n)
      BY <2>3, <2>4, <3>1
    <3> QED
      BY <3>2
  <2> QED
    BY <2>5
<1> QED
  BY <1>1, <1>2

\* A span begins with the least and ends with the greatest.
LEMMA SpanFacts ==
  ASSUME NEW m \in Nat, NEW S \in SUBSET (0..m), S # {}
  PROVE  /\ Span(S).from \in 0..m /\ Span(S).count \in 1..(m + 1)
         /\ Span(S).from + Span(S).count <= m + 1
         /\ \A k \in S : k - Span(S).from \in 0..(Span(S).count - 1)
<1> DEFINE from == CHOOSE x \in S : \A k \in S : x <= k
           to   == CHOOSE x \in S : \A k \in S : k <= x
<1>1. from \in S /\ \A k \in S : from <= k
  BY Extremes
<1>2. to \in S /\ \A k \in S : k <= to
  BY Extremes
<1>3. Span(S) = [from |-> from, count |-> to - from + 1]
  BY DEF Span
<1> HIDE DEF from, to
<1> QED
  BY <1>1, <1>2, <1>3

\* A rectangle inside a display of such a size is one the builder takes.
LEMMA RectangleBuildable ==
  ASSUME NEW w, NEW h, Sized(w), Sized(h), NEW p,
         p.x \in Nat, p.y \in Nat, p.width \in Nat \ {0}, p.height \in Nat \ {0},
         p.x + p.width <= w, p.y + p.height <= h,
         (p.width * p.height) % 2 = 0,
         DOMAIN p.pixels = 0..((p.width * p.height) \div 2 - 1)
  PROVE  Buildable(p)
<1>1. ASSUME NEW n, Sized(n), NEW a \in Nat, NEW k \in Nat \ {0}, a + k <= n
      PROVE  /\ a >= 0 /\ a <= 65535 /\ k > 0 /\ k <= 65535 /\ a + k <= 65536
  BY <1>1, SMT DEF Sized
<1>2. /\ p.x >= 0 /\ p.x <= 65535 /\ p.width > 0 /\ p.width <= 65535
      /\ p.x + p.width <= 65536
  BY <1>1, SMTT(30)
<1>3. /\ p.y >= 0 /\ p.y <= 65535 /\ p.height > 0 /\ p.height <= 65535
      /\ p.y + p.height <= 65536
  BY <1>1, SMTT(30)
<1> QED
  BY <1>2, <1>3, Z3 DEF Buildable

\* What is on the screen at one byte.
LEMMA PaintedByte ==
  ASSUME NEW bytes, NEW p, NEW row, NEW i \in DOMAIN bytes
  PROVE  Painted(bytes, p, row)[i]
           = IF /\ (i % row) - p.x \div 2 \in 0..(p.width \div 2 - 1)
                /\ (i \div row) - p.y \in 0..(p.height - 1)
             THEN p.pixels[((i \div row) - p.y) * (p.width \div 2) + ((i % row) - p.x \div 2)]
             ELSE bytes[i]
  BY Zenon DEF Painted

\* Painting leaves the size of the screen.
LEMMA PaintedDomain ==
  ASSUME NEW bytes, NEW p, NEW row
  PROVE  Painted(bytes, p, row) = [i \in DOMAIN bytes |-> Painted(bytes, p, row)[i]]
  BY DEF Painted

\* A display r bytes wide and what can be on it.
Canvas(r, h, size) ==
  /\ r \in Nat \ {0} /\ h \in Nat \ {0} /\ Sized(2 * r) /\ Sized(h)
  /\ size.width = 2 * r /\ size.height = h
Content(r, h) == [0..(r * h - 1) -> Shades]

\* The whole frame is a primitive the builder takes, and it leaves nothing of what
\* was on the screen.
LEMMA WholePaints ==
  ASSUME NEW r, NEW h, NEW size, Canvas(r, h, size), NEW now \in Content(r, h),
         NEW base, DOMAIN base = DOMAIN now
  PROVE  Buildable(Whole(now, size)) /\ Painted(base, Whole(now, size), r) = now
<1>0. /\ r \in Nat \ {0} /\ h \in Nat \ {0} /\ Sized(2 * r) /\ Sized(h)
      /\ size.width = 2 * r /\ size.height = h
      /\ now \in [0..(r * h - 1) -> Shades] /\ DOMAIN base = 0..(r * h - 1)
  BY DEF Canvas, Content
<1> USE <1>0
<1> DEFINE p == Whole(now, size)
<1>1. p = [x |-> 0, y |-> 0, width |-> 2 * r, height |-> h, pixels |-> now]
  BY DEF Whole
<1> HIDE DEF p
<1>2. (2 * r * h) % 2 = 0 /\ (2 * r * h) \div 2 = r * h
  <2>1. 2 * r * h = (r * h) * 2 + 0 /\ r * h \in Int
    OBVIOUS
  <2> QED
    BY <2>1, Divided
<1>3. DOMAIN now = 0..(r * h - 1)
  OBVIOUS
<1>4. Buildable(p)
  <2>1. /\ p.x = 0 /\ p.y = 0 /\ p.width = 2 * r /\ p.height = h
        /\ DOMAIN p.pixels = 0..(r * h - 1)
    BY <1>1, <1>3
  <2>2. p.x + p.width <= 2 * r /\ p.y + p.height <= h
    BY <2>1
  <2>3. PICK w : w = 2 * r /\ Sized(w) /\ p.x + p.width <= w
    BY <2>2
  <2>4. (p.width * p.height) % 2 = 0 /\ DOMAIN p.pixels = 0..((p.width * p.height) \div 2 - 1)
    BY <1>2, <2>1
  <2>5. p.x \in Nat /\ p.y \in Nat /\ p.width \in Nat \ {0} /\ p.height \in Nat \ {0}
    BY <2>1
  <2> QED
    BY <2>2, <2>3, <2>4, <2>5, RectangleBuildable
<1>5. (2 * r) \div 2 = r /\ 0 \div 2 = 0
  OBVIOUS
<1>6. ASSUME NEW i \in 0..(r * h - 1)
      PROVE  Painted(base, p, r)[i] = now[i]
  <2>1. i % r \in 0..(r - 1) /\ i \div r \in 0..(h - 1)
    BY RowOf
  <2>2. (i \div r) * r + (i % r) = i
    <3>1. r * h - 1 \in Int /\ i \in Int
      OBVIOUS
    <3> QED
      BY <3>1, Division
  <2>3. PICK x \in 0..(r - 1), y \in 0..(h - 1) : x = i % r /\ y = i \div r
    BY <2>1
  <2>4. p.x = 0 /\ p.y = 0 /\ p.width = 2 * r /\ p.height = h /\ p.pixels = now
    BY <1>1
  <2>5. (i % r) - p.x \div 2 = x /\ (i \div r) - p.y = y /\ p.width \div 2 = r
    BY <1>5, <2>3, <2>4
  <2>6. Painted(base, p, r)[i]
          = IF x \in 0..(r - 1) /\ y \in 0..(h - 1) THEN p.pixels[y * r + x] ELSE base[i]
    <3>1. i \in DOMAIN base
      OBVIOUS
    <3>2. Painted(base, p, r)[i]
            = IF /\ (i % r) - p.x \div 2 \in 0..(p.width \div 2 - 1)
                 /\ (i \div r) - p.y \in 0..(p.height - 1)
              THEN p.pixels[((i \div r) - p.y) * (p.width \div 2) + ((i % r) - p.x \div 2)]
              ELSE base[i]
      BY <3>1, PaintedByte
    <3> QED
      BY <2>4, <2>5, <3>2
  <2>7. y * r + x = i
    BY <2>2, <2>3
  <2> QED
    BY <2>3, <2>4, <2>6, <2>7
<1>7. Painted(base, p, r) = [i \in 0..(r * h - 1) |-> Painted(base, p, r)[i]]
  BY PaintedDomain
<1>8. Painted(base, p, r) = now
  BY <1>6, <1>7
<1> QED
  BY <1>4, <1>8 DEF p

\* The rectangle around the bytes that changed.
Part(now, last, row) ==
  LET changed == {i \in DOMAIN now : now[i] # last[i]}
      across  == Span({i % row : i \in changed})
      down    == Span({i \div row : i \in changed})
      Source(i) == (down.from + i \div across.count) * row + across.from + (i % across.count) IN
  [x |-> 2 * across.from, y |-> down.from, width |-> 2 * across.count, height |-> down.count,
   pixels |-> [i \in 0..(across.count * down.count - 1) |-> now[Source(i)]]]

\* The smallest rectangle around the bytes that changed is a primitive the builder
\* takes, and painting it over the frame before gives the new one.
LEMMA RectanglePaints ==
  ASSUME NEW r, NEW h, NEW size, Canvas(r, h, size),
         NEW now \in Content(r, h), NEW last \in Content(r, h), now # last
  PROVE  LET p == Changed(now, last, size, size) IN
         Buildable(p) /\ Painted(last, p, r) = now
<1>0. /\ r \in Nat \ {0} /\ h \in Nat \ {0} /\ Sized(2 * r) /\ Sized(h)
      /\ size.width = 2 * r /\ size.height = h
      /\ now \in [0..(r * h - 1) -> Shades] /\ last \in [0..(r * h - 1) -> Shades]
  BY DEF Canvas, Content
<1> USE <1>0
<1> DEFINE changed == {i \in DOMAIN now : now[i] # last[i]}
           A == {i % r : i \in changed}
           B == {i \div r : i \in changed}
           af == Span(A).from
           ac == Span(A).count
           df == Span(B).from
           dc == Span(B).count
           Source(i) == (df + i \div ac) * r + af + (i % ac)
           p == Changed(now, last, size, size)
<1>1. changed # {}
  OBVIOUS
<1>2. /\ A \in SUBSET (0..(r - 1)) /\ A # {} /\ B \in SUBSET (0..(h - 1)) /\ B # {}
      /\ \A i \in changed : i % r \in A /\ i \div r \in B
  <2>1. \A i \in changed : i % r \in 0..(r - 1) /\ i \div r \in 0..(h - 1)
    BY RowOf
  <2> HIDE DEF changed
  <2> QED
    BY <1>1, <2>1
<1>3. /\ af \in 0..(r - 1) /\ ac \in 1..r /\ af + ac <= r
      /\ \A i \in changed : (i % r) - af \in 0..(ac - 1)
  <2> HIDE DEF A, B, changed
  <2>1. r - 1 \in Nat /\ r - 1 + 1 = r
    OBVIOUS
  <2>2. /\ af \in 0..(r - 1) /\ ac \in 1..(r - 1 + 1) /\ af + ac <= r - 1 + 1
        /\ \A k \in A : k - af \in 0..(ac - 1)
    BY <1>2, <2>1, SpanFacts, Zenon
  <2> HIDE DEF af, ac
  <2> QED
    BY <1>2, <2>1, <2>2
<1>4. /\ df \in 0..(h - 1) /\ dc \in 1..h /\ df + dc <= h
      /\ \A i \in changed : (i \div r) - df \in 0..(dc - 1)
  <2> HIDE DEF A, B, changed
  <2>1. h - 1 \in Nat /\ h - 1 + 1 = h
    OBVIOUS
  <2>2. /\ df \in 0..(h - 1) /\ dc \in 1..(h - 1 + 1) /\ df + dc <= h - 1 + 1
        /\ \A k \in B : k - df \in 0..(dc - 1)
    BY <1>2, <2>1, SpanFacts, Zenon
  <2> HIDE DEF df, dc
  <2> QED
    BY <1>2, <2>1, <2>2
<1>5. (2 * r) \div 2 = r /\ (2 * r) % 2 = 0
  OBVIOUS
<1>6. p = [x |-> 2 * af, y |-> df, width |-> 2 * ac, height |-> dc,
           pixels |-> [i \in 0..(ac * dc - 1) |-> now[Source(i)]]]
  <2>1. /\ size.width \div 2 = r /\ size.width % 2 = 0 /\ size.height = h
        /\ DOMAIN now = 0..(r * h - 1) /\ DOMAIN last = DOMAIN now
    BY <1>5
  <2>2. \E i \in DOMAIN now : now[i] # last[i]
    BY <1>1
  <2>3. Changed(now, last, size, size) = Part(now, last, size.width \div 2)
    <3> HIDE DEF changed, A, B, af, ac, df, dc, p
    <3>1. /\ size.width % 2 = 0
          /\ DOMAIN now = 0..((size.width \div 2) * size.height - 1) /\ DOMAIN last = DOMAIN now
      BY <2>1, Zenon
    <3>2. {i \in DOMAIN now : now[i] # last[i]} # {}
      BY <2>2
    <3> QED
      BY <3>1, <3>2, Zenon DEF Changed, Part
  <2>4. Changed(now, last, size, size) = Part(now, last, r)
    BY <2>1, <2>3, Zenon
  <2> QED
    BY <2>4, Zenon DEF Part
<1> HIDE DEF af, ac, df, dc, A, B, p, changed
<1>7. (2 * ac * dc) % 2 = 0 /\ (2 * ac * dc) \div 2 = ac * dc
  <2>1. PICK q \in Int : q = ac * dc
    BY <1>3, <1>4
  <2>2. 2 * ac * dc = 2 * q
    BY <1>3, <1>4, <2>1
  <2>3. (2 * q) % 2 = 0 /\ (2 * q) \div 2 = q
    OBVIOUS
  <2> QED
    BY <2>1, <2>2, <2>3
<1>8. Buildable(p)
  <2>1. /\ p.x = 2 * af /\ p.y = df /\ p.width = 2 * ac /\ p.height = dc
        /\ DOMAIN p.pixels = 0..(ac * dc - 1)
    BY <1>6
  <2>2. p.x \in Nat /\ p.y \in Nat /\ p.width \in Nat \ {0} /\ p.height \in Nat \ {0}
    BY <1>3, <1>4, <2>1
  <2>3. p.x + p.width <= 2 * r /\ p.y + p.height <= h
    BY <1>3, <1>4, <2>1
  <2>4. (p.width * p.height) % 2 = 0 /\ DOMAIN p.pixels = 0..((p.width * p.height) \div 2 - 1)
    BY <1>7, <2>1
  <2> QED
    BY <2>2, <2>3, <2>4, RectangleBuildable
<1>9. (2 * af) \div 2 = af /\ (2 * ac) \div 2 = ac
  BY <1>3
<1>10. ASSUME NEW i \in 0..(r * h - 1)
       PROVE  Painted(last, p, r)[i] = now[i]
  <2> DEFINE x == (i % r) - af
             y == (i \div r) - df
  <2>1. i \div r \in Int /\ i % r \in Int /\ (i \div r) * r + (i % r) = i
    <3>1. r * h - 1 \in Int /\ i \in Int
      OBVIOUS
    <3>2. i \div r \in Int /\ i % r \in 0..(r - 1)
      BY <3>1, Division
    <3>3. (i \div r) * r + (i % r) = i
      BY <3>1, Division
    <3> QED
      BY <3>2, <3>3
  <2>2. Painted(last, p, r)[i]
          = IF x \in 0..(ac - 1) /\ y \in 0..(dc - 1) THEN p.pixels[y * ac + x] ELSE last[i]
    <3>1. p.x = 2 * af /\ p.y = df /\ p.width = 2 * ac /\ p.height = dc
      BY <1>6
    <3>2. (i % r) - p.x \div 2 = x /\ (i \div r) - p.y = y /\ p.width \div 2 = ac /\ p.height = dc
      BY <1>9, <3>1
    <3>3. i \in DOMAIN last
      OBVIOUS
    <3>4. Painted(last, p, r)[i]
            = IF /\ (i % r) - p.x \div 2 \in 0..(p.width \div 2 - 1)
                 /\ (i \div r) - p.y \in 0..(p.height - 1)
              THEN p.pixels[((i \div r) - p.y) * (p.width \div 2) + ((i % r) - p.x \div 2)]
              ELSE last[i]
      BY <3>3, PaintedByte
    <3> HIDE DEF x, y
    <3> QED
      BY <3>2, <3>4
  <2>3. CASE x \in 0..(ac - 1) /\ y \in 0..(dc - 1)
    <3> HIDE DEF x, y
    <3>0. ac \in Nat \ {0} /\ dc \in Nat /\ y \in Int
      BY <1>3, <1>4, <2>3
    <3>1. y * ac + x \in 0..(ac * dc - 1)
      BY <2>3, <3>0, RowMajor
    <3>2. (y * ac + x) \div ac = y /\ (y * ac + x) % ac = x
      BY <2>3, <3>0, Divided
    <3>3. Source(y * ac + x) = i
      <4>1. Source(y * ac + x) = (df + y) * r + af + x
        BY <3>2
      <4>2. df + y = i \div r /\ af + x = i % r
        BY <1>3, <1>4, <2>1 DEF x, y
      <4>3. (df + y) * r + af + x = (df + y) * r + (af + x)
        BY <1>3, <1>4, <2>3
      <4> QED
        BY <2>1, <4>1, <4>2, <4>3
    <3>4. p.pixels[y * ac + x] = now[Source(y * ac + x)]
      BY <1>6, <3>1
    <3> QED
      BY <2>2, <2>3, <3>3, <3>4
  <2>4. CASE ~(x \in 0..(ac - 1) /\ y \in 0..(dc - 1))
    <3>1. i \notin changed
      BY <1>3, <1>4, <2>4
    <3>2. now[i] = last[i]
      BY <3>1 DEF changed
    <3> QED
      BY <2>2, <2>4, <3>2
  <2> QED
    BY <2>3, <2>4
<1>11. Painted(last, p, r) = [i \in 0..(r * h - 1) |-> Painted(last, p, r)[i]]
  BY PaintedDomain
<1>12. Painted(last, p, r) = now
  BY <1>10, <1>11
<1> QED
  BY <1>8, <1>12 DEF p
-----------------------------------------------------------------------------
(* Rounding *)

\* A factor keeps the order.
LEMMA Times ==
  ASSUME NEW d \in Nat, NEW a \in Int, NEW b \in Int, a <= b
  PROVE  a * d <= b * d
  OBVIOUS

\* What a division reaches.
LEMMA Floor ==
  ASSUME NEW d \in Nat \ {0}, NEW n \in Int, NEW q \in Int
  PROVE  n \div d >= q <=> n >= q * d
<1> DEFINE k == n \div d
<1>1. k \in Int /\ n % d \in 0..(d - 1) /\ n = k * d + (n % d)
  BY Division
<1> HIDE DEF k
<1>2. ASSUME k >= q PROVE n >= q * d
  <2>1. q * d <= k * d
    BY <1>1, <1>2, Times
  <2> QED
    BY <1>1, <2>1
<1>3. ASSUME ~(k >= q) PROVE ~(n >= q * d)
  <2>1. (k + 1) * d <= q * d
    BY <1>1, <1>3, Times
  <2>2. (k + 1) * d = k * d + d
    BY <1>1
  <2> QED
    BY <1>1, <2>1, <2>2
<1> QED
  BY <1>2, <1>3 DEF k

\* Rounding reaches a number from half below it on.
LEMMA RoundedFloor ==
  ASSUME NEW n \in Nat, NEW d \in Nat \ {0}, NEW q \in Int
  PROVE  /\ Rounded(n, d) \in Nat
         /\ Rounded(n, d) >= q <=> 2 * n + d >= 2 * (q * d)
<1>1. 2 * d \in Nat \ {0} /\ 2 * n + d \in Int /\ q * (2 * d) = 2 * (q * d)
  OBVIOUS
<1>2. Rounded(n, d) \in Nat
  BY <1>1, Division DEF Rounded
<1>3. (2 * n + d) \div (2 * d) >= q <=> 2 * n + d >= q * (2 * d)
  BY <1>1, Floor
<1> QED
  BY <1>1, <1>2, <1>3 DEF Rounded

\* Rounding does not change an order, nor pass a whole number.
LEMMA RoundedOrder ==
  ASSUME NEW n \in Nat, NEW m \in Nat, NEW d \in Nat \ {0}, NEW k \in Nat
  PROVE  /\ Rounded(n, d) \in Nat
         /\ n <= m => Rounded(n, d) <= Rounded(m, d)
         /\ n <= k * d => Rounded(n, d) <= k
         /\ n >= k * d => Rounded(n, d) >= k
<1> DEFINE q == Rounded(n, d)
<1>1. q \in Nat
  BY RoundedFloor
<1>2. ASSUME n <= m PROVE q <= Rounded(m, d)
  <2>1. 2 * n + d >= 2 * (q * d)
    BY <1>1, RoundedFloor
  <2>2. q * d \in Int
    BY <1>1
  <2>3. 2 * m + d >= 2 * (q * d)
    BY <1>2, <2>1, <2>2
  <2>4. Rounded(m, d) >= q /\ Rounded(m, d) \in Nat
    BY <1>1, <2>3, RoundedFloor
  <2> QED
    BY <1>1, <2>4
<1>3. ASSUME n <= k * d PROVE q <= k
  <2>1. (k + 1) * d = k * d + d /\ k * d \in Nat
    OBVIOUS
  <2>2. ~(2 * n + d >= 2 * ((k + 1) * d))
    BY <1>3, <2>1
  <2>3. ~(q >= k + 1)
    BY <2>2, RoundedFloor
  <2> QED
    BY <1>1, <2>3
<1>4. ASSUME n >= k * d PROVE q >= k
  <2>1. 2 * n + d >= 2 * (k * d)
    BY <1>4
  <2> QED
    BY <2>1, RoundedFloor
<1> QED
  BY <1>1, <1>2, <1>3, <1>4

\* Between two shades, in any proportion, there is no shade beyond them.
LEMMA Mixed ==
  ASSUME NEW m \in Nat, NEW a \in 0..m, NEW b \in 0..m, NEW d \in Nat, NEW f \in 0..d
  PROVE  a * (d - f) + b * f \in 0..(m * d)
<1>1. 0 * (d - f) <= a * (d - f) /\ a * (d - f) <= m * (d - f)
  BY Times
<1>2. 0 * f <= b * f /\ b * f <= m * f
  BY Times
<1>3. m * (d - f) + m * f = m * d /\ m * d \in Int
  OBVIOUS
<1>4. a * (d - f) \in Int /\ b * f \in Int /\ m * (d - f) \in Int /\ m * f \in Int
  OBVIOUS
<1>5. 0 * (d - f) = 0 /\ 0 * f = 0
  OBVIOUS
<1> QED
  BY <1>1, <1>2, <1>3, <1>4, <1>5
-----------------------------------------------------------------------------
(* Pictures *)

\* Turning a picture leaves it one.
LEMMA RotateShaded ==
  ASSUME NEW pic, Shaded(pic), NEW degrees \in {0, 90, 180, 270}
  PROVE  Shaded(Rotate(pic, degrees))
<1> DEFINE w == pic.width
           h == pic.height
<1>1. w \in Nat \ {0} /\ h \in Nat \ {0} /\ pic.at \in [Places(w, h) -> 0..255]
  BY DEF Shaded
<1> HIDE DEF w, h
<1>2. \A x \in 0..(w - 1), y \in 0..(h - 1) : pic.at[<<x, y>>] \in 0..255
  BY <1>1, SMTT(30) DEF Places
<1>3. CASE degrees = 0
  BY <1>3 DEF Rotate
<1>4. CASE degrees = 180
  <2>1. Rotate(pic, degrees)
          = [width |-> w, height |-> h,
             at |-> [p \in Places(w, h) |-> pic.at[<<w - 1 - p[1], h - 1 - p[2]>>]]]
    BY <1>4 DEF Rotate, Picture, w, h
  <2>2. \A p \in Places(w, h) : p[1] \in 0..(w - 1) /\ p[2] \in 0..(h - 1)
    BY DEF Places
  <2>3. ASSUME NEW p \in Places(w, h) PROVE pic.at[<<w - 1 - p[1], h - 1 - p[2]>>] \in 0..255
    <3>1. w - 1 - p[1] \in 0..(w - 1) /\ h - 1 - p[2] \in 0..(h - 1)
      BY <1>1, <2>2, SMTT(30)
    <3> QED
      BY <1>2, <3>1
  <2> QED
    BY <1>1, <2>1, <2>3 DEF Shaded
<1>5. CASE degrees = 90
  <2>1. Rotate(pic, degrees)
          = [width |-> h, height |-> w,
             at |-> [p \in Places(h, w) |-> pic.at[<<p[2], h - 1 - p[1]>>]]]
    BY <1>5 DEF Rotate, Picture, w, h
  <2>2. \A p \in Places(h, w) : p[1] \in 0..(h - 1) /\ p[2] \in 0..(w - 1)
    BY DEF Places
  <2>3. ASSUME NEW p \in Places(h, w) PROVE pic.at[<<p[2], h - 1 - p[1]>>] \in 0..255
    <3>1. p[2] \in 0..(w - 1) /\ h - 1 - p[1] \in 0..(h - 1)
      BY <1>1, <2>2, SMTT(30)
    <3> QED
      BY <1>2, <3>1
  <2> QED
    BY <1>1, <2>1, <2>3 DEF Shaded
<1>6. CASE degrees = 270
  <2>1. Rotate(pic, degrees)
          = [width |-> h, height |-> w,
             at |-> [p \in Places(h, w) |-> pic.at[<<w - 1 - p[2], p[1]>>]]]
    BY <1>6 DEF Rotate, Picture, w, h
  <2>2. \A p \in Places(h, w) : p[1] \in 0..(h - 1) /\ p[2] \in 0..(w - 1)
    BY DEF Places
  <2>3. ASSUME NEW p \in Places(h, w) PROVE pic.at[<<w - 1 - p[2], p[1]>>] \in 0..255
    <3>1. w - 1 - p[2] \in 0..(w - 1) /\ p[1] \in 0..(h - 1)
      BY <1>1, <2>2
    <3> QED
      BY <1>2, <3>1
  <2> QED
    BY <1>1, <2>1, <2>3 DEF Shaded
<1> QED
  BY <1>3, <1>4, <1>5, <1>6

\* Where the whole of a picture is drawn to.
LEMMA FitPlaces ==
  ASSUME NEW pic, Shaded(pic), NEW w \in Nat \ {0}, NEW h \in Nat \ {0}, NEW fit,
         NEW to, to = Fit(fit, pic, w, h)
  PROVE  /\ to.x \in Int /\ to.y \in Int /\ to.width \in Nat \ {0} /\ to.height \in Nat \ {0}
         /\ w - to.width - 2 * to.x \in {-1, 0, 1} /\ h - to.height - 2 * to.y \in {-1, 0, 1}
         /\ fit = "contain" => to.width <= w /\ to.height <= h
         /\ fit = "cover" => to.width >= w /\ to.height >= h
<1> DEFINE pw == pic.width
           ph == pic.height
           across == Rounded(pw * h, ph)
           down == Rounded(ph * w, pw)
           narrow == w * ph <= h * pw
<1>1. pw \in Nat \ {0} /\ ph \in Nat \ {0}
  BY DEF Shaded
<1>2. /\ pw * h \in Nat /\ ph * w \in Nat
      /\ w * ph = ph * w /\ h * pw = pw * h
  BY <1>1
<1> HIDE DEF pw, ph
<1>3. across \in Nat /\ (~narrow => across <= w) /\ (narrow => across >= w)
  <2>1. across \in Nat /\ (pw * h <= w * ph => across <= w) /\ (pw * h >= w * ph => across >= w)
    BY <1>1, <1>2, RoundedOrder
  <2> QED
    BY <1>1, <1>2, <2>1
<1>4. down \in Nat /\ (narrow => down <= h) /\ (~narrow => down >= h)
  <2>1. down \in Nat /\ (ph * w <= h * pw => down <= h) /\ (ph * w >= h * pw => down >= h)
    BY <1>1, <1>2, RoundedOrder
  <2> QED
    BY <1>1, <1>2, <2>1
<1> DEFINE scaled == fit \in {"contain", "cover"}
           byWidth == ByWidth(fit, pic, w, h)
           dw == IF scaled /\ ~byWidth THEN AtLeast1(across) ELSE w
           dh == IF scaled /\ byWidth THEN AtLeast1(down) ELSE h
<1>5. to = [x |-> Halved(w - dw), y |-> Halved(h - dh), width |-> dw, height |-> dh]
  BY DEF Fit, pw, ph
<1>6. byWidth <=> (fit = "contain" <=> narrow)
  BY DEF ByWidth, pw, ph
<1> HIDE DEF across, down, narrow, byWidth
<1>7. dw \in Nat \ {0} /\ dh \in Nat \ {0}
  BY <1>3, <1>4 DEF AtLeast1
<1>8. fit = "contain" => dw <= w /\ dh <= h
  BY <1>3, <1>4, <1>6 DEF AtLeast1
<1>9. fit = "cover" => dw >= w /\ dh >= h
  BY <1>3, <1>4, <1>6 DEF AtLeast1
<1> HIDE DEF dw, dh
<1>10. \A n \in Int : Halved(n) \in Int /\ n - 2 * Halved(n) \in {-1, 0, 1}
  BY DEF Halved
<1>11. w - dw \in Int /\ h - dh \in Int
  BY <1>7
<1> QED
  BY <1>5, <1>7, <1>8, <1>9, <1>10, <1>11
\* Between pixels there is no shade beyond theirs.
LEMMA SampleShaded ==
  ASSUME NEW pic, Shaded(pic), NEW dw \in Nat \ {0}, NEW dh \in Nat \ {0},
         NEW dx \in Int, NEW dy \in Int
  PROVE  Sample(pic, dx, dw, dy, dh) \in 0..255
<1> DEFINE nx == (2 * dx + 1) * pic.width - dw
           ny == (2 * dy + 1) * pic.height - dh
           x0 == nx \div (2 * dw)
           y0 == ny \div (2 * dh)
           fx == nx % (2 * dw)
           fy == ny % (2 * dh)
           Get(x, y) == pic.at[<<Bound(x, 0, pic.width - 1), Bound(y, 0, pic.height - 1)>>]
           Row(y) == Get(x0, y) * (2 * dw - fx) + Get(x0 + 1, y) * fx
           sum == Row(y0) * (2 * dh - fy) + Row(y0 + 1) * fy
<1>1. Sample(pic, dx, dw, dy, dh) = Rounded(sum, 4 * dw * dh)
  BY DEF Sample
<1>2. pic.width \in Nat \ {0} /\ pic.height \in Nat \ {0}
  BY DEF Shaded
<1>3. 2 * dw \in Nat \ {0} /\ 2 * dh \in Nat \ {0} /\ nx \in Int /\ ny \in Int
  BY <1>2
<1> HIDE DEF nx, ny
<1>4. x0 \in Int /\ fx \in 0..(2 * dw) /\ y0 \in Int /\ fy \in 0..(2 * dh)
  <2>1. PICK d, e \in Nat \ {0} : d = 2 * dw /\ e = 2 * dh
    BY <1>3
  <2>2. nx \div d \in Int /\ nx % d \in 0..(d - 1) /\ ny \div e \in Int /\ ny % e \in 0..(e - 1)
    BY <1>3, Division
  <2>3. 0..(d - 1) \subseteq 0..d /\ 0..(e - 1) \subseteq 0..e
    OBVIOUS
  <2> QED
    BY <2>1, <2>2, <2>3
<1>5. \A x, y \in Int : Get(x, y) \in 0..255
  <2>1. \A x, y \in Int : /\ Bound(x, 0, pic.width - 1) \in 0..(pic.width - 1)
                          /\ Bound(y, 0, pic.height - 1) \in 0..(pic.height - 1)
    BY <1>2 DEF Bound
  <2>2. \A i \in 0..(pic.width - 1), j \in 0..(pic.height - 1) : pic.at[<<i, j>>] \in 0..255
    BY DEF Shaded, Places
  <2> QED
    BY <2>1, <2>2
<1> HIDE DEF x0, y0, fx, fy, Get
<1>6. \A y \in Int : Row(y) \in 0..(255 * (2 * dw))
  <2> TAKE y \in Int
  <2>1. PICK m \in Nat, d \in Nat : m = 255 /\ d = 2 * dw
    BY <1>3
  <2>2. fx \in 0..d
    BY <1>4, <2>1
  <2>3. Get(x0, y) \in 0..m /\ Get(x0 + 1, y) \in 0..m
    <3>1. x0 \in Int /\ x0 + 1 \in Int
      BY <1>4
    <3> QED
      BY <1>5, <2>1, <3>1, Zenon
  <2>4. Get(x0, y) * (d - fx) + Get(x0 + 1, y) * fx \in 0..(m * d)
    BY <2>2, <2>3, Mixed, Zenon
  <2> QED
    BY <2>1, <2>4, Zenon
<1> HIDE DEF Row
<1>7. sum \in 0..((255 * (2 * dw)) * (2 * dh))
  <2>1. PICK m \in Nat, d \in Nat : m = 255 * (2 * dw) /\ d = 2 * dh
    BY <1>3
  <2>2. fy \in 0..d
    BY <1>4, <2>1
  <2>3. Row(y0) \in 0..m /\ Row(y0 + 1) \in 0..m
    <3>1. y0 \in Int /\ y0 + 1 \in Int
      BY <1>4
    <3> QED
      BY <1>6, <2>1, <3>1, Zenon
  <2>4. Row(y0) * (d - fy) + Row(y0 + 1) * fy \in 0..(m * d)
    BY <2>2, <2>3, Mixed, Zenon
  <2> QED
    BY <2>1, <2>4, Zenon
<1> HIDE DEF sum
<1>8. PICK d \in Nat \ {0} : d = 4 * dw * dh
  OBVIOUS
<1>9. (255 * (2 * dw)) * (2 * dh) = 255 * d
  BY <1>8
<1>10. sum \in Nat /\ sum <= 255 * d
  BY <1>7, <1>8, <1>9
<1>11. Rounded(sum, d) \in Nat /\ Rounded(sum, d) <= 255
  BY <1>10, RoundedOrder
<1> QED
  BY <1>1, <1>8, <1>11

\* What stands on the display is a picture of its size.
LEMMA PlacementShaded ==
  ASSUME NEW pic, Shaded(pic), NEW w \in Nat \ {0}, NEW h \in Nat \ {0}, NEW settings
  PROVE  \E at \in [Places(w, h) -> 0..255] :
           Placement(pic, w, h, settings) = [width |-> w, height |-> h, at |-> at]
<1> DEFINE to == Fit(settings.fit, pic, w, h)
           bg == IF settings.background = "white" THEN 255 ELSE 0
           In(x, y) == x - to.x \in 0..(to.width - 1) /\ y - to.y \in 0..(to.height - 1)
           Grey(x, y) == IF In(x, y) THEN Sample(pic, x - to.x, to.width, y - to.y, to.height) ELSE bg
           Shade(x, y) == IF settings.invert THEN 255 - Grey(x, y) ELSE Grey(x, y)
           at == [p \in Places(w, h) |-> Shade(p[1], p[2])]
<1>1. Placement(pic, w, h, settings) = [width |-> w, height |-> h, at |-> at]
  BY DEF Placement, Picture
<1>2. to.x \in Int /\ to.y \in Int /\ to.width \in Nat \ {0} /\ to.height \in Nat \ {0}
  BY FitPlaces
<1> HIDE DEF to
<1>3. \A x, y \in Int : Grey(x, y) \in 0..255
  <2> TAKE x, y \in Int
  <2>1. x - to.x \in Int /\ y - to.y \in Int
    BY <1>2
  <2>2. Sample(pic, x - to.x, to.width, y - to.y, to.height) \in 0..255
    BY <1>2, <2>1, SampleShaded
  <2>3. bg \in 0..255
    OBVIOUS
  <2> HIDE DEF bg
  <2> QED
    BY <2>2, <2>3
<1> HIDE DEF Grey
<1>4. \A x, y \in Int : Shade(x, y) \in 0..255
  <2> TAKE x, y \in Int
  <2>1. PICK g \in 0..255 : g = Grey(x, y)
    BY <1>3
  <2>2. 255 - g \in 0..255
    OBVIOUS
  <2> QED
    BY <2>1, <2>2
<1> HIDE DEF Shade
<1>5. \A p \in Places(w, h) : p[1] \in Int /\ p[2] \in Int
  BY DEF Places
<1>6. at \in [Places(w, h) -> 0..255]
  <2>1. \A p \in Places(w, h) : Shade(p[1], p[2]) \in 0..255
    BY <1>4, <1>5
  <2> QED
    BY <2>1
<1> HIDE DEF at
<1> QED
  BY <1>1, <1>6

\* Levels of the panel keep the order of the shades.
LEMMA LevelOrder ==
  ASSUME NEW g \in 0..255, NEW k \in 0..255
  PROVE  Level(g) \in 0..15 /\ (g <= k => Level(g) <= Level(k))
<1> DEFINE L(n) == Rounded((10 * n - 1) \div 11, 17)
<1>1. \A n \in 1..255 : (10 * n - 1) \div 11 \in Nat /\ (10 * n - 1) \div 11 <= 15 * 17
  OBVIOUS
<1>2. \A n \in 1..255 : L(n) \in 0..15
  <2> TAKE n \in 1..255
  <2>1. PICK m \in Nat : m = (10 * n - 1) \div 11 /\ m <= 15 * 17
    BY <1>1
  <2>2. Rounded(m, 17) \in Nat /\ Rounded(m, 17) <= 15
    BY <2>1, RoundedOrder
  <2> QED
    BY <2>1, <2>2
<1>3. ASSUME g # 0, g <= k
      PROVE  L(g) <= L(k)
  <2>1. PICK m, n \in Nat : m = (10 * g - 1) \div 11 /\ n = (10 * k - 1) \div 11
    BY <1>1, <1>3
  <2>2. m <= n
    BY <1>3, <2>1
  <2>3. Rounded(m, 17) <= Rounded(n, 17)
    BY <2>2, RoundedOrder
  <2> QED
    BY <2>1, <2>3
<1>4. \A n \in 0..255 : Level(n) = IF n = 0 THEN 0 ELSE L(n)
  BY DEF Level
<1> HIDE DEF L
<1> QED
  BY <1>2, <1>3, <1>4, SMTT(30)
\* A level, stretched over the range of those that occur.
Stretched(levels, n) == Rounded((n - LevelRange(levels).low) * 255, LevelRange(levels).span)

\* Stretching keeps the order, and where there are several levels it reaches both ends.
LEMMA StretchedOrder ==
  ASSUME NEW levels \in SUBSET (0..15), NEW a \in levels, NEW b \in levels
  PROVE  /\ Stretched(levels, a) \in 0..255
         /\ a <= b => Stretched(levels, a) <= Stretched(levels, b)
         /\ a # b => \E lo, hi \in levels : Stretched(levels, lo) = 0 /\ Stretched(levels, hi) = 255
<1> DEFINE lo == CHOOSE n \in levels : \A k \in levels : n <= k
           hi == CHOOSE n \in levels : \A k \in levels : k <= n
           range == LevelRange(levels)
           S(n) == Rounded((n - range.low) * 255, range.span)
<1>1. lo \in levels /\ \A k \in levels : lo <= k
  BY Extremes
<1>2. hi \in levels /\ \A k \in levels : k <= hi
  BY Extremes
<1>3. range = IF lo = hi THEN [low |-> 0, span |-> 15] ELSE [low |-> lo, span |-> hi - lo]
  BY DEF LevelRange
<1> HIDE DEF lo, hi, range
<1>4. PICK low \in 0..15, span \in 1..15 :
        /\ range.low = low /\ range.span = span
        /\ \A n \in levels : n - low \in 0..span
        /\ lo # hi => low = lo /\ span = hi - lo
  <2>1. lo \in 0..15 /\ hi \in 0..15 /\ lo <= hi
    BY <1>1, <1>2
  <2>2. CASE lo = hi
    <3>1. range.low = 0 /\ range.span = 15
      BY <1>3, <2>2
    <3> QED
      BY <2>2, <3>1
  <2>3. CASE lo # hi
    <3>1. range.low = lo /\ range.span = hi - lo
      BY <1>3, <2>3
    <3>2. \A n \in levels : n - lo \in 0..(hi - lo)
      BY <1>1, <1>2, <2>1
    <3>3. hi - lo \in 1..15
      BY <2>1, <2>3
    <3> QED
      BY <2>1, <2>3, <3>1, <3>2, <3>3
  <2> QED
    BY <2>2, <2>3
<1>5. \A n \in levels : Stretched(levels, n) = Rounded((n - low) * 255, span)
  BY <1>4 DEF Stretched, range
<1>6. \A n \in levels : /\ (n - low) * 255 \in Nat /\ (n - low) * 255 <= 255 * span
                        /\ \A k \in levels : n <= k => (n - low) * 255 <= (k - low) * 255
  BY <1>4
<1>7. \A n \in levels : Rounded((n - low) * 255, span) \in 0..255
  <2> TAKE n \in levels
  <2>1. PICK m \in Nat : m = (n - low) * 255 /\ m <= 255 * span
    BY <1>6
  <2>2. Rounded(m, span) \in Nat /\ Rounded(m, span) <= 255
    BY <2>1, RoundedOrder
  <2> QED
    BY <2>1, <2>2
<1>8. ASSUME a <= b PROVE Rounded((a - low) * 255, span) <= Rounded((b - low) * 255, span)
  <2>1. PICK m, n \in Nat : m = (a - low) * 255 /\ n = (b - low) * 255 /\ m <= n
    BY <1>6, <1>8
  <2>2. Rounded(m, span) <= Rounded(n, span)
    BY <2>1, RoundedOrder
  <2> QED
    BY <2>1, <2>2
<1>9. ASSUME a # b
      PROVE  /\ lo \in levels /\ Rounded((lo - low) * 255, span) = 0
             /\ hi \in levels /\ Rounded((hi - low) * 255, span) = 255
  <2>1. lo # hi
    BY <1>1, <1>2, <1>9
  <2>2. (lo - low) * 255 = 0 /\ (hi - low) * 255 = 255 * span
    BY <1>1, <1>2, <1>4, <2>1
  <2>3. Rounded(0, span) \in Nat /\ (0 <= 0 * span => Rounded(0, span) <= 0)
    BY RoundedOrder
  <2>4. PICK m \in Nat : m = 255 * span
    OBVIOUS
  <2>5. Rounded(m, span) \in Nat /\ Rounded(m, span) <= 255 /\ Rounded(m, span) >= 255
    BY <2>4, RoundedOrder
  <2> QED
    BY <1>1, <1>2, <2>2, <2>3, <2>4, <2>5
<1>10. Stretched(levels, a) \in 0..255
  BY <1>5, <1>7
<1>11. a <= b => Stretched(levels, a) <= Stretched(levels, b)
  BY <1>5, <1>8
<1>12. a # b => /\ lo \in levels /\ Stretched(levels, lo) = 0
                /\ hi \in levels /\ Stretched(levels, hi) = 255
  <2>1. /\ Stretched(levels, lo) = Rounded((lo - low) * 255, span)
        /\ Stretched(levels, hi) = Rounded((hi - low) * 255, span)
    BY <1>1, <1>2, <1>5, Zenon
  <2> QED
    BY <1>9, <2>1, ZenonT(60)
<1> QED
  BY <1>10, <1>11, <1>12

\* What the display shows at a place: the shade there, stretched or not, as one of
\* sixteen levels.
Tone(at, rendering, p) ==
  Rounded(IF rendering = "eink" THEN Stretched({Level(at[q]) : q \in DOMAIN at}, Level(at[p]))
          ELSE at[p], 17)

\* Between placing and inking a picture every pixel takes the tone of its place (imageproc Process).
LEMMA ProcessAt ==
  ASSUME NEW w, NEW h, NEW settings, NEW pic, NEW at,
         Placement(Rotate(pic, settings.rotation), w, h, settings)
           = [width |-> w, height |-> h, at |-> at]
  PROVE  Process(pic, w, h, settings).at
           = [p \in DOMAIN at |-> (Tone(at, settings.rendering, p) * 17) \div 17]
<1> DEFINE placed == [width |-> w, height |-> h, at |-> at]
           levels == {Level(at[q]) : q \in DOMAIN at}
<1>1. Beautify(placed) = [placed EXCEPT !.at = [p \in DOMAIN at |-> Stretched(levels, Level(at[p]))]]
  BY DEF Beautify, Stretched
<1> DEFINE stretched == [p \in DOMAIN at |-> Stretched(levels, Level(at[p]))]
           tones == IF settings.rendering = "eink" THEN stretched ELSE at
<1>2. (IF settings.rendering = "eink" THEN Beautify(placed) ELSE placed)
        = [width |-> w, height |-> h, at |-> tones]
  BY <1>1
<1>3. DOMAIN tones = DOMAIN at
  OBVIOUS
<1>4. \A p \in DOMAIN at : Rounded(tones[p], 17) = Tone(at, settings.rendering, p)
  BY DEF Tone
<1> HIDE DEF tones
<1>5. Quantize([width |-> w, height |-> h, at |-> tones])
        = [width |-> w, height |-> h, at |-> [p \in DOMAIN tones |-> Rounded(tones[p], 17) * 17]]
  BY DEF Quantize
<1>6. Process(pic, w, h, settings)
        = [[width |-> w, height |-> h, at |-> [p \in DOMAIN tones |-> Rounded(tones[p], 17) * 17]]
             EXCEPT !.at = [p \in DOMAIN tones |-> (Rounded(tones[p], 17) * 17) \div 17]]
  BY <1>2, <1>5 DEF Process
<1> QED
  BY <1>3, <1>4, <1>6

\* Of two places the lighter one is not shown darker, and where shades are stretched
\* and two of them are told apart, both ends of the range are shown.
TonesOrdered(places, at, rendering) ==
  \A p, q \in places :
    /\ Tone(at, rendering, p) \in 0..15
    /\ at[p] <= at[q] => Tone(at, rendering, p) <= Tone(at, rendering, q)
    /\ rendering = "eink" /\ Tone(at, rendering, p) # Tone(at, rendering, q) =>
         \E lo, hi \in places : Tone(at, rendering, lo) = 0 /\ Tone(at, rendering, hi) = 15

\* So it is for every picture of shades, whether they are stretched or not.
LEMMA ToneOrder ==
  ASSUME NEW w \in Nat \ {0}, NEW h \in Nat \ {0}, NEW at \in [Places(w, h) -> 0..255],
         NEW rendering
  PROVE  TonesOrdered(Places(w, h), at, rendering)
<1> SUFFICES ASSUME NEW p \in Places(w, h), NEW q \in Places(w, h)
             PROVE  /\ Tone(at, rendering, p) \in 0..15
                    /\ at[p] <= at[q] => Tone(at, rendering, p) <= Tone(at, rendering, q)
                    /\ rendering = "eink" /\ Tone(at, rendering, p) # Tone(at, rendering, q) =>
                         \E lo, hi \in Places(w, h) :
                           Tone(at, rendering, lo) = 0 /\ Tone(at, rendering, hi) = 15
  BY Zenon DEF TonesOrdered
<1> DEFINE levels == {Level(at[r]) : r \in Places(w, h)}
           Shade(r) == IF rendering = "eink" THEN Stretched(levels, Level(at[r])) ELSE at[r]
<1>1. \A r \in Places(w, h) : at[r] \in 0..255 /\ Level(at[r]) \in 0..15 /\ Level(at[r]) \in levels
  <2> TAKE r \in Places(w, h)
  <2>1. PICK g \in 0..255 : g = at[r]
    OBVIOUS
  <2>2. Level(g) \in 0..15
    BY LevelOrder, ZenonT(60)
  <2>3. Level(at[r]) \in levels
    OBVIOUS
  <2> HIDE DEF levels
  <2> QED
    BY <2>1, <2>2, <2>3, Zenon
<1>2. levels \in SUBSET (0..15)
  BY <1>1
<1>3. \A r \in Places(w, h) : Tone(at, rendering, r) = Rounded(Shade(r), 17)
  BY DEF Tone
<1>4. at[p] <= at[q] => Level(at[p]) <= Level(at[q])
  <2>1. PICK g \in 0..255, k \in 0..255 : g = at[p] /\ k = at[q]
    BY <1>1, Zenon
  <2>2. g <= k => Level(g) <= Level(k)
    BY LevelOrder, Zenon
  <2> QED
    BY <2>1, <2>2, Zenon
<1> HIDE DEF levels
<1>5. \A r \in Places(w, h) : Shade(r) \in 0..255
  BY <1>1, <1>2, StretchedOrder
<1>6. at[p] <= at[q] => Shade(p) <= Shade(q)
  <2>1. CASE rendering = "eink"
    BY <1>1, <1>2, <1>4, <2>1, StretchedOrder
  <2>2. CASE rendering # "eink"
    BY <2>2
  <2> QED
    BY <2>1, <2>2
<1>7. \A n \in 0..255 : Rounded(n, 17) \in 0..15
  BY DEF Rounded
<1>8. \A m, n \in 0..255 : m <= n => Rounded(m, 17) <= Rounded(n, 17)
  BY DEF Rounded
<1>9. Rounded(0, 17) = 0 /\ Rounded(255, 17) = 15
  BY DEF Rounded
<1>10. ASSUME rendering = "eink", Shade(p) # Shade(q)
       PROVE  \E lo, hi \in Places(w, h) : Shade(lo) = 0 /\ Shade(hi) = 255
  <2>1. Level(at[p]) # Level(at[q])
    BY <1>10
  <2>2. PICK m, n \in levels : Stretched(levels, m) = 0 /\ Stretched(levels, n) = 255
    BY <1>1, <1>2, <2>1, StretchedOrder
  <2>3. PICK lo \in Places(w, h) : m = Level(at[lo])
    BY DEF levels
  <2>4. PICK hi \in Places(w, h) : n = Level(at[hi])
    BY DEF levels
  <2> QED
    BY <1>10, <2>2, <2>3, <2>4
<1> HIDE DEF Shade
<1>11. Tone(at, rendering, p) \in 0..15
  BY <1>3, <1>5, <1>7, ZenonT(60)
<1>12. at[p] <= at[q] => Tone(at, rendering, p) <= Tone(at, rendering, q)
  <2>1. PICK m \in 0..255, n \in 0..255 : m = Shade(p) /\ n = Shade(q)
    BY <1>5, Zenon
  <2>2. Tone(at, rendering, p) = Rounded(m, 17) /\ Tone(at, rendering, q) = Rounded(n, 17)
    BY <1>3, <2>1, Zenon
  <2>3. at[p] <= at[q] => m <= n
    BY <1>6, <2>1, Zenon
  <2> QED
    BY <1>8, <2>2, <2>3, Zenon
<1>13. rendering = "eink" /\ Tone(at, rendering, p) # Tone(at, rendering, q) =>
         \E lo, hi \in Places(w, h) : Tone(at, rendering, lo) = 0 /\ Tone(at, rendering, hi) = 15
  BY <1>3, <1>9, <1>10
<1> QED
  BY <1>11, <1>12, <1>13

\* What the property says of a picture put on a display.
Kept(picture, settings, screen) ==
  LET w == screen.width
      h == screen.height
      turned == Rotate(picture, settings.rotation)
      to == Fit(settings.fit, turned, w, h)
      before == Placement(turned, w, h, settings).at
      after == Process(picture, w, h, settings).at
      Centred(start, length, whole) == whole - length - 2 * start \in {-1, 0, 1} IN
  /\ Centred(to.x, to.width, w) /\ Centred(to.y, to.height, h)
  /\ settings.fit = "contain" => to.width <= w /\ to.height <= h
  /\ settings.fit = "cover" => to.width >= w /\ to.height >= h
  /\ \A p, q \in Places(w, h) :
       /\ after[p] \in 0..15
       /\ before[p] <= before[q] => after[p] <= after[q]
       /\ settings.rendering = "eink" /\ after[p] # after[q]
            => {0, 15} \subseteq {after[r] : r \in Places(w, h)}

\* So a picture that is accepted comes out as the property asks, whichever way it is fitted and drawn.
LEMMA AcceptedKept ==
  ASSUME NEW picture, Shaded(picture), NEW settings, NEW screen,
         screen.width \in Nat, screen.height \in Nat,
         Accepted(picture, screen.width, screen.height, settings)
  PROVE  Kept(picture, settings, screen)
<1> DEFINE w == screen.width
           h == screen.height
           turned == Rotate(picture, settings.rotation)
           to == Fit(settings.fit, turned, w, h)
           before == Placement(turned, w, h, settings).at
           after == Process(picture, w, h, settings).at
<1>1. w \in Nat \ {0} /\ h \in Nat \ {0} /\ settings.rotation \in {0, 90, 180, 270}
  BY DEF Accepted, Valid
<1>2. Shaded(turned)
  BY <1>1, RotateShaded
<1> HIDE DEF turned, w, h
<1>3. /\ w - to.width - 2 * to.x \in {-1, 0, 1} /\ h - to.height - 2 * to.y \in {-1, 0, 1}
      /\ settings.fit = "contain" => to.width <= w /\ to.height <= h
      /\ settings.fit = "cover" => to.width >= w /\ to.height >= h
  BY <1>1, <1>2, FitPlaces
<1>4. PICK at \in [Places(w, h) -> 0..255] :
        Placement(turned, w, h, settings) = [width |-> w, height |-> h, at |-> at]
  BY <1>1, <1>2, PlacementShaded
<1>5. before = at
  BY <1>4
<1>r. PICK rendering : rendering = settings.rendering
  OBVIOUS
<1> DEFINE T(p) == Tone(at, rendering, p)
<1>6. \A p, q \in Places(w, h) :
        /\ T(p) \in 0..15
        /\ at[p] <= at[q] => T(p) <= T(q)
        /\ rendering = "eink" /\ T(p) # T(q) =>
             \E lo, hi \in Places(w, h) : T(lo) = 0 /\ T(hi) = 15
  <2>1. TonesOrdered(Places(w, h), at, rendering)
    BY <1>1, ToneOrder, Zenon
  <2> QED
    BY <2>1, Zenon DEF TonesOrdered
<1>7. after = [p \in Places(w, h) |-> (T(p) * 17) \div 17]
  BY <1>4, <1>r, ProcessAt DEF turned
<1> HIDE DEF T, after, before, to
<1>8. \A p \in Places(w, h) : after[p] = T(p) /\ after[p] \in 0..15
  <2>1. \A n \in 0..15 : (n * 17) \div 17 = n
    OBVIOUS
  <2>2. \A p \in Places(w, h) : T(p) \in 0..15
    BY <1>6
  <2> QED
    BY <1>7, <2>1, <2>2
<1> HIDE DEF T, after, before, to
<1>9. \A p, q \in Places(w, h) :
        /\ after[p] \in 0..15
        /\ before[p] <= before[q] => after[p] <= after[q]
        /\ settings.rendering = "eink" /\ after[p] # after[q]
             => {0, 15} \subseteq {after[r] : r \in Places(w, h)}
  <2> TAKE p, q \in Places(w, h)
  <2>1. ASSUME settings.rendering = "eink", after[p] # after[q]
        PROVE  {0, 15} \subseteq {after[r] : r \in Places(w, h)}
    <3>1. PICK lo, hi \in Places(w, h) : T(lo) = 0 /\ T(hi) = 15
      BY <1>6, <1>8, <1>r, <2>1
    <3>2. after[lo] = 0 /\ after[hi] = 15
      BY <1>8, <3>1
    <3> QED
      BY <3>2
  <2> QED
    BY <1>5, <1>6, <1>8, <2>1
<1> QED
  BY <1>3, <1>9 DEF Kept, to, before, after, turned, w, h
-----------------------------------------------------------------------------
(* Regions *)

\* The least and the greatest of a set are what they are called.
LEMMA LeastIs ==
  ASSUME NEW S \in SUBSET Int, NEW n \in S, \A k \in S : n <= k
  PROVE  Least(S) = n
<1>1. \A m \in S : (\A k \in S : m <= k) => m = n
  OBVIOUS
<1>2. Least(S) \in S /\ \A k \in S : Least(S) <= k
  BY Zenon DEF Least
<1> QED
  BY <1>1, <1>2

\* And the greatest is the one that no other exceeds.
LEMMA MostIs ==
  ASSUME NEW S \in SUBSET Int, NEW n \in S, \A k \in S : n >= k
  PROVE  Most(S) = n
<1>1. \A m \in S : (\A k \in S : m >= k) => m = n
  OBVIOUS
<1>2. Most(S) \in S /\ \A k \in S : Most(S) >= k
  BY Zenon DEF Most
<1> QED
  BY <1>1, <1>2

\* Four numbers have both.
LEMMA FourExtremes ==
  ASSUME NEW a \in Int, NEW b \in Int, NEW c \in Int, NEW d \in Int
  PROVE  \E lo, hi \in {a, b, c, d} : \A n \in {a, b, c, d} : lo <= n /\ n <= hi
<1>1. \E lo \in {a, b, c, d} : lo <= a /\ lo <= b /\ lo <= c /\ lo <= d
  OBVIOUS
<1>2. \E hi \in {a, b, c, d} : a <= hi /\ b <= hi /\ c <= hi /\ d <= hi
  OBVIOUS
<1> QED
  BY <1>1, <1>2

\* Of an interval between two pixels, and the pixels that it holds: e and f are 1 where its start or
\* its length may be a pixel off.
LEMMA Interval ==
  ASSUME NEW s \in Int, NEW l \in Int, NEW d \in Nat \ {0}, NEW n \in Int, NEW from \in Int, NEW w \in Int,
         NEW e \in {0, 1}, NEW f \in {0, 1},
         from - 2 * (s * d) >= 0, from - 2 * (s * d) < 2 * d + e, l * d - w >= 0, l * d - w < d + f
  PROVE  /\ 2 * (n * d) >= from /\ 2 * ((n + 1) * d) + e <= from + 2 * w => n >= s /\ n < s + l
         /\ n >= s /\ n < s + l => 2 * ((n + 1) * d) + e > from /\ 2 * (n * d) < from + 2 * w + f
<1>1. PICK k \in Int : k = s + l
  OBVIOUS
<1>2. k * d = s * d + l * d /\ (n + 1) * d = n * d + d
  BY <1>1
<1>3. /\ n >= s => n * d >= s * d
      /\ n < s => (n + 1) * d <= s * d
      /\ n >= k => n * d >= k * d
      /\ n < k => (n + 1) * d <= k * d
  BY <1>1
<1>4. PICK q \in Int, p \in Int, m \in Int : q = s * d /\ p = l * d /\ m = n * d
  OBVIOUS
<1> QED
  BY <1>1, <1>2, <1>3, <1>4

\* Along one axis: a start and a length that are rounded one by one, either of them possibly wrong,
\* and what they hold.
RoundedInterval(lo, hi, num, den, margin, start, length) ==
  \E a, b \in BOOLEAN :
    /\ start = (2 * lo * num + margin) \div (2 * den) - Slip(2 * lo * num + margin, 2 * den, a)
    /\ length = Ceiling((hi - lo) * num, den) + Slip((hi - lo) * num, den, b)

\* The pixels inside the interval, and those that the start and the length make; e and f say whether
\* those that only touch its ends are open.
HoldsPixels(lo, hi, num, den, margin, start, length, e, f) ==
  \A n \in Int :
    /\ 2 * n * den >= 2 * lo * num + margin /\ 2 * (n + 1) * den + e <= 2 * hi * num + margin
         => n >= start /\ n < start + length
    /\ n >= start /\ n < start + length
         => 2 * (n + 1) * den + e > 2 * lo * num + margin /\ 2 * n * den < 2 * hi * num + margin + f

\* They are if it is a whole number of pixels.
Slack(n, den) == IF n % (2 * den) = 0 THEN 1 ELSE 0

\* What is a whole number of pixels is so from either side, and doubled.
LEMMA Wholly ==
  ASSUME NEW w \in Int, NEW d \in Nat \ {0}, w % d = 0
  PROVE  (-w) % d = 0 /\ (2 * w) % (2 * d) = 0
<1>1. PICK k \in Int : k = w \div d
  BY Division
<1>2. w = k * d
  BY <1>1, Division
<1>3. /\ (-k) \in Int /\ 0 \in 0..(d - 1) /\ 2 * d \in Nat \ {0} /\ 0 \in 0..(2 * d - 1)
      /\ -w = (-k) * d + 0 /\ 2 * w = k * (2 * d) + 0
  BY <1>2
<1>4. PICK m \in Int, D \in Nat \ {0} : m = -k /\ D = 2 * d
  BY <1>3
<1>5. (m * d + 0) % d = 0 /\ (k * D + 0) % D = 0
  BY <1>3, <1>4, Divided
<1> QED
  BY <1>3, <1>4, <1>5

\* The latter are every pixel that lies inside, and none that lies outside.
LEMMA Covered ==
  ASSUME NEW lo \in Int, NEW hi \in Int, NEW num \in Nat, NEW den \in Nat \ {0},
         NEW margin \in Int, NEW start, NEW length,
         RoundedInterval(lo, hi, num, den, margin, start, length)
  PROVE  HoldsPixels(lo, hi, num, den, margin, start, length,
                     Slack(2 * lo * num + margin, den),
                     Slack(2 * hi * num + margin - (2 * lo * num + margin), den))
<1>0. PICK A \in BOOLEAN, B \in BOOLEAN :
        /\ start = (2 * lo * num + margin) \div (2 * den) - Slip(2 * lo * num + margin, 2 * den, A)
        /\ length = Ceiling((hi - lo) * num, den) + Slip((hi - lo) * num, den, B)
  BY DEF RoundedInterval
<1>1. PICK a \in Int, b \in Int : a = lo * num /\ b = hi * num
  OBVIOUS
<1>2. PICK from \in Int, w \in Int, v \in Int, D \in Nat \ {0} :
        from = 2 * a + margin /\ w = b - a /\ v = -w /\ D = 2 * den
  OBVIOUS
<1>3. /\ 2 * lo * num + margin = from /\ 2 * hi * num + margin = from + 2 * w
      /\ (hi - lo) * num = w /\ 2 * hi * num + margin - (2 * lo * num + margin) = 2 * w
  BY <1>1, <1>2
<1>4. PICK e \in {0, 1}, f \in {0, 1} : e = Slack(from, den) /\ f = Slack(2 * w, den)
  BY DEF Slack
<1>5. PICK i \in {0, 1}, j \in {0, 1} : i = Slip(from, D, A) /\ j = Slip(w, den, B)
  BY DEF Slip
<1>6. i = 1 => from % D = 0 /\ e = 1
  BY <1>2, <1>4, <1>5 DEF Slip, Slack
<1>7. j = 1 => v % den = 0 /\ f = 1
  <2>1. j = 1 => w % den = 0
    BY <1>5 DEF Slip
  <2>2. w % den = 0 => (-w) % den = 0 /\ (2 * w) % (2 * den) = 0
    BY Wholly
  <2> QED
    BY <1>2, <1>4, <2>1, <2>2 DEF Slack
<1>8. start = from \div D - i /\ length = -(v \div den) + j
  BY <1>0, <1>2, <1>3, <1>5 DEF Ceiling
<1>9. PICK q \in Int : q = from \div D /\ (from % D) \in 0..(D - 1) /\ from = q * D + (from % D)
  BY Division
<1>10. PICK r \in Int : r = v \div den /\ (v % den) \in 0..(den - 1) /\ v = r * den + (v % den)
  BY Division
<1>11. start \in Int /\ length \in Int /\ start = q - i /\ length = j - r
  BY <1>8, <1>9, <1>10
<1>12. q * D = 2 * (q * den) /\ start * den = q * den - i * den /\ length * den = j * den - r * den
  BY <1>2, <1>11
<1>13. PICK Q \in Int, R \in Int : Q = q * den /\ R = r * den
  OBVIOUS
<1>14. /\ i = 0 => start * den = Q
       /\ i = 1 => start * den = Q - den
       /\ j = 0 => length * den = -R
       /\ j = 1 => length * den = den - R
  BY <1>12, <1>13
<1>15. PICK S \in Int, L \in Int : S = start * den /\ L = length * den
  BY <1>11
<1>16. from - 2 * S >= 0 /\ from - 2 * S < 2 * den + e
  BY <1>2, <1>6, <1>9, <1>12, <1>13, <1>14, <1>15
<1>17. L - w >= 0 /\ L - w < den + f
  BY <1>2, <1>7, <1>10, <1>13, <1>14, <1>15
<1>18. ASSUME NEW n \in Int
       PROVE  /\ 2 * (n * den) >= from /\ 2 * ((n + 1) * den) + e <= from + 2 * w
                   => n >= start /\ n < start + length
              /\ n >= start /\ n < start + length
                   => 2 * ((n + 1) * den) + e > from /\ 2 * (n * den) < from + 2 * w + f
  BY <1>11, <1>15, <1>16, <1>17, Interval
<1>19. ASSUME NEW n \in Int
       PROVE  /\ 2 * n * den >= from /\ 2 * (n + 1) * den + e <= from + 2 * w
                   => n >= start /\ n < start + length
              /\ n >= start /\ n < start + length
                   => 2 * (n + 1) * den + e > from /\ 2 * n * den < from + 2 * w + f
  <2>1. 2 * n * den = 2 * (n * den) /\ 2 * (n + 1) * den = 2 * ((n + 1) * den)
    OBVIOUS
  <2> QED
    BY <1>18, <2>1
<1> QED
  BY <1>3, <1>4, <1>19, Zenon DEF HoldsPixels

\* The coordinates of points, and scaled and moved ones.
Xs(points) == {c.x : c \in points}
Ys(points) == {c.y : c \in points}
Moved(V, num, margin) == {2 * v * num + margin : v \in V}

\* Between the least and the greatest of them.
Between(V, lo, hi) == V \in SUBSET Int /\ lo \in V /\ hi \in V /\ \A v \in V : lo <= v /\ v <= hi

\* The least and the greatest, before and after scaling and moving.
Spreads(V, lo, hi, num, margin) ==
  /\ Least(V) = lo /\ Most(V) = hi
  /\ Least(Moved(V, num, margin)) = 2 * lo * num + margin
  /\ Most(Moved(V, num, margin)) = 2 * hi * num + margin

\* Scaling and moving keep them.
LEMMA Spread ==
  ASSUME NEW V, NEW lo, NEW hi, Between(V, lo, hi), NEW num \in Nat, NEW margin \in Int
  PROVE  Spreads(V, lo, hi, num, margin)
<1>0. V \in SUBSET Int /\ lo \in V /\ hi \in V /\ \A v \in V : lo <= v /\ v <= hi
  BY DEF Between
<1>1. Least(V) = lo /\ Most(V) = hi
  BY <1>0, LeastIs, MostIs
<1> DEFINE F(v) == 2 * v * num + margin
           S == {F(v) : v \in V}
<1>2. ASSUME NEW v \in Int PROVE F(v) \in Int
  <2>1. v * num \in Int /\ F(v) = 2 * (v * num) + margin
    OBVIOUS
  <2> QED
    BY <2>1
<1>3. ASSUME NEW a \in Int, NEW b \in Int, a <= b PROVE F(a) <= F(b)
  <2>1. a * num <= b * num
    BY <1>3
  <2>2. F(a) = 2 * (a * num) + margin /\ F(b) = 2 * (b * num) + margin
    OBVIOUS
  <2> QED
    BY <2>1, <2>2
<1> HIDE DEF F
<1>4. S \in SUBSET Int /\ F(lo) \in S /\ F(hi) \in S
  BY <1>0, <1>2
<1>5. \A k \in S : F(lo) <= k /\ F(hi) >= k
  BY <1>0, <1>2, <1>3
<1>6. Least(S) = F(lo) /\ Most(S) = F(hi)
  BY <1>4, <1>5, LeastIs, MostIs
<1>7. Moved(V, num, margin) = S
  BY DEF Moved, F
<1> QED
  BY <1>1, <1>6, <1>7 DEF F, Spreads

\* The corners of a transformed rectangle have a least and a greatest coordinate of each kind.
LEMMA CornersSpread ==
  ASSUME NEW r, {r.x, r.y, r.width, r.height} \subseteq Int, NEW m \in [1..6 -> Int]
  PROVE  /\ \E lo, hi \in Int : Between(Xs(Corners(r, m)), lo, hi)
         /\ \E lo, hi \in Int : Between(Ys(Corners(r, m)), lo, hi)
<1>1. r.x \in Int /\ r.y \in Int /\ r.width \in Int /\ r.height \in Int
  OBVIOUS
<1>2. PICK x1 \in Int, y1 \in Int : x1 = r.x /\ y1 = r.y
  BY <1>1
<1>3. PICK x2 \in Int : x2 = r.x + r.width
  BY <1>1
<1>4. PICK y2 \in Int : y2 = r.y + r.height
  BY <1>1
<1>5. \A x, y \in Int : Point(m, x, y).x \in Int /\ Point(m, x, y).y \in Int
  <2> TAKE x \in Int, y \in Int
  <2>1. m[1] \in Int /\ m[2] \in Int /\ m[3] \in Int /\ m[4] \in Int /\ m[5] \in Int /\ m[6] \in Int
    OBVIOUS
  <2>2. m[1] * x \in Int /\ m[3] * y \in Int /\ m[2] * x \in Int /\ m[4] * y \in Int
    BY <2>1
  <2> QED
    BY <2>1, <2>2 DEF Point
<1>6. PICK p1, p2, p3, p4 : /\ p1 = Point(m, x1, y1) /\ p2 = Point(m, x1, y2)
                            /\ p3 = Point(m, x2, y1) /\ p4 = Point(m, x2, y2)
  OBVIOUS
<1>7. Corners(r, m) = {p1, p2, p3, p4}
  BY <1>2, <1>3, <1>4, <1>6 DEF Corners
<1>8. /\ p1.x \in Int /\ p2.x \in Int /\ p3.x \in Int /\ p4.x \in Int
      /\ p1.y \in Int /\ p2.y \in Int /\ p3.y \in Int /\ p4.y \in Int
  BY <1>5, <1>6
<1>9. /\ Xs(Corners(r, m)) = {p1.x, p2.x, p3.x, p4.x}
      /\ Ys(Corners(r, m)) = {p1.y, p2.y, p3.y, p4.y}
  BY <1>7 DEF Xs, Ys
<1>10. \E lo, hi \in {p1.x, p2.x, p3.x, p4.x} : \A v \in {p1.x, p2.x, p3.x, p4.x} : lo <= v /\ v <= hi
  BY <1>8, FourExtremes
<1>11. \E lo, hi \in {p1.y, p2.y, p3.y, p4.y} : \A v \in {p1.y, p2.y, p3.y, p4.y} : lo <= v /\ v <= hi
  BY <1>8, FourExtremes
<1>12. \E lo, hi \in Int : Between(Xs(Corners(r, m)), lo, hi)
  BY <1>8, <1>9, <1>10 DEF Between
<1>13. \E lo, hi \in Int : Between(Ys(Corners(r, m)), lo, hi)
  BY <1>8, <1>9, <1>11 DEF Between
<1> QED
  BY <1>12, <1>13

\* What the property says of an element in its place.
PixelCovered(p, region, den, xs, ys) ==
  LET Scaled(n) == 2 * n * den IN
  /\ /\ Scaled(p.x) >= Least(xs) /\ Scaled(p.x + 1) + Slack(Least(xs), den) <= Most(xs)
     /\ Scaled(p.y) >= Least(ys) /\ Scaled(p.y + 1) + Slack(Least(ys), den) <= Most(ys)
     => Inside(p, region)
  /\ Inside(p, region) =>
       /\ Scaled(p.x + 1) + Slack(Least(xs), den) > Least(xs)
       /\ Scaled(p.x) < Most(xs) + Slack(Most(xs) - Least(xs), den)
       /\ Scaled(p.y + 1) + Slack(Least(ys), den) > Least(ys)
       /\ Scaled(p.y) < Most(ys) + Slack(Most(ys) - Least(ys), den)

\* So it is for every pixel of the display, in the units of a view box.
BoxCovered(rect, matrix, view) ==
  LET k == Scale(view)
      corners == Corners(rect, matrix)
      X(x) == 2 * x * k.num + Margin(Display.width, view.x, view.width, k)
      Y(y) == 2 * y * k.num + Margin(Display.height, view.y, view.height, k) IN
  \A p \in Pixels :
    PixelCovered(p, TransformRect(rect, matrix, view), k.den,
                 {X(c.x) : c \in corners}, {Y(c.y) : c \in corners})

\* The region of a box holds the pixels inside the bounds of its image and none outside, those at
\* its edge left open where float64 may round them either way (transformRect).
LEMMA RegionCovers ==
  ASSUME NEW rect, {rect.x, rect.y, rect.width, rect.height} \subseteq Int,
         NEW matrix \in [1..6 -> Int],
         NEW view, view.x \in Int, view.y \in Int, view.width \in Nat \ {0}, view.height \in Nat \ {0}
  PROVE  BoxCovered(rect, matrix, view)
<1>0. Display.width \in Nat \ {0} /\ Display.height \in Nat \ {0}
  BY AlgorithmsAssumption
<1>1. PICK num \in Nat, den \in Nat \ {0} : Scale(view) = [num |-> num, den |-> den]
  BY <1>0 DEF Scale
<1>2. ASSUME NEW a \in Int, NEW b \in Int, NEW c \in Int, NEW k, k.num \in Int, k.den \in Int
      PROVE  Margin(a, b, c, k) \in Int
  <2>1. PICK p \in Int, q \in Int : p = a * k.den /\ q = (c + 2 * b) * k.num
    BY <1>2
  <2> QED
    BY <2>1 DEF Margin
<1>m. /\ Margin(Display.width, view.x, view.width, Scale(view)) \in Int
      /\ Margin(Display.height, view.y, view.height, Scale(view)) \in Int
  <2>1. PICK k : k = Scale(view) /\ k.num \in Int /\ k.den \in Int
    BY <1>1
  <2>2. /\ Display.width \in Int /\ Display.height \in Int
        /\ view.x \in Int /\ view.y \in Int /\ view.width \in Int /\ view.height \in Int
    BY <1>0
  <2> QED
    BY <1>2, <2>1, <2>2, Zenon
<1>3. PICK mx \in Int : mx = Margin(Display.width, view.x, view.width, Scale(view))
  BY <1>m
<1>4. PICK my \in Int : my = Margin(Display.height, view.y, view.height, Scale(view))
  BY <1>m
<1> DEFINE VX == Xs(Corners(rect, matrix))
           VY == Ys(Corners(rect, matrix))
<1>5. PICK x1 \in Int, x2 \in Int : Between(VX, x1, x2)
  BY CornersSpread
<1>6. PICK y1 \in Int, y2 \in Int : Between(VY, y1, y2)
  BY CornersSpread
<1>7. /\ Least(VX) = x1 /\ Most(VX) = x2
      /\ Least(Moved(VX, num, mx)) = 2 * x1 * num + mx
      /\ Most(Moved(VX, num, mx)) = 2 * x2 * num + mx
  <2>1. Spreads(VX, x1, x2, num, mx)
    <3> HIDE DEF VX
    <3> QED
      BY <1>5, Spread, Zenon
  <2> QED
    BY <2>1, Zenon DEF Spreads
<1>8. /\ Least(VY) = y1 /\ Most(VY) = y2
      /\ Least(Moved(VY, num, my)) = 2 * y1 * num + my
      /\ Most(Moved(VY, num, my)) = 2 * y2 * num + my
  <2>1. Spreads(VY, y1, y2, num, my)
    <3> HIDE DEF VY
    <3> QED
      BY <1>6, Spread, Zenon
  <2> QED
    BY <2>1, Zenon DEF Spreads
<1>9. PICK region : region = TransformRect(rect, matrix, view)
  OBVIOUS
<1>10. PICK left, width, top, height :
         left = region.x /\ width = region.width /\ top = region.y /\ height = region.height
  OBVIOUS
<1>11. /\ Least({p.x : p \in Corners(rect, matrix)}) = x1 /\ Most({p.x : p \in Corners(rect, matrix)}) = x2
       /\ Least({p.y : p \in Corners(rect, matrix)}) = y1 /\ Most({p.y : p \in Corners(rect, matrix)}) = y2
  BY <1>7, <1>8, Zenon DEF Xs, Ys
<1>12. /\ RoundedInterval(x1, x2, num, den, mx, left, width)
       /\ RoundedInterval(y1, y2, num, den, my, top, height)
  <2>1. PICK a \in BOOLEAN, b \in BOOLEAN, c \in BOOLEAN, d \in BOOLEAN :
          /\ a <=> "left" \in Inexact(rect, matrix, view)
          /\ b <=> "width" \in Inexact(rect, matrix, view)
          /\ c <=> "top" \in Inexact(rect, matrix, view)
          /\ d <=> "height" \in Inexact(rect, matrix, view)
    BY Zenon
  <2>2. /\ left = (2 * x1 * num + mx) \div (2 * den) - Slip(2 * x1 * num + mx, 2 * den, a)
        /\ width = Ceiling((x2 - x1) * num, den) + Slip((x2 - x1) * num, den, b)
        /\ top = (2 * y1 * num + my) \div (2 * den) - Slip(2 * y1 * num + my, 2 * den, c)
        /\ height = Ceiling((y2 - y1) * num, den) + Slip((y2 - y1) * num, den, d)
    BY <1>1, <1>3, <1>4, <1>9, <1>10, <1>11, <2>1 DEF TransformRect, Rectangle, Slip
  <2> QED
    BY <2>2, Zenon DEF RoundedInterval
<1> DEFINE Lx == 2 * x1 * num + mx
           Hx == 2 * x2 * num + mx
           Ly == 2 * y1 * num + my
           Hy == 2 * y2 * num + my
<1>13. /\ HoldsPixels(x1, x2, num, den, mx, left, width, Slack(Lx, den), Slack(Hx - Lx, den))
       /\ HoldsPixels(y1, y2, num, den, my, top, height, Slack(Ly, den), Slack(Hy - Ly, den))
  BY <1>12, Covered
<1>14. ASSUME NEW p \in Pixels PROVE PixelCovered(p, region, den, Moved(VX, num, mx), Moved(VY, num, my))
  <2>1. PICK x \in Int, y \in Int : p.x = x /\ p.y = y
    BY <1>0 DEF Pixels
  <2>2. /\ 2 * x * den >= Lx /\ 2 * (x + 1) * den + Slack(Lx, den) <= Hx
             => x >= left /\ x < left + width
        /\ x >= left /\ x < left + width
             => 2 * (x + 1) * den + Slack(Lx, den) > Lx /\ 2 * x * den < Hx + Slack(Hx - Lx, den)
    BY <1>13, Zenon DEF HoldsPixels
  <2>3. /\ 2 * y * den >= Ly /\ 2 * (y + 1) * den + Slack(Ly, den) <= Hy
             => y >= top /\ y < top + height
        /\ y >= top /\ y < top + height
             => 2 * (y + 1) * den + Slack(Ly, den) > Ly /\ 2 * y * den < Hy + Slack(Hy - Ly, den)
    BY <1>13, Zenon DEF HoldsPixels
  <2>4. Inside(p, region) <=> x >= left /\ x < left + width /\ y >= top /\ y < top + height
    BY <1>10, <2>1 DEF Inside
  <2> QED
    BY <1>7, <1>8, <2>1, <2>2, <2>3, <2>4, Zenon DEF PixelCovered
<1>15. {2 * c.x * num + mx : c \in Corners(rect, matrix)} = Moved(VX, num, mx)
  BY DEF Moved, Xs
<1>16. {2 * c.y * num + my : c \in Corners(rect, matrix)} = Moved(VY, num, my)
  BY DEF Moved, Ys
<1>17. Scale(view).num = num /\ Scale(view).den = den
  BY <1>1
<1>18. {2 * c.x * Scale(view).num + Margin(Display.width, view.x, view.width, Scale(view)) :
          c \in Corners(rect, matrix)} = Moved(VX, num, mx)
  BY <1>3, <1>15, <1>17
<1>19. {2 * c.y * Scale(view).num + Margin(Display.height, view.y, view.height, Scale(view)) :
          c \in Corners(rect, matrix)} = Moved(VY, num, my)
  BY <1>4, <1>16, <1>17
<1> QED
  BY <1>9, <1>14, <1>17, <1>18, <1>19, Zenon DEF BoxCovered
-----------------------------------------------------------------------------
(* The navigation of a calendar *)

\* The rows of its arrows and its title are in those of its regions.
RowsFit(y, h) ==
  LET top == Larger(0, 10 * y - h)
      bottom == 100 * y + 14 * h
      from == Trunc(top, 10)
      height == Trunc(bottom - 10 * top, 100)
      row == Trunc(100 * y + 8 * h, 100) IN
  /\ from \in Nat /\ height \in Nat /\ row \in Nat
  /\ row >= from /\ row < from + height
  /\ row = y + (8 * h) \div 100

\* Whether the top is cut off at the edge of the display or not.
LEMMA NavigationRows ==
  ASSUME NEW y \in Nat, NEW h \in Nat, h >= 20
  PROVE  RowsFit(y, h)
<1>1. CASE 10 * y >= h
  BY <1>1 DEF Larger, Trunc, RowsFit
<1>2. CASE 10 * y < h
  BY <1>2 DEF Larger, Trunc, RowsFit
<1> QED
  BY <1>1, <1>2

\* And so are their columns, where an arrow's is in no region but its own, or one below.
ColumnsFit(x, w, h) ==
  LET wide == Trunc(4 * w + h, 20)
      previous == Trunc(Larger(0, 20 * x - h), 20)
      today == Trunc(5 * x + w, 5)
      middle == Trunc(3 * w, 5)
      next == Trunc(5 * x + 4 * w, 5)
      back == Trunc(100 * x + 8 * w, 100)
      ahead == Trunc(100 * x + 92 * w, 100)
      title == x + w \div 2 IN
  /\ back \in Int /\ today \in Int /\ next \in Int /\ title \in Int
  /\ back >= previous /\ back < previous + wide /\ back < today /\ back < next
  /\ title >= today /\ title < today + middle /\ title < next
  /\ ahead >= next /\ ahead < next + wide

\* On a calendar of at least twenty pixels either way.
LEMMA NavigationColumns ==
  ASSUME NEW x \in Nat, NEW w \in Nat, NEW h \in Nat, w >= 20, h >= 20
  PROVE  ColumnsFit(x, w, h)
<1>1. CASE 20 * x >= h
  BY <1>1 DEF Larger, Trunc, ColumnsFit
<1>2. CASE 20 * x < h
  BY <1>2 DEF Larger, Trunc, ColumnsFit
<1> QED
  BY <1>1, <1>2

\* The last of the regions that are hit, if they are numbered in their order.
LEMMA HitLast ==
  ASSUME NEW n \in Nat, NEW actions, DOMAIN actions = 1..n, NEW p, NEW i \in 1..n,
         \A j \in 1..n : actions[j].order \in Int,
         \A j, k \in 1..n : j < k => actions[j].order < actions[k].order,
         Inside(p, actions[i]), \A j \in 1..n : j > i => ~Inside(p, actions[j])
  PROVE  Hit(actions, p) = actions[i]
<1> DEFINE hits == {j \in 1..n : Inside(p, actions[j])}
           First(j) == \A k \in hits : \/ actions[j].order > actions[k].order
                                       \/ actions[j].order = actions[k].order /\ j <= k
<1>1. i \in hits /\ \A j \in hits : j \in 1..n /\ j <= i
  OBVIOUS
<1> HIDE DEF hits
<1>2. First(i)
  BY <1>1
<1>3. \A j \in hits : First(j) => j = i
  BY <1>1
<1>4. (CHOOSE j \in hits : First(j)) = i
  BY <1>1, <1>2, <1>3
<1>5. Hit(actions, p) = IF hits = {} THEN None ELSE actions[CHOOSE j \in hits : First(j)]
  BY DEF Hit, hits
<1> QED
  BY <1>1, <1>4, <1>5

\* A region of the navigation, as the compiler numbers it.
Region(y, h, event, left, width, order) ==
  LET top == Larger(0, 10 * y - h)
      bottom == 100 * y + 14 * h IN
  [x |-> left, y |-> Trunc(top, 10), width |-> width,
   height |-> Trunc(bottom - 10 * top, 100), event |-> event, order |-> order]

Previous(x, y, w, h, order) ==
  Region(y, h, "previous", Trunc(Larger(0, 20 * x - h), 20), Trunc(4 * w + h, 20), order)
Title(x, y, w, h, order) == Region(y, h, "today", Trunc(5 * x + w, 5), Trunc(3 * w, 5), order)
Following(x, y, w, h, order) ==
  Region(y, h, "next", Trunc(5 * x + 4 * w, 5), Trunc(4 * w + h, 20), order)

Regions(options, offset) ==
  LET regions == NavigationRegions(options, offset) IN
  [i \in DOMAIN regions |->
     LET r == regions[i] IN
     [x |-> r.x, y |-> r.y, width |-> r.width, height |-> r.height, event |-> r.event, order |-> i]]

\* Two regions at the ends of the range, three between.
LEMMA RegionsAre ==
  ASSUME NEW o, o.navigation = TRUE, NEW k \in -12..12
  PROVE  LET P(i) == Previous(o.x, o.y, o.width, o.height, i)
             T(i) == Title(o.x, o.y, o.width, o.height, i)
             F(i) == Following(o.x, o.y, o.width, o.height, i) IN
         Regions(o, k) = IF k = -12 THEN <<T(1), F(2)>>
                         ELSE IF k = 12 THEN <<P(1), T(2)>>
                         ELSE <<P(1), T(2), F(3)>>
<1> DEFINE top == Larger(0, 10 * o.y - o.height)
           bottom == 100 * o.y + 14 * o.height
           R(event, left, width) ==
             [event |-> event, id |-> o.id, x |-> left, width |-> width,
              y |-> Trunc(top, 10), height |-> Trunc(bottom - 10 * top, 100)]
           P == R("previous", Trunc(Larger(0, 20 * o.x - o.height), 20), Trunc(4 * o.width + o.height, 20))
           T == R("today", Trunc(5 * o.x + o.width, 5), Trunc(3 * o.width, 5))
           N == R("next", Trunc(5 * o.x + 4 * o.width, 5), Trunc(4 * o.width + o.height, 20))
           O(r, i) == [x |-> r.x, y |-> r.y, width |-> r.width, height |-> r.height,
                       event |-> r.event, order |-> i]
           regions == NavigationRegions(o, k)
<1>1. regions = (IF k > -12 THEN <<P>> ELSE <<>>) \o <<T>> \o (IF k < 12 THEN <<N>> ELSE <<>>)
  BY DEF NavigationRegions, Offered
<1>2. ASSUME NEW event, NEW left, NEW width, NEW i
      PROVE  O(R(event, left, width), i) = Region(o.y, o.height, event, left, width, i)
  <2>1. PICK y, height : y = Trunc(top, 10) /\ height = Trunc(bottom - 10 * top, 100)
    OBVIOUS
  <2>2. R(event, left, width)
          = [event |-> event, id |-> o.id, x |-> left, width |-> width, y |-> y, height |-> height]
    BY <2>1, Zenon
  <2>3. Region(o.y, o.height, event, left, width, i)
          = [x |-> left, y |-> y, width |-> width, height |-> height, event |-> event, order |-> i]
    BY <2>1, Zenon DEF Region
  <2> HIDE DEF R
  <2> QED
    BY <2>2, <2>3
<1> HIDE DEF R, O
<1>3. ASSUME NEW i
      PROVE  /\ O(P, i) = Previous(o.x, o.y, o.width, o.height, i)
             /\ O(T, i) = Title(o.x, o.y, o.width, o.height, i)
             /\ O(N, i) = Following(o.x, o.y, o.width, o.height, i)
  BY <1>2, Zenon DEF Previous, Title, Following
<1> USE DEF O
<1>4. Regions(o, k) = [i \in DOMAIN regions |-> O(regions[i], i)]
  BY Zenon DEF Regions
<1> HIDE DEF P, T, N, O, regions
<1>5. CASE k = -12
  <2>1. regions = (<<>> \o <<T>>) \o <<N>>
    BY <1>1, <1>5
  <2>2. DOMAIN regions = 1..2 /\ regions[1] = T /\ regions[2] = N
    BY <2>1
  <2>3. Regions(o, k) = <<O(T, 1), O(N, 2)>>
    BY <1>4, <2>2
  <2> QED
    BY <1>3, <1>5, <2>3
<1>6. CASE k = 12
  <2>1. regions = (<<P>> \o <<T>>) \o <<>>
    BY <1>1, <1>6
  <2>2. DOMAIN regions = 1..2 /\ regions[1] = P /\ regions[2] = T
    BY <2>1
  <2>3. Regions(o, k) = <<O(P, 1), O(T, 2)>>
    BY <1>4, <2>2
  <2> QED
    BY <1>3, <1>6, <2>3
<1>7. CASE k # -12 /\ k # 12
  <2>1. PICK s : s = <<P>> \o <<T>>
    OBVIOUS
  <2>2. regions = s \o <<N>>
    BY <1>1, <1>7, <2>1
  <2>3. s \in Seq({P, T}) /\ Len(s) = 2 /\ s[1] = P /\ s[2] = T
    BY <2>1
  <2>4. DOMAIN regions = 1..3 /\ regions[1] = P /\ regions[2] = T /\ regions[3] = N
    <3>1. PICK t : t = <<N>>
      OBVIOUS
    <3>2. t \in Seq({N}) /\ Len(t) = 1 /\ t[1] = N
      BY <3>1
    <3>3. regions = s \o t /\ s \in Seq({P, T, N}) /\ t \in Seq({P, T, N})
      BY <2>2, <2>3, <3>1, <3>2
    <3>4. /\ s \o t \in Seq({P, T, N}) /\ Len(s \o t) = Len(s) + Len(t)
          /\ \A j \in 1..(Len(s) + Len(t)) : (s \o t)[j] = IF j <= Len(s) THEN s[j] ELSE t[j - Len(s)]
      BY <3>3, ConcatProperties
    <3>5. Len(regions) = 3 /\ regions \in Seq({P, T, N})
      BY <2>3, <3>2, <3>3, <3>4
    <3>6. regions[1] = s[1] /\ regions[2] = s[2] /\ regions[3] = t[1]
      BY <2>3, <3>2, <3>3, <3>4
    <3> QED
      BY <2>3, <3>2, <3>5, <3>6
  <2>5. Regions(o, k) = <<O(P, 1), O(T, 2), O(N, 3)>>
    BY <1>4, <2>4
  <2> QED
    BY <1>3, <1>7, <2>5
<1> QED
  BY <1>5, <1>6, <1>7

\* Where the title and the arrows are, in a calendar of at least twenty pixels.
Marks(x, y, w, h, title, back, ahead) ==
  /\ x \in Nat /\ y \in Nat /\ w \in Nat /\ h \in Nat /\ w >= 20 /\ h >= 20
  /\ title = [x |-> x + w \div 2, y |-> y + (8 * h) \div 100]
  /\ back = [x |-> Trunc(100 * x + 8 * w, 100), y |-> Trunc(100 * y + 8 * h, 100)]
  /\ ahead = [x |-> Trunc(100 * x + 92 * w, 100), y |-> Trunc(100 * y + 8 * h, 100)]

\* The title and the arrows are in their regions, and in none above.
Apart(x, y, w, h, title, back, ahead) ==
  \A i : /\ Inside(title, Title(x, y, w, h, i)) /\ ~Inside(title, Following(x, y, w, h, i))
         /\ Inside(back, Previous(x, y, w, h, i))
         /\ ~Inside(back, Title(x, y, w, h, i)) /\ ~Inside(back, Following(x, y, w, h, i))
         /\ Inside(ahead, Following(x, y, w, h, i))

\* So it is with the regions as they are rounded.
LEMMA ArrowsInside ==
  ASSUME NEW x, NEW y, NEW w, NEW h, NEW title, NEW back, NEW ahead,
         Marks(x, y, w, h, title, back, ahead)
  PROVE  Apart(x, y, w, h, title, back, ahead)
<1>1. /\ x \in Nat /\ y \in Nat /\ w \in Nat /\ h \in Nat /\ w >= 20 /\ h >= 20
      /\ title = [x |-> x + w \div 2, y |-> y + (8 * h) \div 100]
      /\ back = [x |-> Trunc(100 * x + 8 * w, 100), y |-> Trunc(100 * y + 8 * h, 100)]
      /\ ahead = [x |-> Trunc(100 * x + 92 * w, 100), y |-> Trunc(100 * y + 8 * h, 100)]
  BY Zenon DEF Marks
<1>2. RowsFit(y, h) /\ ColumnsFit(x, w, h)
  BY <1>1, NavigationRows, NavigationColumns
<1> QED
  BY <1>1, <1>2 DEF Apart, RowsFit, ColumnsFit, Inside, Previous, Title, Following, Region

\* A tap is answered by a region with that event.
Answered(actions, p, event) ==
  \E i \in DOMAIN actions : /\ Inside(p, actions[i]) /\ Hit(actions, p) = actions[i]
                            /\ actions[i].event = event

\* The regions are numbered in their order, and "p" is in the "i"-th and none after.
Uppermost(actions, p, n, i) ==
  /\ n \in Nat /\ i \in 1..n /\ DOMAIN actions = 1..n
  /\ \A j \in 1..n : actions[j].order = j
  /\ Inside(p, actions[i])
  /\ \A j \in 1..n : j > i => ~Inside(p, actions[j])

\* And that region answers.
LEMMA AnsweredBy ==
  ASSUME NEW actions, NEW p, NEW n, NEW i, Uppermost(actions, p, n, i)
  PROVE  Answered(actions, p, actions[i].event)
<1>1. /\ n \in Nat /\ i \in 1..n /\ DOMAIN actions = 1..n
      /\ \A j \in 1..n : actions[j].order = j
      /\ Inside(p, actions[i])
      /\ \A j \in 1..n : j > i => ~Inside(p, actions[j])
  BY Zenon DEF Uppermost
<1>2. Hit(actions, p) = actions[i]
  BY <1>1, HitLast
<1> QED
  BY <1>1, <1>2 DEF Answered

\* The title and the arrows answer, the arrow at the end of the range does not.
Navigable(o, k) ==
  LET title == [x |-> o.x + o.width \div 2, y |-> o.y + (8 * o.height) \div 100] IN
  /\ Answered(Regions(o, k), title, "today")
  /\ Answered(Regions(o, k), Arrow(o, "previous"), "previous") <=> k > -12
  /\ Answered(Regions(o, k), Arrow(o, "next"), "next") <=> k < 12

\* In every calendar and every month of its range.
LEMMA NavigationAnswers ==
  ASSUME NEW o \in Calendars, NEW k \in -12..12
  PROVE  Navigable(o, k)
<1>1. /\ o.navigation = TRUE /\ o.x \in Nat /\ o.y \in Nat /\ o.width \in Nat /\ o.height \in Nat
      /\ o.width >= 20 /\ o.height >= 20
  <2>1. \A c \in Calendars : /\ c.navigation = TRUE
                              /\ c.x \in Nat /\ c.width \in Nat /\ c.width >= 20
                              /\ c.y \in Nat /\ c.height \in Nat /\ c.height >= 20
    BY AlgorithmsAssumption, Zenon
  <2> QED
    BY <2>1, Zenon
<1>2. PICK x \in Nat, y \in Nat, w \in Nat, h \in Nat :
        x = o.x /\ y = o.y /\ w = o.width /\ h = o.height /\ w >= 20 /\ h >= 20
  BY <1>1
<1>3. PICK title, back, ahead :
        /\ title = [x |-> x + w \div 2, y |-> y + (8 * h) \div 100]
        /\ back = [x |-> Trunc(100 * x + 8 * w, 100), y |-> Trunc(100 * y + 8 * h, 100)]
        /\ ahead = [x |-> Trunc(100 * x + 92 * w, 100), y |-> Trunc(100 * y + 8 * h, 100)]
  OBVIOUS
<1>4. /\ title = [x |-> o.x + o.width \div 2, y |-> o.y + (8 * o.height) \div 100]
      /\ back = Arrow(o, "previous") /\ ahead = Arrow(o, "next")
  BY <1>2, <1>3 DEF Arrow
<1>5. Apart(x, y, w, h, title, back, ahead)
  <2>1. Marks(x, y, w, h, title, back, ahead)
    BY <1>2, <1>3, Zenon DEF Marks
  <2> QED
    BY <2>1, ArrowsInside, Zenon
<1>6. ASSUME NEW i
      PROVE  LET P == Previous(x, y, w, h, i)
                 T == Title(x, y, w, h, i)
                 F == Following(x, y, w, h, i) IN
             /\ P.order = i /\ T.order = i /\ F.order = i
             /\ P.event = "previous" /\ T.event = "today" /\ F.event = "next"
  BY DEF Previous, Title, Following, Region
<1>7. PICK P1, T1, T2, F2, F3 :
        /\ P1 = Previous(x, y, w, h, 1) /\ T1 = Title(x, y, w, h, 1) /\ T2 = Title(x, y, w, h, 2)
        /\ F2 = Following(x, y, w, h, 2) /\ F3 = Following(x, y, w, h, 3)
  OBVIOUS
<1>8. /\ Inside(title, T1) /\ Inside(title, T2) /\ ~Inside(title, F2) /\ ~Inside(title, F3)
      /\ Inside(back, P1) /\ ~Inside(back, T2) /\ ~Inside(back, F3)
      /\ Inside(ahead, F2) /\ Inside(ahead, F3)
  BY <1>5, <1>7, Zenon DEF Apart
<1>9. /\ P1.order = 1 /\ T1.order = 1 /\ T2.order = 2 /\ F2.order = 2 /\ F3.order = 3
      /\ P1.event = "previous" /\ T1.event = "today" /\ T2.event = "today"
      /\ F2.event = "next" /\ F3.event = "next"
  BY <1>6, <1>7, Zenon
<1>10. Regions(o, k) = IF k = -12 THEN <<T1, F2>> ELSE IF k = 12 THEN <<P1, T2>> ELSE <<P1, T2, F3>>
  BY <1>1, <1>2, <1>7, RegionsAre
<1>11. PICK A : A = Regions(o, k)
  OBVIOUS
<1>12. CASE k = -12
  <2>1. DOMAIN A = 1..2 /\ A[1] = T1 /\ A[2] = F2
    BY <1>10, <1>11, <1>12
  <2>2. Uppermost(A, title, 2, 1) /\ Uppermost(A, ahead, 2, 2)
    BY <1>8, <1>9, <2>1 DEF Uppermost
  <2>3. Answered(A, title, A[1].event) /\ Answered(A, ahead, A[2].event)
    BY <2>2, AnsweredBy
  <2>4. ~Answered(A, back, "previous")
    BY <1>9, <2>1 DEF Answered
  <2> QED
    BY <1>4, <1>9, <1>11, <1>12, <2>1, <2>3, <2>4 DEF Navigable
<1>13. CASE k = 12
  <2>1. DOMAIN A = 1..2 /\ A[1] = P1 /\ A[2] = T2
    BY <1>10, <1>11, <1>13
  <2>2. Uppermost(A, title, 2, 2) /\ Uppermost(A, back, 2, 1)
    BY <1>8, <1>9, <2>1 DEF Uppermost
  <2>3. Answered(A, title, A[2].event) /\ Answered(A, back, A[1].event)
    BY <2>2, AnsweredBy
  <2>4. ~Answered(A, ahead, "next")
    BY <1>9, <2>1 DEF Answered
  <2> QED
    BY <1>4, <1>9, <1>11, <1>13, <2>1, <2>3, <2>4 DEF Navigable
<1>14. CASE k # -12 /\ k # 12
  <2>1. DOMAIN A = 1..3 /\ A[1] = P1 /\ A[2] = T2 /\ A[3] = F3
    BY <1>10, <1>11, <1>14
  <2>2. Uppermost(A, title, 3, 2) /\ Uppermost(A, back, 3, 1) /\ Uppermost(A, ahead, 3, 3)
    BY <1>8, <1>9, <2>1 DEF Uppermost
  <2>3. Answered(A, title, A[2].event) /\ Answered(A, back, A[1].event) /\ Answered(A, ahead, A[3].event)
    BY <2>2, AnsweredBy
  <2> QED
    BY <1>4, <1>9, <1>11, <1>14, <2>1, <2>3 DEF Navigable
<1> QED
  BY <1>12, <1>13, <1>14
-----------------------------------------------------------------------------
(* Months *)

\* Whole years and a remainder of months.
LEMMA Twelfths ==
  ASSUME NEW i \in Int
  PROVE  i \div 12 \in Int /\ i % 12 \in 0..11 /\ i = 12 * (i \div 12) + (i % 12)
  OBVIOUS

\* A date is one of a year and a month.
Dated(date) == date.year \in Int /\ date.month \in 1..12 /\ date.day \in 1..31

\* Too short to have that day.
Short(i, day) == DaysIn((i - 1) \div 12, ((i - 1) % 12) + 1) < day

\* The month that many months away.
MonthsOn(date, k, to) ==
  /\ to.year \in Int /\ to.month \in 1..12 /\ Index(to) = Index(date) + k
  /\ \A day : Short(Index(date) + k, day) <=> DaysIn(to.year, to.month) < day

\* The month that emitCalendar takes from today is the one asked for.
LEMMA MonthsFromFacts ==
  ASSUME NEW date, date.year \in Int, date.month \in 1..12, NEW k \in Int
  PROVE  MonthsOn(date, k, MonthsFrom(date, k))
<1>0. PICK to : to = MonthsFrom(date, k)
  OBVIOUS
<1>1. PICK y \in Int, m \in 1..12 : y = date.year /\ m = date.month
  OBVIOUS
<1>2. PICK i \in Int, j \in Int : i = 12 * y + m - 1 + k /\ j = i + 1 /\ j - 1 = i
  OBVIOUS
<1>3. to.year = i \div 12 /\ to.month = (i % 12) + 1
  BY <1>0, <1>1, <1>2 DEF MonthsFrom
<1>4. Index(date) + k = j
  BY <1>1, <1>2 DEF Index
<1>5. i \div 12 \in Int /\ i % 12 \in 0..11 /\ i = 12 * (i \div 12) + (i % 12)
  BY Twelfths
<1>6. PICK q \in Int, r \in 0..11 : q = i \div 12 /\ r = i % 12
  BY <1>5
<1>7. to.year = q /\ to.month = r + 1 /\ i = 12 * q + r
  BY <1>3, <1>5, <1>6
<1>8. to.year \in Int /\ to.month \in 1..12
  BY <1>7
<1>9. Index(to) = j
  BY <1>2, <1>7 DEF Index
<1>10. \A day : Short(j, day) <=> DaysIn(to.year, to.month) < day
  BY <1>2, <1>3 DEF Short
<1>11. MonthsOn(date, k, to)
  BY <1>4, <1>8, <1>9, <1>10 DEF MonthsOn
<1> QED
  BY <1>0, <1>11

\* No month has fewer than twenty-eight days, and only some have fewer than thirty-one.
LEMMA DaysInFacts ==
  ASSUME NEW y, NEW m
  PROVE  /\ DaysIn(y, m) \in 28..31
         /\ DaysIn(y, m) # 31 => m \in {2, 4, 6, 9, 11}
  BY DEF DaysIn

\* Of two months that follow each other one has thirty-one days.
LEMMA NeverBothShort ==
  ASSUME NEW i \in Int, NEW day \in 1..31, Short(i, day)
  PROVE  ~Short(i - 1, day)
<1>1. PICK r \in 0..11, q \in 0..11 : r = (i - 1) % 12 /\ q = ((i - 1) - 1) % 12
  OBVIOUS
<1>2. r = (q + 1) % 12
  BY <1>1
<1>3. r + 1 \in {2, 4, 6, 9, 11}
  BY <1>1, DaysInFacts DEF Short
<1>4. Short(i - 1, day) => q + 1 \in {2, 4, 6, 9, 11}
  BY <1>1, DaysInFacts DEF Short
<1> QED
  BY <1>2, <1>3, <1>4

\* The month on display is the one asked for, or the one after if that is too short.
LEMMA AddMonthsFacts ==
  ASSUME NEW date, Dated(date), NEW k \in Int, NEW to, to = AddMonths(date, k)
  PROVE  /\ Dated(to)
         /\ Index(to) = Index(date) + k + (IF Short(Index(date) + k, date.day) THEN 1 ELSE 0)
<1>1. PICK a, b : a = MonthsFrom(date, k) /\ b = MonthsFrom(a, 1)
  OBVIOUS
<1>2. MonthsOn(date, k, a)
  BY <1>1, MonthsFromFacts DEF Dated
<1>a. a.year \in Int /\ a.month \in 1..12 /\ Index(a) = Index(date) + k
  BY <1>2 DEF MonthsOn
<1>b. MonthsOn(a, 1, b)
  BY <1>1, <1>a, MonthsFromFacts
<1>3. b.year \in Int /\ b.month \in 1..12 /\ Index(b) = Index(a) + 1
  BY <1>b DEF MonthsOn
<1>4. PICK n \in 28..31 : n = DaysIn(a.year, a.month)
  BY DaysInFacts
<1>5. PICK day \in 1..31 : day = date.day
  BY DEF Dated
<1>6. Short(Index(date) + k, date.day) <=> n < day
  <2>1. Short(Index(date) + k, date.day) <=> DaysIn(a.year, a.month) < date.day
    BY <1>2 DEF MonthsOn
  <2> QED
    BY <1>4, <1>5, <2>1
<1>7. to = IF day - n <= 0 THEN [year |-> a.year, month |-> a.month, day |-> day]
           ELSE [year |-> b.year, month |-> b.month, day |-> day - n]
  <2>1. to = IF date.day - DaysIn(a.year, a.month) <= 0
             THEN [year |-> a.year, month |-> a.month, day |-> date.day]
             ELSE [year |-> b.year, month |-> b.month, day |-> date.day - DaysIn(a.year, a.month)]
    BY <1>1, Zenon DEF AddMonths
  <2> QED
    BY <1>4, <1>5, <2>1
<1>8. PICK now \in Int : now = Index(date)
  BY DEF Dated, Index
<1>9. CASE day <= n
  <2>1. to.year = a.year /\ to.month = a.month /\ to.day = day
    BY <1>7, <1>9
  <2>2. Index(to) = Index(a)
    BY <2>1 DEF Index
  <2> QED
    BY <1>a, <1>5, <1>6, <1>8, <1>9, <2>1, <2>2 DEF Dated
<1>10. CASE ~(day <= n)
  <2>1. to.year = b.year /\ to.month = b.month /\ to.day = day - n
    BY <1>7, <1>10
  <2>2. Index(to) = Index(b)
    BY <2>1 DEF Index
  <2>3. day - n \in 1..31
    BY <1>10
  <2> QED
    BY <1>a, <1>3, <1>5, <1>6, <1>8, <1>10, <2>1, <2>2, <2>3 DEF Dated
<1> QED
  BY <1>9, <1>10

\* Which of the twelve months before and after can be shown.
LEMMA Reached ==
  ASSUME NEW date, Dated(date), NEW options, options.navigation = TRUE
  PROVE  MonthsReached(date, options)
<1>1. PICK now \in Int, day \in 1..31 : now = Index(date) /\ day = date.day
  BY DEF Dated, Index
<1> DEFINE Lands(k) == now + k + (IF Short(now + k, day) THEN 1 ELSE 0)
           shown == {Index(Shown(options, date, k)) : k \in -12..12}
<1>2. ASSUME NEW k \in -12..12 PROVE Index(Shown(options, date, k)) = Lands(k)
  <2>1. PICK to : to = AddMonths(date, k)
    OBVIOUS
  <2>2. Index(to) = Index(date) + k + (IF Short(Index(date) + k, date.day) THEN 1 ELSE 0)
    BY <2>1, AddMonthsFacts
  <2>3. Index(to) = Lands(k)
    BY <1>1, <2>2
  <2> QED
    BY <2>1, <2>3 DEF Shown
<1>3. ASSUME NEW i \in (now - 12)..(now + 12) PROVE i \notin shown <=> Short(i, day)
  <2>1. CASE ~Short(i, day)
    <3>1. PICK k \in -12..12 : k = i - now /\ now + k = i
      OBVIOUS
    <3>2. Lands(k) = i
      BY <2>1, <3>1
    <3> QED
      BY <1>2, <2>1, <3>2
  <2>2. CASE Short(i, day)
    <3>1. ASSUME NEW k \in -12..12, Lands(k) = i PROVE FALSE
      <4>1. CASE Short(now + k, day)
        <5>1. now + k = i - 1
          BY <3>1, <4>1
        <5> QED
          BY <2>2, <4>1, <5>1, NeverBothShort
      <4>2. CASE ~Short(now + k, day)
        <5>1. now + k = i
          BY <3>1, <4>2
        <5> QED
          BY <2>2, <4>2, <5>1
      <4> QED
        BY <4>1, <4>2
    <3> HIDE DEF Lands
    <3> QED
      BY <1>2, <2>2, <3>1
  <2> QED
    BY <2>1, <2>2
<1> QED
  BY <1>1, <1>3, Zenon DEF MonthsReached, Short

\* The number of a date.
LEMMA NumberInt ==
  ASSUME NEW date, Dated(date)
  PROVE  Number(date) \in Int
<1>1. PICK y \in Int : y = date.year - 1
  BY DEF Dated
<1>2. PICK before : before = <<0, 31, 59, 90, 120, 151, 181, 212, 243, 273, 304, 334>>
  OBVIOUS
<1>3. PICK b \in Int : b = before[date.month]
  BY <1>2 DEF Dated
<1>4. PICK d \in Int : d = date.day
  BY DEF Dated
<1>5. PICK e \in Int : e = IF date.month > 2 /\ Leap(date.year) THEN 1 ELSE 0
  OBVIOUS
<1>6. Number(date) = 365 * y + y \div 4 - y \div 100 + y \div 400 + b + d + e
  BY <1>1, <1>2, <1>3, <1>4, <1>5 DEF Number
<1>7. PICK p \in Int, q \in Int, r \in Int : p = y \div 4 /\ q = y \div 100 /\ r = y \div 400
  OBVIOUS
<1> QED
  BY <1>6, <1>7

\* Under which weekday a cell stands: the first week begins on the first one.
LEMMA Weekdays ==
  ASSUME NEW first \in Int, NEW c \in Nat, NEW options, options.weekStart \in {"monday", "sunday"}
  PROVE  /\ Skipped(options, first) \in 0..6
         /\ Weekday(first - Skipped(options, first) + c) = (Header(options, c % 7) + 1) % 7
<1>1. CASE options.weekStart = "sunday"
  <2>1. Skipped(options, first) = first % 7 /\ Header(options, c % 7) = ((c % 7) + 6) % 7
    BY <1>1 DEF Skipped, Weekday, Header
  <2>2. first % 7 \in 0..6 /\ (first - (first % 7) + c) % 7 = ((((c % 7) + 6) % 7) + 1) % 7
    OBVIOUS
  <2> QED
    BY <2>1, <2>2 DEF Weekday
<1>2. CASE options.weekStart = "monday"
  <2>1. Skipped(options, first) = ((first % 7) + 6) % 7 /\ Header(options, c % 7) = c % 7
    BY <1>2 DEF Skipped, Weekday, Header
  <2>2. /\ ((first % 7) + 6) % 7 \in 0..6
        /\ (first - (((first % 7) + 6) % 7) + c) % 7 = ((c % 7) + 1) % 7
    OBVIOUS
  <2> QED
    BY <2>1, <2>2 DEF Weekday
<1> QED
  BY <1>1, <1>2

\* What the property says of the cells of a month.
GridOf(month, cells, today, options) ==
  LET first == Number([month EXCEPT !.day = 1]) IN
  /\ {cells[c].day : c \in {d \in DOMAIN cells : ~cells[d].outside}}
       = first..(first + DaysIn(month.year, month.month) - 1)
  /\ options.spillover => DOMAIN cells = 0..41
  /\ \A c \in DOMAIN cells :
       /\ Weekday(cells[c].day) = (Header(options, c % 7) + 1) % 7
       /\ cells[c].today <=> cells[c].day = Number(today)
       /\ c + 1 \in DOMAIN cells => cells[c + 1].day = cells[c].day + 1

\* A grid with room for the days before the first of the month has room for all of the month.
LEMMA Complete ==
  ASSUME NEW date, Dated(date), NEW options, options.navigation = TRUE,
         options.weekStart \in {"monday", "sunday"}, NEW k \in Int
  PROVE  GridComplete(date, options, k)
<1>1. PICK month : month = AddMonths(date, k)
  OBVIOUS
<1>2. Dated(month) /\ Shown(options, date, k) = month
  BY <1>1, AddMonthsFacts DEF Shown
<1>3. PICK first : first = Number([month EXCEPT !.day = 1])
  OBVIOUS
<1>4. first \in Int
  <2>1. Dated([month EXCEPT !.day = 1])
    BY <1>1, <1>2 DEF Dated, AddMonths
  <2> QED
    BY <1>3, <2>1, NumberInt
<1>5. PICK n \in 28..31 : n = DaysIn(month.year, month.month)
  BY DaysInFacts
<1>6. PICK skipped \in 0..6 : skipped = Skipped(options, first)
  BY <1>4, Weekdays
<1>7. PICK start \in Int : start = first - skipped
  BY <1>4
<1> DEFINE drawn == {c \in 0..41 : options.spillover \/ start + c \in first..(first + n - 1)}
           cells == [c \in drawn |-> [day |-> start + c, outside |-> start + c \notin first..(first + n - 1),
                                      today |-> start + c = Number(date)]]
<1>8. Cells(options, date, k) = cells
  BY <1>2, <1>3, <1>5, <1>6, <1>7, Zenon DEF Cells
<1>9. \A c \in drawn : /\ cells[c].day = start + c
                       /\ cells[c].outside <=> start + c \notin first..(first + n - 1)
                       /\ cells[c].today <=> start + c = Number(date)
  OBVIOUS
<1>10. DOMAIN cells = drawn
  OBVIOUS
<1>11. {cells[c].day : c \in {d \in DOMAIN cells : ~cells[d].outside}} = first..(first + n - 1)
  <2>1. ASSUME NEW c \in drawn, ~cells[c].outside PROVE cells[c].day \in first..(first + n - 1)
    BY <1>9, <2>1
  <2>2. ASSUME NEW day \in first..(first + n - 1)
        PROVE  \E c \in drawn : ~cells[c].outside /\ cells[c].day = day
    <3>1. PICK c \in 0..41 : c = day - start /\ start + c = day
      BY <1>4, <1>6, <1>7
    <3>2. c \in drawn
      BY <3>1
    <3> QED
      BY <1>9, <3>1, <3>2
  <2> HIDE DEF cells, drawn
  <2> QED
    BY <1>10, <2>1, <2>2
<1>12. options.spillover => DOMAIN cells = 0..41
  BY <1>10
<1>13. ASSUME NEW c \in DOMAIN cells
       PROVE  /\ Weekday(cells[c].day) = (Header(options, c % 7) + 1) % 7
              /\ cells[c].today <=> cells[c].day = Number(date)
              /\ c + 1 \in DOMAIN cells => cells[c + 1].day = cells[c].day + 1
  <2>1. c \in drawn /\ c \in Nat
    BY <1>10
  <2>2. cells[c].day = start + c /\ (cells[c].today <=> start + c = Number(date))
    BY <1>9, <2>1
  <2>3. Weekday(start + c) = (Header(options, c % 7) + 1) % 7
    BY <1>4, <1>6, <1>7, <2>1, Weekdays
  <2>4. c + 1 \in DOMAIN cells => cells[c + 1].day = start + c + 1
    BY <1>9, <1>10, <2>1
  <2> HIDE DEF cells, drawn
  <2> QED
    BY <2>2, <2>3, <2>4
<1> HIDE DEF cells, drawn
<1> QED
  <2> DEFINE days == {cells[c].day : c \in {d \in DOMAIN cells : ~cells[d].outside}}
             one == Number([month EXCEPT !.day = 1])
  <2>1. days = one..(one + DaysIn(month.year, month.month) - 1)
    <3> HIDE DEF days
    <3>1. days = first..(first + n - 1)
      BY <1>11 DEF days
    <3> QED
      BY <1>3, <1>5, <3>1, Zenon
  <2>2. GridOf(month, cells, date, options)
    BY <1>12, <1>13, <2>1, Zenon DEF GridOf
  <2>3. GridOf(Shown(options, date, k), Cells(options, date, k), date, options)
    BY <1>2, <1>8, <2>2, Zenon
  <2> QED
    BY <2>3, Zenon DEF GridComplete, GridOf
-----------------------------------------------------------------------------
(* Lists *)

\* A sequence, of whatever it is.
List(s) == \E U : s \in Seq(U)

\* What a list is made of, joined to another or longer by one.
LEMMA Joined ==
  ASSUME NEW s, NEW t, List(s), List(t)
  PROVE  /\ List(s \o t) /\ Len(s \o t) = Len(s) + Len(t)
         /\ \A i \in 1..Len(s) : (s \o t)[i] = s[i]
         /\ \A i \in 1..Len(t) : (s \o t)[Len(s) + i] = t[i]
<1>1. PICK U, V : s \in Seq(U) /\ t \in Seq(V)
  BY DEF List
<1>2. s \in Seq(U \cup V) /\ t \in Seq(U \cup V)
  BY <1>1
<1>3. /\ s \o t \in Seq(U \cup V) /\ Len(s \o t) = Len(s) + Len(t)
      /\ \A i \in 1..(Len(s) + Len(t)) : (s \o t)[i] = IF i <= Len(s) THEN s[i] ELSE t[i - Len(s)]
  BY <1>2, ConcatProperties
<1>4. Len(s) \in Nat /\ Len(t) \in Nat
  BY <1>1
<1>5. ASSUME NEW i \in 1..Len(t) PROVE (s \o t)[Len(s) + i] = t[i]
  <2>1. Len(s) + i \in 1..(Len(s) + Len(t)) /\ ~(Len(s) + i <= Len(s)) /\ (Len(s) + i) - Len(s) = i
    BY <1>4
  <2> QED
    BY <1>3, <2>1
<1> QED
  BY <1>3, <1>4, <1>5 DEF List

\* Its positions are the numbers up to its length.
LEMMA ListFacts ==
  ASSUME NEW s, List(s)
  PROVE  Len(s) \in Nat /\ DOMAIN s = 1..Len(s)
  BY DEF List

\* Nothing else is in two lists joined.
LEMMA JoinedRange ==
  ASSUME NEW s, NEW t, List(s), List(t)
  PROVE  Range(s \o t) = Range(s) \cup Range(t)
<1>1. PICK m \in Nat, n \in Nat : m = Len(s) /\ n = Len(t) /\ DOMAIN s = 1..m /\ DOMAIN t = 1..n
  BY ListFacts
<1>2. PICK r : r = s \o t
  OBVIOUS
<1>3. DOMAIN r = 1..(m + n)
  BY <1>1, <1>2, Joined, ListFacts
<1>4. /\ \A i \in 1..m : r[i] = s[i]
      /\ \A i \in 1..n : r[m + i] = t[i]
  BY <1>1, <1>2, Joined
<1>5. Range(r) \subseteq Range(s) \cup Range(t)
  <2> SUFFICES ASSUME NEW i \in 1..(m + n) PROVE r[i] \in Range(s) \cup Range(t)
    BY <1>3 DEF Range
  <2>1. CASE i <= m
    BY <1>1, <1>4, <2>1 DEF Range
  <2>2. CASE ~(i <= m)
    <3>1. PICK j \in 1..n : i = m + j
      <4>1. i - m \in 1..n /\ i = m + (i - m)
        BY <2>2
      <4> QED
        BY <4>1
    <3> QED
      BY <1>1, <1>4, <3>1 DEF Range
  <2> QED
    BY <2>1, <2>2
<1>6. Range(s) \subseteq Range(r)
  BY <1>1, <1>3, <1>4 DEF Range
<1>7. Range(t) \subseteq Range(r)
  <2> SUFFICES ASSUME NEW i \in 1..n PROVE t[i] \in Range(r)
    BY <1>1 DEF Range
  <2>1. m + i \in 1..(m + n)
    OBVIOUS
  <2> QED
    BY <1>3, <1>4, <2>1 DEF Range
<1> QED
  BY <1>2, <1>5, <1>6, <1>7

\* A list of one.
LEMMA Single ==
  ASSUME NEW e
  PROVE  List(<<e>>) /\ Len(<<e>>) = 1 /\ <<e>>[1] = e /\ Range(<<e>>) = {e}
<1>1. PICK s : s = <<e>>
  OBVIOUS
<1>2. s \in Seq({e}) /\ Len(s) = 1 /\ DOMAIN s = 1..1 /\ s[1] = e
  BY <1>1
<1>3. Range(s) = {e}
  BY <1>2 DEF Range
<1> QED
  BY <1>1, <1>2, <1>3 DEF List

\* A list of none.
LEMMA Empty == List(<<>>) /\ Len(<<>>) = 0 /\ Range(<<>>) = {}
<1>1. <<>> \in Seq({})
  OBVIOUS
<1> QED
  BY <1>1 DEF List, Range

\* A list longer by one.
LEMMA Appended ==
  ASSUME NEW s, List(s), NEW e
  PROVE  /\ List(Append(s, e)) /\ Len(Append(s, e)) = Len(s) + 1
         /\ \A i \in 1..Len(s) : Append(s, e)[i] = s[i]
         /\ Append(s, e)[Len(s) + 1] = e
         /\ Range(Append(s, e)) = Range(s) \cup {e}
<1>1. PICK U : s \in Seq(U)
  BY DEF List
<1>2. s \in Seq(U \cup {e}) /\ e \in U \cup {e}
  BY <1>1
<1>3. /\ Append(s, e) \in Seq(U \cup {e}) /\ Len(Append(s, e)) = Len(s) + 1
      /\ \A i \in 1..Len(s) : Append(s, e)[i] = s[i]
      /\ Append(s, e)[Len(s) + 1] = e
  BY <1>2, AppendProperties
<1>4. PICK n \in Nat : n = Len(s) /\ DOMAIN s = 1..n
  BY ListFacts
<1>5. PICK r : r = Append(s, e)
  OBVIOUS
<1>6. DOMAIN r = 1..(n + 1)
  BY <1>3, <1>4, <1>5
<1>7. Range(r) = Range(s) \cup {e}
  BY <1>3, <1>4, <1>5, <1>6 DEF Range
<1> QED
  BY <1>3, <1>5, <1>7 DEF List

\* A list shorter by one.
LEMMA Shortened ==
  ASSUME NEW s, List(s), Len(s) # 0
  PROVE  /\ List(Front(s)) /\ Len(Front(s)) = Len(s) - 1
         /\ \A i \in 1..(Len(s) - 1) : Front(s)[i] = s[i]
         /\ Last(s) = s[Len(s)]
<1>1. PICK U : s \in Seq(U)
  BY DEF List
<1>2. Len(s) \in Nat
  BY <1>1
<1>3. Front(s) = SubSeq(s, 1, Len(s) - 1)
  BY DEF Front
<1>4. PICK n \in Nat : n = Len(s) - 1
  BY <1>2
<1>5. \A i \in 1..n : s[i] \in U
  BY <1>1, <1>4
<1>6. 1 \in Int /\ n \in Int
  BY <1>4
<1>7. /\ SubSeq(s, 1, n) \in Seq(U) /\ Len(SubSeq(s, 1, n)) = IF 1 <= n THEN n - 1 + 1 ELSE 0
      /\ \A i \in 1..(n - 1 + 1) : SubSeq(s, 1, n)[i] = s[1 + i - 1]
  BY <1>5, <1>6, SubSeqProperties
<1>8. PICK r : r = SubSeq(s, 1, n)
  OBVIOUS
<1>9. Len(r) = n /\ \A i \in 1..n : r[i] = s[i]
  BY <1>4, <1>7, <1>8
<1> QED
  BY <1>3, <1>4, <1>7, <1>8, <1>9 DEF List, Last
-----------------------------------------------------------------------------
(* The compiler's loop *)

\* What the compiler keeps.
Fields == {"stack", "seen", "view", "refresh", "page", "ids", "deps", "order",
           "actions", "regions", "widgets", "drawn", "error"}

\* A state that differs from another in some fields only.
Alters(s, t, fields) ==
  /\ DOMAIN s = Fields /\ DOMAIN t = Fields
  /\ \A f \in Fields \ fields : t[f] = s[f]

\* What an accepted element adds to what the compiler knows.
FirstView(s, el) == IF s.seen THEN s.view ELSE el.view
FirstRefresh(s, el) == IF s.seen THEN s.refresh ELSE IF el.refresh = None THEN 0 ELSE el.refresh
Faster(r, el) == IF Navigated(el) /\ (r = 0 \/ r > 1) THEN 1 ELSE r

\* All of it, in one step.
Noted(s, t, el) ==
  /\ Alters(s, t, {"stack", "seen", "view", "refresh", "page", "ids", "deps", "widgets"})
  /\ t.seen = TRUE
  /\ t.view = FirstView(s, el)
  /\ t.refresh = Faster(FirstRefresh(s, el), el)
  /\ t.page = IF el.page # None /\ s.page = None THEN el.page ELSE s.page
  /\ t.deps = s.deps \cup DependsOn(el)
  /\ t.ids = IF el.widget # None /\ el.id # None THEN s.ids \cup {el.id} ELSE s.ids
  /\ t.stack = Append(s.stack, Child(s, el))

\* That is what reading its attributes does (the first half of StartElement).
LEMMA NotedBy ==
  ASSUME NEW s, DOMAIN s = Fields, s.seen \in BOOLEAN, NEW el
  PROVE  Noted(s, Pushed(Tracked(Paged(Rooted(s, el), el), el), Child(s, el)), el)
<1>1. PICK r : r = Rooted(s, el)
  OBVIOUS
<1>2. /\ Alters(s, r, {"seen", "view", "refresh"}) /\ r.seen = TRUE
      /\ r.view = FirstView(s, el) /\ r.refresh = FirstRefresh(s, el)
  BY <1>1 DEF Rooted, Alters, Fields, FirstView, FirstRefresh
<1>3. PICK p : p = Paged(r, el)
  OBVIOUS
<1>4. /\ Alters(r, p, {"page"})
      /\ p.page = IF el.page # None /\ r.page = None THEN el.page ELSE r.page
  BY <1>2, <1>3 DEF Paged, Alters, Fields
<1>5. PICK t : t = Tracked(p, el)
  OBVIOUS
<1>6. /\ Alters(p, t, {"deps", "ids", "widgets", "refresh"})
      /\ t.deps = p.deps \cup DependsOn(el)
      /\ t.ids = IF el.widget # None /\ el.id # None THEN p.ids \cup {el.id} ELSE p.ids
      /\ t.refresh = Faster(p.refresh, el)
  BY <1>4, <1>5 DEF Tracked, Alters, Fields, Faster
<1>7. PICK u : u = Pushed(t, Child(s, el))
  OBVIOUS
<1>8. Alters(t, u, {"stack"}) /\ u.stack = Append(t.stack, Child(s, el))
  BY <1>6, <1>7 DEF Pushed, Alters, Fields
<1>9. Noted(s, u, el)
  BY <1>2, <1>4, <1>6, <1>8 DEF Noted, Alters, Fields
<1> QED
  BY <1>1, <1>3, <1>5, <1>7, <1>9

\* What it adds to the drawing and to the regions, if it is not hidden.
At(view, child, rect, order, recipient, id, target) ==
  LET r == TransformRect(rect, child.matrix, view) IN
  [x |-> r.x, y |-> r.y, width |-> r.width, height |-> r.height,
   recipient |-> recipient, id |-> id, target |-> target, order |-> order]

Own(view, order, el, child) == At(view, child, ElementRect(el), order, "webhook", el.id, el.action)
Months(el) == NavigationRegions(el.options, Offset)
Turns(view, order, el, child) ==
  [i \in DOMAIN Months(el) |->
     At(view, child, Months(el)[i], order + i - 1, "widget", el.id, Months(el)[i].event)]

TappedOrder(order, el) == IF Tappable(el) THEN order + 1 ELSE order
WithOwn(view, order, list, el, child) == Append(list, Own(view, order, el, child))
TappedActions(view, order, actions, el, child) ==
  IF el.action = None THEN actions ELSE WithOwn(view, order, actions, el, child)
TappedRegions(view, order, regions, el, child) ==
  IF el.region = None THEN regions ELSE WithOwn(view, order, regions, el, child)
TurnedOrder(order, el) == IF el.widget = "calendar" THEN order + Len(Months(el)) ELSE order
TurnedActions(view, order, actions, el, child) ==
  IF el.widget = "calendar" THEN actions \o Turns(view, order, el, child) ELSE actions

\* What is drawn of it after its own start.
Written(el) ==
  CASE el.value # None /\ el.widget = None -> <<Chars>>
    [] el.widget = "calendar" -> <<[is |-> "month", cells |-> Cells(el.options, Today, Offset)]>>
    [] el.widget \notin {None, "calendar"} ->
         <<Opened(Plain("svg"))>> \o Stripped(Fragments[el.widget]) \o <<Closed>>
    [] OTHER -> <<>>

\* All of that, in one step.
Displayed(s, t, el, child) ==
  /\ Alters(s, t, {"order", "actions", "regions", "drawn"})
  /\ t.order = TurnedOrder(TappedOrder(s.order, el), el)
  /\ t.regions = TappedRegions(s.view, s.order, s.regions, el, child)
  /\ t.actions = TurnedActions(s.view, TappedOrder(s.order, el),
                               TappedActions(s.view, s.order, s.actions, el, child), el, child)
  /\ t.drawn = s.drawn \o <<Opened(el)>> \o Written(el)

\* That is what drawing it does (the second half of StartElement).
LEMMA DisplayedBy ==
  ASSUME NEW s, DOMAIN s = Fields, NEW el, NEW child
  PROVE  Displayed(s, Navigation(Drawn(Tapped(s, el, child), el), el, child), el, child)
<1>1. PICK t : t = Tapped(s, el, child)
  OBVIOUS
<1>2. Placed(s, child, ElementRect(el), s.order, "webhook", el.id, el.action) = Own(s.view, s.order, el, child)
  BY Zenon DEF Placed, Own, At
<1>3. /\ Alters(s, t, {"order", "actions", "regions"})
      /\ t.order = TappedOrder(s.order, el)
      /\ t.actions = TappedActions(s.view, s.order, s.actions, el, child)
      /\ t.regions = TappedRegions(s.view, s.order, s.regions, el, child)
  <2>1. PICK r : r = Own(s.view, s.order, el, child)
    OBVIOUS
  <2>2. CASE Tappable(el)
    <3>1. t = [s EXCEPT !.order = @ + 1,
                 !.actions = IF el.action = None THEN @ ELSE Append(@, r),
                 !.regions = IF el.region = None THEN @ ELSE Append(@, r)]
      BY <1>1, <1>2, <2>1, <2>2, Zenon DEF Tapped
    <3> QED
      BY <2>1, <2>2, <3>1 DEF Alters, Fields, TappedOrder, TappedActions, TappedRegions, WithOwn
  <2>3. CASE ~Tappable(el)
    <3>1. t = s
      BY <1>1, <2>3, Zenon DEF Tapped
    <3> QED
      BY <2>3, <3>1 DEF Alters, Fields, TappedOrder, TappedActions, TappedRegions, Tappable
  <2> QED
    BY <2>2, <2>3
<1>4. PICK d : d = Drawn(t, el)
  OBVIOUS
<1>5. Alters(t, d, {"drawn"}) /\ d.drawn = t.drawn \o <<Opened(el)>> \o Written(el)
  <2>1. d = [t EXCEPT !.drawn = @ \o <<Opened(el)>> \o Written(el)]
    BY <1>4, Zenon DEF Drawn, Written
  <2> QED
    BY <1>3, <2>1 DEF Alters, Fields
<1>6. PICK n : n = Navigation(d, el, child)
  OBVIOUS
<1>7. /\ Alters(d, n, {"order", "actions"})
      /\ n.order = TurnedOrder(d.order, el)
      /\ n.actions = TurnedActions(d.view, d.order, d.actions, el, child)
  <2>1. CASE el.widget = "calendar"
    <3>1. [i \in DOMAIN Months(el) |->
             Placed(d, child, Months(el)[i], d.order + i - 1, "widget", el.id, Months(el)[i].event)]
            = Turns(d.view, d.order, el, child)
      BY Zenon DEF Placed, Turns, At
    <3>2. n = [d EXCEPT !.order = @ + Len(Months(el)), !.actions = @ \o Turns(d.view, d.order, el, child)]
      BY <1>6, <2>1, <3>1, Zenon DEF Navigation, Months
    <3> QED
      BY <1>5, <2>1, <3>2 DEF Alters, Fields, TurnedOrder, TurnedActions
  <2>2. CASE el.widget # "calendar"
    <3>1. n = d
      BY <1>6, <2>2, Zenon DEF Navigation
    <3> QED
      BY <1>5, <2>2, <3>1 DEF Alters, Fields, TurnedOrder, TurnedActions
  <2> QED
    BY <2>1, <2>2
<1>8. Displayed(s, n, el, child)
  BY <1>3, <1>5, <1>7 DEF Displayed, Alters, Fields
<1> QED
  BY <1>1, <1>4, <1>6, <1>8
-----------------------------------------------------------------------------
(* Regions are numbered, values are tracked *)

\* Every region has a greater number than those before it.
Numbered(order, actions) ==
  /\ order \in Nat /\ List(actions)
  /\ \A i \in 1..Len(actions) : actions[i].order \in Nat /\ actions[i].order < order
  /\ \A i, j \in 1..Len(actions) : i < j => actions[i].order < actions[j].order

\* A region has the number it was given.
LEMMA AtOrder ==
  ASSUME NEW view, NEW child, NEW rect, NEW order, NEW recipient, NEW id, NEW target
  PROVE  LET a == At(view, child, rect, order, recipient, id, target) IN
         a.order = order /\ a.recipient = recipient /\ a.id = id
  BY DEF At

\* A calendar has at most three regions, and without navigation none.
LEMMA MonthsList ==
  ASSUME NEW el
  PROVE  /\ List(Months(el))
         /\ Len(Months(el)) # 0 => el.options.navigation
<1> DEFINE o == el.options
           top == Larger(0, 10 * o.y - o.height)
           bottom == 100 * o.y + 14 * o.height
           R(event, left, width) ==
             IF Offered(event, Offset)
             THEN << [event |-> event, id |-> o.id, x |-> left, width |-> width,
                      y |-> Trunc(top, 10), height |-> Trunc(bottom - 10 * top, 100)] >>
             ELSE <<>>
           P == R("previous", Trunc(Larger(0, 20 * o.x - o.height), 20), Trunc(4 * o.width + o.height, 20))
           T == R("today", Trunc(5 * o.x + o.width, 5), Trunc(3 * o.width, 5))
           N == R("next", Trunc(5 * o.x + 4 * o.width, 5), Trunc(4 * o.width + o.height, 20))
<1>1. Months(el) = IF ~o.navigation THEN <<>> ELSE P \o T \o N
  BY Zenon DEF Months, NavigationRegions
<1>2. ASSUME NEW event, NEW left, NEW width PROVE List(R(event, left, width))
  <2>1. PICK r : r = [event |-> event, id |-> o.id, x |-> left, width |-> width,
                      y |-> Trunc(top, 10), height |-> Trunc(bottom - 10 * top, 100)]
    OBVIOUS
  <2>2. R(event, left, width) = IF Offered(event, Offset) THEN <<r>> ELSE <<>>
    BY <2>1, Zenon
  <2> HIDE DEF R
  <2> QED
    BY <2>2, Single, Empty
<1> HIDE DEF R
<1>3. List(P) /\ List(T) /\ List(N)
  BY <1>2
<1> HIDE DEF P, T, N
<1>4. List(P \o T \o N)
  BY <1>3, Joined
<1>5. CASE ~o.navigation
  BY <1>1, <1>5, Empty
<1>6. CASE o.navigation
  BY <1>1, <1>4, <1>6
<1> QED
  BY <1>5, <1>6

\* They are numbered one by one.
LEMMA TurnsList ==
  ASSUME NEW view, NEW order, NEW el, NEW child
  PROVE  LET turns == Turns(view, order, el, child) IN
         /\ List(turns) /\ Len(turns) = Len(Months(el))
         /\ \A i \in 1..Len(turns) : /\ turns[i].order = order + i - 1
                                     /\ turns[i].recipient = "widget" /\ turns[i].id = el.id
<1>1. PICK n \in Nat : n = Len(Months(el)) /\ DOMAIN Months(el) = 1..n
  BY MonthsList, ListFacts
<1>2. PICK turns : turns = Turns(view, order, el, child)
  OBVIOUS
<1> DEFINE F(i) == At(view, child, Months(el)[i], order + i - 1, "widget", el.id, Months(el)[i].event)
<1>3. \A i : F(i).order = order + i - 1 /\ F(i).recipient = "widget" /\ F(i).id = el.id
  BY AtOrder
<1>4. turns = [i \in DOMAIN Months(el) |-> F(i)]
  BY <1>2 DEF Turns
<1> HIDE DEF F
<1>5. turns = [i \in 1..n |-> F(i)]
  BY <1>1, <1>4
<1>6. turns \in Seq({F(i) : i \in 1..n}) /\ Len(turns) = n
  BY <1>5
<1>7. \A i \in 1..n : turns[i] = F(i)
  BY <1>5
<1>8. List(turns)
  BY <1>6 DEF List
<1> QED
  BY <1>1, <1>2, <1>3, <1>6, <1>7, <1>8

\* So it stays when regions with the next numbers are added.
LEMMA NumberedMore ==
  ASSUME NEW order, NEW actions, Numbered(order, actions), NEW more, List(more),
         NEW n \in Nat, n = Len(more), \A i \in 1..n : more[i].order = order + i - 1
  PROVE  Numbered(order + n, actions \o more)
<1>1. PICK m \in Nat, k \in Nat : m = Len(actions) /\ k = order
  BY ListFacts DEF Numbered
<1>2. PICK r : r = actions \o more
  OBVIOUS
<1>3. /\ List(r) /\ Len(r) = m + n
      /\ \A i \in 1..m : r[i] = actions[i]
      /\ \A i \in 1..n : r[m + i] = more[i]
  BY <1>1, <1>2, Joined DEF Numbered
<1>4. \A i \in 1..m : r[i].order \in Nat /\ r[i].order < k
  BY <1>1, <1>3 DEF Numbered
<1>5. \A i, j \in 1..m : i < j => r[i].order < r[j].order
  BY <1>1, <1>3 DEF Numbered
<1>6. ASSUME NEW j \in 1..(m + n), j > m PROVE r[j].order = k + (j - m) - 1
  <2>1. PICK i \in 1..n : i = j - m /\ j = m + i
    <3>1. j - m \in 1..n /\ j = m + (j - m)
      BY <1>6
    <3> QED
      BY <3>1
  <2>2. r[j] = more[i]
    BY <1>3, <2>1
  <2> QED
    BY <1>1, <2>1, <2>2
<1>7. \A i \in 1..(m + n) : r[i].order \in Nat /\ r[i].order < k + n
  BY <1>4, <1>6
<1>8. \A i, j \in 1..(m + n) : i < j => r[i].order < r[j].order
  <2> SUFFICES ASSUME NEW i \in 1..(m + n), NEW j \in 1..(m + n), i < j
               PROVE  r[i].order < r[j].order
    OBVIOUS
  <2>1. CASE j <= m
    BY <1>5, <2>1
  <2>2. CASE i <= m /\ j > m
    BY <1>4, <1>6, <2>2
  <2>3. CASE i > m
    BY <1>6, <2>3
  <2> QED
    BY <2>1, <2>2, <2>3
<1> QED
  BY <1>1, <1>2, <1>3, <1>7, <1>8 DEF Numbered

\* So it stays when an element is drawn.
LEMMA NumberedShown ==
  ASSUME NEW s, NEW t, NEW el, NEW child, Displayed(s, t, el, child), Numbered(s.order, s.actions)
  PROVE  Numbered(t.order, t.actions)
<1>0. s.order \in Nat
  BY DEF Numbered
<1>1. PICK order, actions, view : order = s.order /\ actions = s.actions /\ view = s.view
  OBVIOUS
<1>2. PICK o1, a1 : o1 = TappedOrder(order, el) /\ a1 = TappedActions(view, order, actions, el, child)
  OBVIOUS
<1>3. order \in Nat /\ o1 \in {order, order + 1} /\ Numbered(order, actions)
  BY <1>0, <1>1, <1>2 DEF TappedOrder
<1>4. Numbered(o1, a1)
  <2>1. CASE el.action = None
    <3>1. a1 = actions
      BY <1>2, <2>1 DEF TappedActions
    <3> QED
      BY <1>3, <3>1 DEF Numbered
  <2>2. CASE el.action # None
    <3>1. o1 = order + 1
      BY <1>2, <2>2 DEF TappedOrder, Tappable
    <3>2. PICK r : r = Own(view, order, el, child)
      OBVIOUS
    <3>3. r.order = order
      BY <3>2, AtOrder DEF Own
    <3>4. a1 = Append(actions, r)
      BY <1>2, <2>2, <3>2 DEF TappedActions, WithOwn
    <3>5. a1 = actions \o <<r>>
      <4>1. PICK U : actions \in Seq(U)
        BY <1>3 DEF Numbered, List
      <4>2. actions \in Seq(U \cup {r}) /\ r \in U \cup {r}
        BY <4>1
      <4> QED
        BY <3>4, <4>2, AppendIsConcat
    <3>6. PICK more : more = <<r>>
      OBVIOUS
    <3>7. List(more) /\ Len(more) = 1 /\ more[1] = r
      BY <3>6, Single
    <3>8. \A i \in 1..1 : more[i].order = order + i - 1
      BY <1>3, <3>3, <3>7
    <3>9. Numbered(order + 1, actions \o more)
      BY <1>3, <3>7, <3>8, NumberedMore
    <3> QED
      BY <3>1, <3>5, <3>6, <3>9
  <2> QED
    BY <2>1, <2>2
<1>5. t.order = TurnedOrder(o1, el) /\ t.actions = TurnedActions(view, o1, a1, el, child)
  BY <1>1, <1>2 DEF Displayed
<1>6. CASE el.widget # "calendar"
  BY <1>4, <1>5, <1>6 DEF TurnedOrder, TurnedActions
<1>7. CASE el.widget = "calendar"
  <2>0. PICK n \in Nat : n = Len(Months(el))
    BY MonthsList, ListFacts
  <2>1. PICK turns : turns = Turns(view, o1, el, child)
    OBVIOUS
  <2>2. List(turns) /\ n = Len(turns) /\ \A i \in 1..n : turns[i].order = o1 + i - 1
    BY <2>0, <2>1, TurnsList
  <2>3. Numbered(o1 + n, a1 \o turns)
    BY <1>4, <2>2, NumberedMore
  <2>4. t.order = o1 + n /\ t.actions = a1 \o turns
    BY <1>5, <1>7, <2>0, <2>1 DEF TurnedOrder, TurnedActions
  <2> QED
    BY <2>3, <2>4
<1> QED
  BY <1>6, <1>7

\* What is drawn shows values that are tracked; a calendar that can be moved is drawn every minute.
Shows(d, deps) ==
  d.is = "start" =>
    LET el == d.el IN
    /\ el.value # None => el.value \subseteq deps
    /\ el.widget = "calendar" => <<"system", "date">> \in deps
    /\ el.widget \notin {None, "calendar"} => <<"system", "time">> \in deps

Moves(a, deps, refresh) == a.recipient = "widget" => MonthKey(a.id) \in deps /\ refresh = 1

\* Both hold of everything drawn and placed so far.
Tracking(s) ==
  /\ s.seen \in BOOLEAN /\ s.refresh \in Nat
  /\ List(s.drawn) /\ List(s.actions)
  /\ ~s.seen => s.actions = <<>>
  /\ \A d \in Range(s.drawn) : Shows(d, s.deps)
  /\ \A a \in Range(s.actions) : Moves(a, s.deps, s.refresh)

\* Reading an element tracks what it depends on and forgets nothing.
LEMMA TrackingNoted ==
  ASSUME NEW s, NEW t, NEW el, Noted(s, t, el), Tracking(s), ~Rejected(s, el)
  PROVE  /\ Tracking(t) /\ t.seen = TRUE
         /\ DependsOn(el) \subseteq t.deps /\ (Navigated(el) => t.refresh = 1)
<1>1. /\ t.seen = TRUE /\ t.drawn = s.drawn /\ t.actions = s.actions
      /\ t.deps = s.deps \cup DependsOn(el) /\ t.refresh = Faster(FirstRefresh(s, el), el)
  BY DEF Noted, Alters, Fields
<1>2. FirstRefresh(s, el) \in Nat
  <2>1. CASE s.seen
    BY <2>1 DEF FirstRefresh, Tracking
  <2>2. CASE ~s.seen
    <3>1. ~RootRejected(el)
      BY <2>2, Zenon DEF Rejected
    <3>0. PICK n \in Nat : n = 24 * 60
      OBVIOUS
    <3>2. el.refresh = None \/ el.refresh \in 1..n
      BY <3>0, <3>1, Zenon DEF RootRejected
    <3>3. el.refresh # None => el.refresh \in Nat
      BY <3>2
    <3>4. FirstRefresh(s, el) = IF el.refresh = None THEN 0 ELSE el.refresh
      BY <2>2, Zenon DEF FirstRefresh
    <3> QED
      BY <3>3, <3>4
  <2> QED
    BY <2>1, <2>2
<1>3. t.refresh \in Nat /\ (Navigated(el) => t.refresh = 1)
  BY <1>1, <1>2 DEF Faster
<1>4. ASSUME NEW d, Shows(d, s.deps) PROVE Shows(d, t.deps)
  BY <1>1, <1>4 DEF Shows
<1>5. \A a \in Range(s.actions) : Moves(a, t.deps, t.refresh)
  <2>1. CASE s.seen
    BY <1>1, <2>1 DEF Tracking, Moves, FirstRefresh, Faster
  <2>2. CASE ~s.seen
    BY <2>2, Empty DEF Tracking
  <2> QED
    BY <2>1, <2>2
<1> QED
  BY <1>1, <1>3, <1>4, <1>5 DEF Tracking

\* A fragment draws nothing that depends on a value.
LEMMA StrippedShows ==
  ASSUME NEW w \in DOMAIN Fragments, NEW deps
  PROVE  List(Stripped(Fragments[w])) /\ \A d \in Range(Stripped(Fragments[w])) : Shows(d, deps)
<1>0. Fragments[w] \in Seq(Range(Fragments[w]))
  BY CompilerAssumption
<1>1. PICK f : f = Fragments[w]
  OBVIOUS
<1>n. PICK n \in Nat : DOMAIN f = 1..n
  BY <1>0, <1>1
<1> DEFINE G(i) == IF f[i].is = "start" THEN Opened(Plain(f[i].el.name)) ELSE f[i]
<1>2. PICK r : r = Stripped(Fragments[w])
  OBVIOUS
<1>3. r = [i \in DOMAIN f |-> G(i)]
  BY <1>1, <1>2, Zenon DEF Stripped
<1>4. \A i : Shows(G(i), deps)
  BY CompilerAssumption DEF Shows, Opened, Plain
<1> HIDE DEF G
<1>5. r \in Seq({G(i) : i \in 1..n})
  BY <1>n, <1>3
<1>6. \A d \in Range(r) : Shows(d, deps)
  BY <1>3, <1>4 DEF Range
<1> QED
  BY <1>2, <1>5, <1>6 DEF List

\* What a tracked element writes shows nothing that is not.
LEMMA WrittenShows ==
  ASSUME NEW el, NEW s, ~Rejected(s, el), ~(Top(s).skip \/ HiddenPage(s, el)), NEW deps
  PROVE  List(Written(el)) /\ \A d \in Range(Written(el)) : Shows(d, deps)
<1>1. List(<<Chars>>) /\ Range(<<Chars>>) = {Chars} /\ Shows(Chars, deps)
  BY Single DEF Shows, Chars
<1>2. PICK month : month = [is |-> "month", cells |-> Cells(el.options, Today, Offset)]
  OBVIOUS
<1>3. List(<<month>>) /\ Range(<<month>>) = {month} /\ Shows(month, deps)
  BY <1>2, Single DEF Shows
<1>4. CASE el.widget \in {None, "calendar"}
  <2>1. Written(el) \in {<<Chars>>, <<month>>, <<>>}
    BY <1>2, <1>4 DEF Written
  <2> QED
    BY <1>1, <1>3, <2>1, Empty
<1>5. CASE el.widget \notin {None, "calendar"}
  <2>1. el.widget \in DOMAIN Fragments
    BY <1>5, Zenon DEF Rejected
  <2>2. PICK svg, f, closed : /\ svg = <<Opened(Plain("svg"))>> /\ f = Stripped(Fragments[el.widget])
                              /\ closed = <<Closed>>
    OBVIOUS
  <2>3. Written(el) = svg \o f \o closed
    BY <1>5, <2>2 DEF Written
  <2>4. Shows(Opened(Plain("svg")), deps) /\ Shows(Closed, deps)
    BY CompilerAssumption DEF Shows, Opened, Plain, Closed
  <2>5. /\ List(svg) /\ \A d \in Range(svg) : Shows(d, deps)
        /\ List(f) /\ \A d \in Range(f) : Shows(d, deps)
        /\ List(closed) /\ \A d \in Range(closed) : Shows(d, deps)
    BY <2>1, <2>2, <2>4, StrippedShows, Single
  <2>6. List(svg \o f) /\ Range(svg \o f) = Range(svg) \cup Range(f)
    BY <2>5, Joined, JoinedRange
  <2>7. /\ List(svg \o f \o closed)
        /\ Range(svg \o f \o closed) = Range(svg) \cup Range(f) \cup Range(closed)
    BY <2>5, <2>6, Joined, JoinedRange
  <2> QED
    BY <2>3, <2>5, <2>7
<1> QED
  BY <1>4, <1>5

\* So what is drawn is tracked when its element has been noted.
LEMMA TrackingShown ==
  ASSUME NEW s, NEW t, NEW u, NEW el, NEW child,
         ~Rejected(s, el), ~(Top(s).skip \/ HiddenPage(s, el)),
         Displayed(t, u, el, child), Tracking(t), t.seen = TRUE,
         DependsOn(el) \subseteq t.deps, Navigated(el) => t.refresh = 1
  PROVE  Tracking(u)
<1>1. u.seen = t.seen /\ u.deps = t.deps /\ u.refresh = t.refresh
  BY DEF Displayed, Alters, Fields
<1>2. /\ List(u.drawn) /\ \A d \in Range(u.drawn) : Shows(d, u.deps)
  <2>1. PICK drawn, e, w : drawn = t.drawn /\ e = <<Opened(el)>> /\ w = Written(el)
    OBVIOUS
  <2>2. u.drawn = drawn \o e \o w
    BY <2>1 DEF Displayed
  <2>3. Shows(Opened(el), u.deps)
    BY <1>1, CompilerAssumption DEF Shows, Opened, DependsOn
  <2>4. /\ List(drawn) /\ \A d \in Range(drawn) : Shows(d, u.deps)
        /\ List(e) /\ \A d \in Range(e) : Shows(d, u.deps)
        /\ List(w) /\ \A d \in Range(w) : Shows(d, u.deps)
    BY <1>1, <2>1, <2>3, WrittenShows, Single DEF Tracking
  <2>5. List(drawn \o e) /\ Range(drawn \o e) = Range(drawn) \cup Range(e)
    BY <2>4, Joined, JoinedRange
  <2>6. List(drawn \o e \o w) /\ Range(drawn \o e \o w) = Range(drawn) \cup Range(e) \cup Range(w)
    BY <2>4, <2>5, Joined, JoinedRange
  <2> QED
    BY <2>2, <2>4, <2>6
<1>3. /\ List(u.actions) /\ \A a \in Range(u.actions) : Moves(a, u.deps, u.refresh)
  <2>1. PICK view, order, actions : view = t.view /\ order = t.order /\ actions = t.actions
    OBVIOUS
  <2>2. PICK a1, o1 : a1 = TappedActions(view, order, actions, el, child) /\ o1 = TappedOrder(order, el)
    OBVIOUS
  <2>3. u.actions = TurnedActions(view, o1, a1, el, child)
    BY <2>1, <2>2 DEF Displayed
  <2>4. List(actions) /\ \A a \in Range(actions) : Moves(a, u.deps, u.refresh)
    BY <1>1, <2>1 DEF Tracking
  <2>5. List(a1) /\ \A a \in Range(a1) : Moves(a, u.deps, u.refresh)
    <3>1. PICK r : r = Own(view, order, el, child)
      OBVIOUS
    <3>2. Moves(r, u.deps, u.refresh)
      BY <3>1, AtOrder DEF Moves, Own
    <3>3. a1 = actions \/ a1 = Append(actions, r)
      BY <2>2, <3>1 DEF TappedActions, WithOwn
    <3>4. CASE a1 = actions
      BY <2>4, <3>4
    <3>5. CASE a1 = Append(actions, r)
      <4>1. List(a1) /\ Range(a1) = Range(actions) \cup {r}
        BY <2>4, <3>5, Appended
      <4> QED
        BY <2>4, <3>2, <4>1
    <3> QED
      BY <3>3, <3>4, <3>5
  <2>6. CASE el.widget # "calendar"
    BY <2>3, <2>5, <2>6 DEF TurnedActions
  <2>7. CASE el.widget = "calendar"
    <3>1. PICK turns : turns = Turns(view, o1, el, child)
      OBVIOUS
    <3>2. /\ List(turns) /\ Len(turns) = Len(Months(el))
          /\ \A i \in 1..Len(turns) : turns[i].id = el.id
      BY <3>1, TurnsList
    <3>3. ASSUME NEW a \in Range(turns) PROVE Moves(a, u.deps, u.refresh)
      <4>1. PICK i \in 1..Len(turns) : a = turns[i]
        BY <3>2, ListFacts DEF Range
      <4>2. Len(Months(el)) # 0 /\ a.id = el.id
        BY <3>2, <4>1, ListFacts
      <4>3. Navigated(el)
        BY <2>7, <4>2, MonthsList DEF Navigated
      <4> QED
        BY <1>1, <4>2, <4>3 DEF Moves, DependsOn
    <3>4. u.actions = a1 \o turns
      BY <2>3, <2>7, <3>1 DEF TurnedActions
    <3>5. List(a1 \o turns) /\ Range(a1 \o turns) = Range(a1) \cup Range(turns)
      BY <2>5, <3>2, Joined, JoinedRange
    <3> QED
      BY <2>5, <3>3, <3>4, <3>5
  <2> QED
    BY <2>6, <2>7
<1> QED
  BY <1>1, <1>2, <1>3 DEF Tracking
-----------------------------------------------------------------------------
(* A design and the same without its later pages *)

\* Lists of the same members are the same.
LEMMA SameList ==
  ASSUME NEW s, NEW t, List(s), List(t), Len(s) = Len(t), \A i \in 1..Len(s) : s[i] = t[i]
  PROVE  s = t
<1>1. PICK U, V : s \in Seq(U) /\ t \in Seq(V)
  BY DEF List
<1>2. s \in Seq(U \cup V) /\ t \in Seq(U \cup V)
  BY <1>1
<1> QED
  BY <1>2, SeqEqual

\* The open elements and their pages: an element is skipped inside a later page.
Opens(f, path, pages) ==
  /\ DOMAIN f = Fields /\ f.seen \in BOOLEAN
  /\ List(path) /\ List(f.stack) /\ Len(f.stack) = Len(path) + 1
  /\ pages \in Nat /\ \A i \in 1..Len(path) : path[i] \in 0..pages
  /\ f.page # None <=> pages > 0
  /\ pages > 0 \/ Len(path) # 0 => f.seen
  /\ \A k \in 1..(Len(path) + 1) : f.stack[k].skip <=> \E i \in 1..(k - 1) : path[i] > 1

\* Without its later pages the design is drawn alike, and has read less.
Alike(f, a) ==
  /\ DOMAIN a = Fields /\ ~a.error
  /\ \A x \in {"seen", "view", "page", "order", "actions", "regions", "drawn"} : a[x] = f[x]
  /\ a.deps \subseteq f.deps /\ a.ids \subseteq f.ids

\* The elements it has open are those before the first one of a later page.
Below(f, a, path, n) ==
  /\ n \in Nat /\ n <= Len(path) /\ List(a.stack) /\ Len(a.stack) = n + 1
  /\ \A i \in 1..n : ~(path[i] > 1)
  /\ n < Len(path) => path[n + 1] > 1
  /\ \A i \in 1..(n + 1) : a.stack[i] = f.stack[i]

\* Outside the later pages it has the same elements open.
LEMMA BelowAll ==
  ASSUME NEW f, NEW a, NEW path, NEW pages, NEW n, Opens(f, path, pages), Below(f, a, path, n), ~Later(path)
  PROVE  n = Len(path) /\ a.stack = f.stack
<1>1. PICK m \in Nat : m = Len(path) /\ DOMAIN path = 1..m
  BY ListFacts DEF Opens
<1>2. n \in Nat /\ n <= m /\ (n < m => path[n + 1] > 1)
  BY <1>1 DEF Below
<1>3. n = m
  BY <1>1, <1>2 DEF Later
<1>4. /\ List(a.stack) /\ List(f.stack) /\ Len(a.stack) = m + 1 /\ Len(f.stack) = m + 1
      /\ \A i \in 1..(m + 1) : a.stack[i] = f.stack[i]
  BY <1>1, <1>3 DEF Below, Opens
<1> QED
  BY <1>1, <1>3, <1>4, SameList

\* The element read last is skipped if it is in a later page.
LEMMA TopSkip ==
  ASSUME NEW f, NEW path, NEW pages, Opens(f, path, pages)
  PROVE  Top(f).skip <=> Later(path)
<1>1. PICK m \in Nat : m = Len(path) /\ DOMAIN path = 1..m
  BY ListFacts DEF Opens
<1>2. Top(f) = f.stack[m + 1]
  BY <1>1, Shortened DEF Opens, Top
<1>3. f.stack[m + 1].skip <=> \E i \in 1..((m + 1) - 1) : path[i] > 1
  BY <1>1 DEF Opens
<1> QED
  BY <1>1, <1>2, <1>3 DEF Later

\* What comes of an element that is accepted.
LEMMA StartedBy ==
  ASSUME NEW s, DOMAIN s = Fields, s.seen \in BOOLEAN, NEW el, ~Rejected(s, el)
  PROVE  \E n : /\ Noted(s, n, el)
                /\ Child(s, el).skip => StartElement(s, el) = n
                /\ ~Child(s, el).skip => Displayed(n, StartElement(s, el), el, Child(s, el))
<1>1. PICK child, n : /\ child = Child(s, el)
                      /\ n = Pushed(Tracked(Paged(Rooted(s, el), el), el), child)
  OBVIOUS
<1>2. StartElement(s, el) = IF child.skip THEN n
                            ELSE Navigation(Drawn(Tapped(n, el, child), el), el, child)
  BY <1>1, Zenon DEF StartElement
<1>3. Noted(s, n, el)
  BY <1>1, NotedBy
<1>4. DOMAIN n = Fields
  BY <1>3 DEF Noted, Alters
<1>5. Displayed(n, Navigation(Drawn(Tapped(n, el, child), el), el, child), el, child)
  BY <1>4, DisplayedBy
<1> QED
  BY <1>1, <1>2, <1>3, <1>5

\* An element that is rejected fails the design.
LEMMA RejectedFails ==
  ASSUME NEW s, DOMAIN s = Fields, NEW el, Rejected(s, el)
  PROVE  StartElement(s, el).error
<1>1. StartElement(s, el) = [s EXCEPT !.error = TRUE]
  BY Zenon DEF StartElement
<1> QED
  BY <1>1 DEF Fields

\* An element accepted in the whole design is accepted in the part, with the same child.
LEMMA AcceptedAlike ==
  ASSUME NEW f, NEW a, Alike(f, a), a.stack = f.stack, NEW el, ~Rejected(f, el)
  PROVE  ~Rejected(a, el) /\ Child(a, el) = Child(f, el)
<1>1. Top(a) = Top(f) /\ a.seen = f.seen /\ a.page = f.page /\ a.ids \subseteq f.ids
  BY DEF Alike, Top
<1>2. HiddenPage(a, el) <=> HiddenPage(f, el)
  BY <1>1 DEF HiddenPage
<1>3. WidgetRejected(a, el) => WidgetRejected(f, el)
  BY <1>1, Zenon DEF WidgetRejected
<1>4. ~Rejected(a, el)
  BY <1>1, <1>2, <1>3, Zenon DEF Rejected
<1>5. Child(a, el) = Child(f, el)
  BY <1>1, Zenon DEF Child, HiddenPage
<1> QED
  BY <1>4, <1>5

\* An element that opens, with the number of its page.
Turned(path, pages, el, p, path2, pages2) ==
  /\ pages2 = pages + (IF el.page = None THEN 0 ELSE 1)
  /\ p = IF el.page = None THEN 0 ELSE pages2
  /\ path2 = Append(path, p)

\* An element that opens joins the path.
LEMMA OpensMore ==
  ASSUME NEW f, NEW path, NEW pages, Opens(f, path, pages),
         NEW el, NEW n, Noted(f, n, el),
         NEW p, NEW path2, NEW pages2, Turned(path, pages, el, p, path2, pages2)
  PROVE  /\ Opens(n, path2, pages2)
         /\ Later(path2) <=> Child(f, el).skip
<1>0. /\ pages2 = pages + (IF el.page = None THEN 0 ELSE 1)
      /\ p = IF el.page = None THEN 0 ELSE pages2
      /\ path2 = Append(path, p)
  BY Zenon DEF Turned
<1>1. PICK m \in Nat : m = Len(path) /\ DOMAIN path = 1..m
  BY ListFacts DEF Opens
<1>2. /\ List(path2) /\ Len(path2) = m + 1 /\ path2[m + 1] = p
      /\ \A i \in 1..m : path2[i] = path[i]
  BY <1>0, <1>1, Appended DEF Opens
<1>3. DOMAIN path2 = 1..(m + 1)
  BY <1>2, ListFacts
<1>4. pages \in Nat /\ (f.page # None <=> pages > 0)
  BY DEF Opens
<1>5. pages2 \in Nat /\ pages2 >= pages /\ p \in 0..pages2
  BY <1>0, <1>4
<1>6. p > 1 <=> HiddenPage(f, el)
  BY <1>0, <1>4 DEF HiddenPage
<1>7. Child(f, el).skip <=> Top(f).skip \/ HiddenPage(f, el)
  BY DEF Child
<1>8. Later(path2) <=> Later(path) \/ p > 1
  BY <1>1, <1>2, <1>3 DEF Later
<1>9. Later(path2) <=> Child(f, el).skip
  BY <1>6, <1>7, <1>8, TopSkip
<1>10. /\ DOMAIN n = Fields /\ n.seen = TRUE /\ n.stack = Append(f.stack, Child(f, el))
       /\ n.page = IF el.page # None /\ f.page = None THEN el.page ELSE f.page
  BY DEF Noted, Alters
<1>11. n.page # None <=> pages2 > 0
  BY <1>0, <1>4, <1>10
<1>12. /\ List(n.stack) /\ Len(n.stack) = m + 2 /\ n.stack[m + 2] = Child(f, el)
       /\ \A k \in 1..(m + 1) : n.stack[k] = f.stack[k]
  <2>1. List(f.stack) /\ Len(f.stack) = m + 1
    BY <1>1 DEF Opens
  <2>2. m + 1 + 1 = m + 2
    OBVIOUS
  <2> QED
    BY <1>10, <2>1, <2>2, Appended
<1>13. ASSUME NEW k \in 1..(m + 2)
       PROVE  n.stack[k].skip <=> \E i \in 1..(k - 1) : path2[i] > 1
  <2>1. CASE k = m + 2
    <3>1. n.stack[k].skip <=> Later(path2)
      BY <1>9, <1>12, <2>1
    <3>2. k - 1 = m + 1
      BY <2>1
    <3> QED
      BY <1>3, <3>1, <3>2 DEF Later
  <2>2. CASE k # m + 2
    <3>1. k \in 1..(m + 1) /\ 1..(k - 1) \subseteq 1..m
      BY <2>2
    <3>2. f.stack[k].skip <=> \E i \in 1..(k - 1) : path[i] > 1
      BY <1>1, <3>1 DEF Opens
    <3> QED
      BY <1>2, <1>12, <3>1, <3>2
  <2> QED
    BY <2>1, <2>2
<1>14. \A i \in 1..(m + 1) : path2[i] \in 0..pages2
  <2>1. \A i \in 1..m : path[i] \in 0..pages
    BY <1>1 DEF Opens
  <2> QED
    BY <1>2, <1>4, <1>5, <2>1
<1>15. Opens(n, path2, pages2)
  <2>1. n.seen \in BOOLEAN /\ n.seen
    BY <1>10
  <2>2. Len(path2) + 1 = m + 2
    BY <1>2
  <2>3. \A k \in 1..(Len(path2) + 1) : n.stack[k].skip <=> \E i \in 1..(k - 1) : path2[i] > 1
    BY <1>13, <2>2
  <2>4. Len(n.stack) = Len(path2) + 1 /\ \A i \in 1..Len(path2) : path2[i] \in 0..pages2
    BY <1>2, <1>12, <1>14, <2>2
  <2> QED
    BY <1>2, <1>5, <1>10, <1>11, <1>12, <2>1, <2>3, <2>4, Zenon DEF Opens
<1> QED
  BY <1>9, <1>15

\* A later page is open in the whole design only.
LEMMA StartHidden ==
  ASSUME NEW f, NEW a, NEW path, NEW pages, NEW k, Opens(f, path, pages), Alike(f, a),
         Below(f, a, path, k), NEW el, NEW n, Noted(f, n, el),
         NEW p, NEW path2, NEW pages2, Turned(path, pages, el, p, path2, pages2), Later(path2)
  PROVE  Alike(n, a) /\ Below(n, a, path2, k)
<1>0. /\ path2 = Append(path, p)
      /\ p \in Nat /\ (p > 1 => pages > 0 /\ f.page # None)
  BY DEF Turned, Opens
<1>1. PICK m \in Nat : m = Len(path) /\ DOMAIN path = 1..m
  BY ListFacts DEF Opens
<1>2. /\ List(path2) /\ Len(path2) = m + 1 /\ path2[m + 1] = p
      /\ \A i \in 1..m : path2[i] = path[i]
  BY <1>0, <1>1, Appended DEF Opens
<1>3. DOMAIN path2 = 1..(m + 1)
  BY <1>2, ListFacts
<1>4. pages \in Nat /\ \A i \in 1..m : path[i] \in 0..pages
  BY <1>1 DEF Opens
<1>5. pages > 0
  BY <1>0, <1>2, <1>3, <1>4 DEF Later
<1>6. f.seen /\ f.page # None
  BY <1>5 DEF Opens
<1>7. f.seen = TRUE
  BY <1>6 DEF Opens
<1>8. Alike(n, a)
  BY <1>6, <1>7 DEF Alike, Noted, Alters, Fields, FirstView
<1>9. k \in Nat /\ k <= m /\ (k < m => path[k + 1] > 1) /\ \A i \in 1..k : ~(path[i] > 1)
  BY <1>1 DEF Below
<1>10. path2[k + 1] > 1
  <2>1. CASE k < m
    BY <1>2, <1>9, <2>1
  <2>2. CASE k = m
    BY <1>2, <1>3, <1>9, <2>2 DEF Later
  <2>3. k < m \/ k = m
    BY <1>9
  <2> QED
    BY <2>1, <2>2, <2>3, Zenon
<1>11. /\ List(a.stack) /\ Len(a.stack) = k + 1
       /\ \A i \in 1..(k + 1) : a.stack[i] = f.stack[i]
  BY DEF Below
<1>12. \A i \in 1..(m + 1) : n.stack[i] = f.stack[i]
  <2>1. List(f.stack) /\ Len(f.stack) = m + 1 /\ n.stack = Append(f.stack, Child(f, el))
    BY <1>1 DEF Opens, Noted
  <2> QED
    BY <2>1, Appended
<1>13. \A i \in 1..(k + 1) : a.stack[i] = n.stack[i]
  BY <1>9, <1>11, <1>12
<1>14. \A i \in 1..k : ~(path2[i] > 1)
  BY <1>2, <1>9
<1> QED
  BY <1>2, <1>8, <1>9, <1>10, <1>11, <1>13, <1>14 DEF Below

\* Drawing opens and closes nothing.
LEMMA OpensSame ==
  ASSUME NEW n, NEW t, NEW path, NEW pages, Opens(n, path, pages),
         Alters(n, t, {"order", "actions", "regions", "drawn"})
  PROVE  Opens(t, path, pages)
<1>1. DOMAIN t = Fields /\ t.seen = n.seen /\ t.stack = n.stack /\ t.page = n.page
  BY DEF Alters, Fields
<1> QED
  BY <1>1, Zenon DEF Opens

\* What is not of a later page is read alike.
LEMMA StartAlike ==
  ASSUME NEW f, NEW a, NEW path, NEW pages, Opens(f, path, pages), Alike(f, a),
         NEW k, Below(f, a, path, k), ~Later(path), NEW el,
         NEW nf, Noted(f, nf, el), NEW na, Noted(a, na, el),
         NEW child, Child(f, el) = child, Child(a, el) = child,
         NEW tf, Displayed(nf, tf, el, child), NEW ta, Displayed(na, ta, el, child),
         ~f.error,
         NEW p, NEW path2, path2 = Append(path, p), ~Later(path2)
  PROVE  Alike(tf, ta) /\ Below(tf, ta, path2, k + 1)
<1>1. PICK m \in Nat : m = Len(path) /\ DOMAIN path = 1..m
  BY ListFacts DEF Opens
<1>2. k = m /\ a.stack = f.stack
  BY <1>1, BelowAll
<1>3. /\ na.view = nf.view /\ na.order = nf.order /\ na.actions = nf.actions
      /\ na.regions = nf.regions /\ na.drawn = nf.drawn
      /\ na.seen = nf.seen /\ na.page = nf.page /\ ~na.error
      /\ na.deps \subseteq nf.deps /\ na.ids \subseteq nf.ids
      /\ na.stack = nf.stack
  <2>1. /\ a.view = f.view /\ a.order = f.order /\ a.actions = f.actions
        /\ a.regions = f.regions /\ a.drawn = f.drawn
        /\ a.seen = f.seen /\ a.page = f.page /\ ~a.error
        /\ a.deps \subseteq f.deps /\ a.ids \subseteq f.ids
    BY DEF Alike
  <2>2. /\ na.order = a.order /\ na.actions = a.actions /\ na.regions = a.regions
        /\ na.drawn = a.drawn /\ na.error = a.error
        /\ nf.order = f.order /\ nf.actions = f.actions /\ nf.regions = f.regions
        /\ nf.drawn = f.drawn
    BY DEF Noted, Alters, Fields
  <2>3. /\ na.seen = nf.seen /\ na.page = nf.page
        /\ na.deps = a.deps \cup DependsOn(el) /\ nf.deps = f.deps \cup DependsOn(el)
        /\ na.ids \subseteq nf.ids
    BY <2>1 DEF Noted
  <2>4. na.view = nf.view
    BY <2>1, Zenon DEF Noted, FirstView
  <2>5. na.stack = nf.stack
    BY <1>2, Zenon DEF Noted
  <2> QED
    BY <2>1, <2>2, <2>3, <2>4, <2>5
<1>4. /\ ta.order = tf.order /\ ta.actions = tf.actions
      /\ ta.regions = tf.regions /\ ta.drawn = tf.drawn
  BY <1>3, Zenon DEF Displayed
<1>5. /\ DOMAIN ta = Fields
      /\ ta.view = na.view /\ ta.seen = na.seen /\ ta.page = na.page /\ ta.error = na.error
      /\ ta.deps = na.deps /\ ta.ids = na.ids /\ ta.stack = na.stack
  BY DEF Displayed, Alters, Fields
<1>6. /\ tf.view = nf.view /\ tf.seen = nf.seen /\ tf.page = nf.page
      /\ tf.deps = nf.deps /\ tf.ids = nf.ids /\ tf.stack = nf.stack
  BY DEF Displayed, Alters, Fields
<1>7. Alike(tf, ta)
  BY <1>3, <1>4, <1>5, <1>6 DEF Alike
<1>8. List(f.stack) /\ Len(f.stack) = m + 1 /\ nf.stack = Append(f.stack, child)
  BY <1>1 DEF Opens, Noted
<1>9. List(tf.stack) /\ Len(tf.stack) = m + 2 /\ ta.stack = tf.stack
  <2>1. m + 1 + 1 = m + 2
    OBVIOUS
  <2> QED
    BY <1>3, <1>5, <1>6, <1>8, <2>1, Appended
<1>10. List(path2) /\ Len(path2) = m + 1 /\ DOMAIN path2 = 1..(m + 1)
  BY <1>1, Appended, ListFacts DEF Opens
<1>11. \A i \in 1..(m + 1) : ~(path2[i] > 1)
  BY <1>10 DEF Later
<1>12. PICK j \in Nat : j = m + 1 /\ j + 1 = m + 2
  OBVIOUS
<1>13. Below(tf, ta, path2, j)
  BY <1>9, <1>10, <1>11, <1>12 DEF Below
<1> QED
  BY <1>2, <1>7, <1>12, <1>13

\* An element that ends.
LEMMA EndFields ==
  ASSUME NEW s, DOMAIN s = Fields
  PROVE  LET t == EndElement(s) IN
         /\ Alters(s, t, {"stack", "drawn"}) /\ t.stack = Front(s.stack)
         /\ t.drawn = IF Top(s).skip THEN s.drawn ELSE Append(s.drawn, Closed)
  BY DEF EndElement, Alters, Fields

\* An element that ends leaves the path.
LEMMA EndOpens ==
  ASSUME NEW f, NEW path, NEW pages, Opens(f, path, pages), Len(path) # 0
  PROVE  Opens(EndElement(f), Front(path), pages)
<1>1. PICK m \in Nat : m = Len(path) /\ DOMAIN path = 1..m /\ m > 0
  BY ListFacts DEF Opens
<1>2. PICK t : t = EndElement(f)
  OBVIOUS
<1>3. DOMAIN t = Fields /\ t.seen = f.seen /\ t.page = f.page /\ t.stack = Front(f.stack)
  BY <1>2, EndFields DEF Opens, Alters, Fields
<1>4. PICK path2 : path2 = Front(path)
  OBVIOUS
<1>5. /\ List(path2) /\ Len(path2) = m - 1 /\ \A i \in 1..(m - 1) : path2[i] = path[i]
  BY <1>1, <1>4, Shortened DEF Opens
<1>6. /\ List(t.stack) /\ Len(t.stack) = m /\ \A i \in 1..m : t.stack[i] = f.stack[i]
  <2>1. List(f.stack) /\ Len(f.stack) = m + 1 /\ Len(f.stack) # 0 /\ Len(f.stack) - 1 = m
    BY <1>1 DEF Opens
  <2> QED
    BY <1>3, <2>1, Shortened
<1>7. ASSUME NEW k \in 1..m PROVE t.stack[k].skip <=> \E i \in 1..(k - 1) : path2[i] > 1
  <2>1. f.stack[k].skip <=> \E i \in 1..(k - 1) : path[i] > 1
    BY <1>1 DEF Opens
  <2>2. 1..(k - 1) \subseteq 1..(m - 1)
    OBVIOUS
  <2> QED
    BY <1>5, <1>6, <2>1, <2>2
<1>8. /\ f.seen \in BOOLEAN /\ f.seen /\ pages \in Nat /\ (f.page # None <=> pages > 0)
      /\ \A i \in 1..m : path[i] \in 0..pages
  BY <1>1 DEF Opens
<1>9. \A i \in 1..(m - 1) : path2[i] \in 0..pages
  BY <1>5, <1>8
<1>10. PICK j \in Nat : j = m - 1 /\ j + 1 = m
  BY <1>1
<1>11. Opens(t, path2, pages)
  BY <1>3, <1>5, <1>6, <1>7, <1>8, <1>9, <1>10 DEF Opens
<1> QED
  BY <1>2, <1>4, <1>11

\* The end of an element of a later page changes nothing in the part.
LEMMA EndHidden ==
  ASSUME NEW f, NEW a, NEW path, NEW pages, Opens(f, path, pages), Alike(f, a),
         NEW k, Below(f, a, path, k), Len(path) # 0, Later(path)
  PROVE  Alike(EndElement(f), a) /\ Below(EndElement(f), a, Front(path), k)
<1>1. PICK m \in Nat : m = Len(path) /\ DOMAIN path = 1..m /\ m > 0
  BY ListFacts DEF Opens
<1>2. PICK t : t = EndElement(f)
  OBVIOUS
<1>3. Top(f).skip
  BY TopSkip
<1>4. Alters(f, t, {"stack", "drawn"}) /\ t.stack = Front(f.stack) /\ t.drawn = f.drawn
  BY <1>2, <1>3, EndFields DEF Opens
<1>5. Alike(t, a)
  BY <1>4 DEF Alike, Alters, Fields
<1>6. PICK path2 : path2 = Front(path)
  OBVIOUS
<1>7. /\ List(path2) /\ Len(path2) = m - 1 /\ \A i \in 1..(m - 1) : path2[i] = path[i]
  BY <1>1, <1>6, Shortened DEF Opens
<1>8. \A i \in 1..m : t.stack[i] = f.stack[i]
  <2>1. List(f.stack) /\ Len(f.stack) = m + 1 /\ Len(f.stack) # 0 /\ Len(f.stack) - 1 = m
    BY <1>1 DEF Opens
  <2> QED
    BY <1>4, <2>1, Shortened
<1>9. /\ k \in Nat /\ k <= m /\ List(a.stack) /\ Len(a.stack) = k + 1
      /\ \A i \in 1..k : ~(path[i] > 1)
      /\ k < m => path[k + 1] > 1
      /\ \A i \in 1..(k + 1) : a.stack[i] = f.stack[i]
  BY <1>1 DEF Below
<1>10. k < m
  BY <1>1, <1>9 DEF Later
<1>11. k <= m - 1 /\ (k < m - 1 => path2[k + 1] > 1) /\ \A i \in 1..k : ~(path2[i] > 1)
  BY <1>7, <1>9, <1>10
<1>12. \A i \in 1..(k + 1) : a.stack[i] = t.stack[i]
  BY <1>8, <1>9, <1>10
<1>13. Below(t, a, path2, k)
  BY <1>7, <1>9, <1>11, <1>12 DEF Below
<1> QED
  BY <1>2, <1>5, <1>6, <1>13

\* The end of any other changes both in the same way.
LEMMA EndAlike ==
  ASSUME NEW f, NEW a, NEW path, NEW pages, Opens(f, path, pages), Alike(f, a),
         NEW k, Below(f, a, path, k), Len(path) # 0, ~Later(path)
  PROVE  Alike(EndElement(f), EndElement(a)) /\ Below(EndElement(f), EndElement(a), Front(path), k - 1)
<1>1. PICK m \in Nat : m = Len(path) /\ DOMAIN path = 1..m /\ m > 0
  BY ListFacts DEF Opens
<1>2. PICK t, b : t = EndElement(f) /\ b = EndElement(a)
  OBVIOUS
<1>3. k = m /\ a.stack = f.stack
  BY <1>1, BelowAll
<1>4. /\ Alters(f, t, {"stack", "drawn"}) /\ t.stack = Front(f.stack)
      /\ t.drawn = IF Top(f).skip THEN f.drawn ELSE Append(f.drawn, Closed)
  BY <1>2, EndFields DEF Opens
<1>5. /\ Alters(a, b, {"stack", "drawn"}) /\ b.stack = Front(a.stack)
      /\ b.drawn = IF Top(a).skip THEN a.drawn ELSE Append(a.drawn, Closed)
  BY <1>2, EndFields DEF Alike
<1>6. b.stack = t.stack
  BY <1>3, <1>4, <1>5
<1>7. b.drawn = t.drawn
  BY <1>3, <1>4, <1>5 DEF Alike, Top
<1>8. Alike(t, b)
  BY <1>4, <1>5, <1>7 DEF Alike, Alters, Fields
<1>9. PICK path2 : path2 = Front(path)
  OBVIOUS
<1>10. /\ List(path2) /\ Len(path2) = m - 1 /\ \A i \in 1..(m - 1) : path2[i] = path[i]
  BY <1>1, <1>9, Shortened DEF Opens
<1>11. List(t.stack) /\ Len(t.stack) = m
  <2>1. List(f.stack) /\ Len(f.stack) = m + 1 /\ Len(f.stack) # 0 /\ Len(f.stack) - 1 = m
    BY <1>1 DEF Opens
  <2> QED
    BY <1>4, <2>1, Shortened
<1>12. \A i \in 1..(m - 1) : ~(path2[i] > 1)
  BY <1>1, <1>10 DEF Later
<1>13. PICK j \in Nat : j = m - 1 /\ m = j + 1
  BY <1>1
<1>14. Below(t, b, path2, j)
  BY <1>6, <1>10, <1>11, <1>12, <1>13 DEF Below
<1> QED
  BY <1>2, <1>3, <1>8, <1>9, <1>13, <1>14

\* Text.
LEMMA TextFields ==
  ASSUME NEW s, DOMAIN s = Fields, NEW links
  PROVE  LET t == CharData(s, links) IN
         \/ t.error
         \/ /\ Top(s).name = "style" => links \subseteq LocalLinks
            /\ Alters(s, t, {"drawn"})
            /\ t.drawn = IF Top(s).skip \/ Top(s).dynamic THEN s.drawn ELSE Append(s.drawn, Chars)
<1>1. CASE Top(s).name = "style" /\ ~(links \subseteq LocalLinks)
  <2>1. CharData(s, links) = [s EXCEPT !.error = TRUE]
    BY <1>1, Zenon DEF CharData
  <2> QED
    BY <2>1 DEF Fields
<1>2. CASE ~(Top(s).name = "style" /\ ~(links \subseteq LocalLinks))
  <2>1. CharData(s, links) = IF Top(s).skip \/ Top(s).dynamic THEN s ELSE [s EXCEPT !.drawn = Append(@, Chars)]
    BY <1>2, Zenon DEF CharData
  <2> QED
    BY <1>2, <2>1 DEF Alters, Fields
<1> QED
  BY <1>1, <1>2

\* So does text.
LEMMA TextAlike ==
  ASSUME NEW f, NEW a, NEW path, NEW pages, Opens(f, path, pages), Alike(f, a),
         NEW k, Below(f, a, path, k), NEW links, ~CharData(f, links).error,
         NEW b, b = IF Later(path) THEN a ELSE CharData(a, links)
  PROVE  LET t == CharData(f, links) IN
         Opens(t, path, pages) /\ Alike(t, b) /\ Below(t, b, path, k)
<1>1. PICK t : t = CharData(f, links)
  OBVIOUS
<1>2. /\ Top(f).name = "style" => links \subseteq LocalLinks
      /\ Alters(f, t, {"drawn"})
      /\ t.drawn = IF Top(f).skip \/ Top(f).dynamic THEN f.drawn ELSE Append(f.drawn, Chars)
  BY <1>1, TextFields DEF Opens
<1>3. Opens(t, path, pages)
  <2>1. Alters(f, t, {"order", "actions", "regions", "drawn"})
    BY <1>2 DEF Alters
  <2> QED
    BY <2>1, OpensSame
<1>4. t.stack = f.stack
  BY <1>2 DEF Alters, Fields
<1>5. CASE Later(path)
  <2>1. t.drawn = f.drawn
    BY <1>2, <1>5, TopSkip
  <2>2. Alike(t, a)
    BY <1>2, <2>1 DEF Alike, Alters, Fields
  <2>3. Below(t, a, path, k)
    BY <1>4, Zenon DEF Below
  <2> QED
    BY <1>1, <1>3, <1>5, <2>2, <2>3
<1>6. CASE ~Later(path)
  <2>1. b = CharData(a, links) /\ a.stack = f.stack /\ Top(a) = Top(f)
    BY <1>6, BelowAll DEF Top
  <2>2. DOMAIN a = Fields /\ ~a.error /\ a.drawn = f.drawn
    BY DEF Alike
  <2>3. /\ Alters(a, b, {"drawn"})
        /\ b.drawn = IF Top(a).skip \/ Top(a).dynamic THEN a.drawn ELSE Append(a.drawn, Chars)
    <3>1. b = IF Top(a).skip \/ Top(a).dynamic THEN a ELSE [a EXCEPT !.drawn = Append(@, Chars)]
      BY <1>2, <2>1, Zenon DEF CharData
    <3> QED
      BY <2>2, <3>1 DEF Alters, Fields
  <2>4. b.drawn = t.drawn
    BY <1>2, <2>1, <2>2, <2>3
  <2>5. Alike(t, b)
    BY <1>2, <2>3, <2>4 DEF Alike, Alters, Fields
  <2>6. b.stack = a.stack
    BY <2>3 DEF Alters, Fields
  <2>7. Below(t, b, path, k)
    BY <1>4, <2>6, Zenon DEF Below
  <2> QED
    BY <1>1, <1>3, <2>5, <2>7
<1> QED
  BY <1>5, <1>6

\* What holds of a design and its part after every token, until one is rejected.
Compiled(f, a, path, pages) ==
  ~f.error =>
    /\ Opens(f, path, pages) /\ Alike(f, a) /\ \E k : Below(f, a, path, k)
    /\ Tracking(f) /\ Numbered(f.order, f.actions)

\* It holds before the first token,
LEMMA CompiledBlank == Compiled(Blank, Blank, <<>>, 0)
<1>1. /\ DOMAIN Blank = Fields /\ ~Blank.seen /\ Blank.seen \in BOOLEAN /\ ~Blank.error
      /\ Blank.page = None /\ Blank.refresh = 0 /\ Blank.order = 0
      /\ Blank.actions = <<>> /\ Blank.drawn = <<>> /\ ~Blank.stack[1].skip
      /\ List(Blank.stack) /\ Len(Blank.stack) = 1
  <2>1. PICK e : e = [matrix |-> Identity, skip |-> FALSE, dynamic |-> FALSE, name |-> None]
    OBVIOUS
  <2>2. Blank.stack = <<e>> /\ ~e.skip
    BY <2>1 DEF Blank
  <2>3. List(Blank.stack) /\ Len(Blank.stack) = 1 /\ Blank.stack[1] = e
    BY <2>2, Single
  <2> QED
    BY <2>2, <2>3 DEF Blank, Fields
<1>2. Opens(Blank, <<>>, 0)
  BY <1>1, Empty DEF Opens
<1>3. Alike(Blank, Blank)
  BY <1>1 DEF Alike
<1>4. Below(Blank, Blank, <<>>, 0)
  BY <1>1, Empty DEF Below
<1>5. Tracking(Blank) /\ Numbered(Blank.order, Blank.actions)
  BY <1>1, Empty DEF Tracking, Numbered
<1> QED
  BY <1>2, <1>3, <1>4, <1>5 DEF Compiled

\* after an element that opens,
LEMMA CompiledStart ==
  ASSUME NEW f, NEW a, NEW path, NEW pages, Compiled(f, a, path, pages), ~f.error,
         NEW el, NEW p, NEW path2, NEW pages2, Turned(path, pages, el, p, path2, pages2)
  PROVE  Compiled(StartElement(f, el), IF Later(path2) THEN a ELSE StartElement(a, el), path2, pages2)
<1>1. /\ Opens(f, path, pages) /\ Alike(f, a) /\ Tracking(f) /\ Numbered(f.order, f.actions)
  BY DEF Compiled
<1>2. PICK k : Below(f, a, path, k)
  BY DEF Compiled
<1>3. CASE Rejected(f, el)
  <2>1. StartElement(f, el).error
    BY <1>1, <1>3, RejectedFails DEF Opens
  <2> QED
    BY <2>1 DEF Compiled
<1>4. CASE ~Rejected(f, el)
  <2>1. PICK n, t, child : /\ t = StartElement(f, el) /\ child = Child(f, el)
                           /\ Noted(f, n, el)
                           /\ child.skip => t = n
                           /\ ~child.skip => Displayed(n, t, el, child)
    BY <1>1, <1>4, StartedBy DEF Opens
  <2>2. Opens(n, path2, pages2) /\ (Later(path2) <=> child.skip)
    BY <1>1, <2>1, OpensMore
  <2>3. /\ Tracking(n) /\ n.seen = TRUE /\ DependsOn(el) \subseteq n.deps
        /\ Navigated(el) => n.refresh = 1
    BY <1>1, <1>4, <2>1, TrackingNoted
  <2>4. Numbered(n.order, n.actions)
    <3>1. n.order = f.order /\ n.actions = f.actions
      BY <2>1 DEF Noted, Alters, Fields
    <3> QED
      BY <1>1, <3>1
  <2>5. CASE Later(path2)
    <3>1. t = n
      BY <2>1, <2>2, <2>5
    <3>3. Alike(n, a) /\ Below(n, a, path2, k)
      BY <1>1, <1>2, <2>1, <2>5, StartHidden
    <3> QED
      BY <2>1, <2>2, <2>3, <2>4, <2>5, <3>1, <3>3 DEF Compiled
  <2>6. CASE ~Later(path2)
    <3>1. ~child.skip /\ Displayed(n, t, el, child)
      BY <2>1, <2>2, <2>6
    <3>2. ~Later(path)
      <4>1. Top(f).skip => child.skip
        BY <2>1 DEF Child
      <4> QED
        BY <1>1, <3>1, <4>1, TopSkip
    <3>3. a.stack = f.stack
      BY <1>1, <1>2, <3>2, BelowAll
    <3>4. ~Rejected(a, el) /\ Child(a, el) = child
      BY <1>1, <1>4, <2>1, <3>3, AcceptedAlike
    <3>5. DOMAIN a = Fields /\ a.seen \in BOOLEAN
      BY <1>1 DEF Alike, Opens
    <3>6. PICK na, ta : /\ ta = StartElement(a, el) /\ Noted(a, na, el) /\ Displayed(na, ta, el, child)
      BY <3>1, <3>4, <3>5, StartedBy
    <3>0. path2 = Append(path, p)
      BY DEF Turned
    <3>7. Alike(t, ta) /\ Below(t, ta, path2, k + 1)
      BY <3>0, <1>1, <1>2, <2>1, <2>6, <3>1, <3>2, <3>4, <3>6, StartAlike
    <3>8. Opens(t, path2, pages2)
      BY <2>2, <3>1, OpensSame DEF Displayed
    <3>9. ~(Top(f).skip \/ HiddenPage(f, el))
      BY <2>1, <3>1 DEF Child
    <3>10. Tracking(t)
      BY <1>4, <2>3, <3>1, <3>9, TrackingShown
    <3>11. Numbered(t.order, t.actions)
      BY <2>4, <3>1, NumberedShown
    <3> QED
      BY <2>1, <2>6, <3>6, <3>7, <3>8, <3>10, <3>11 DEF Compiled
  <2> QED
    BY <2>5, <2>6
<1> QED
  BY <1>3, <1>4

\* Something more is written.
LEMMA WrittenMore ==
  ASSUME NEW s, NEW t, NEW fields, fields \in {{"drawn"}, {"stack", "drawn"}}, Alters(s, t, fields),
         NEW d, \A deps : Shows(d, deps), t.drawn = s.drawn \/ t.drawn = Append(s.drawn, d),
         Tracking(s), Numbered(s.order, s.actions)
  PROVE  Tracking(t) /\ Numbered(t.order, t.actions)
<1>1. /\ t.seen = s.seen /\ t.refresh = s.refresh /\ t.actions = s.actions
      /\ t.deps = s.deps /\ t.order = s.order
  BY DEF Alters, Fields
<1>2. List(t.drawn) /\ \A e \in Range(t.drawn) : Shows(e, t.deps)
  <2>1. CASE t.drawn = s.drawn
    BY <1>1, <2>1 DEF Tracking
  <2>2. CASE t.drawn = Append(s.drawn, d)
    <3>1. List(t.drawn) /\ Range(t.drawn) = Range(s.drawn) \cup {d}
      BY <2>2, Appended DEF Tracking
    <3> QED
      BY <1>1, <3>1 DEF Tracking
  <2> QED
    BY <2>1, <2>2
<1>3. Tracking(t)
  BY <1>1, <1>2 DEF Tracking
<1> QED
  BY <1>1, <1>3

\* after one that ends
LEMMA CompiledEnd ==
  ASSUME NEW f, NEW a, NEW path, NEW pages, Compiled(f, a, path, pages), ~f.error, path # <<>>
  PROVE  Compiled(EndElement(f), IF Later(path) THEN a ELSE EndElement(a), Front(path), pages)
<1>1. /\ Opens(f, path, pages) /\ Alike(f, a) /\ Tracking(f) /\ Numbered(f.order, f.actions)
  BY DEF Compiled
<1>2. PICK k : Below(f, a, path, k)
  BY DEF Compiled
<1>3. Len(path) # 0
  BY <1>1, SameList, Empty DEF Opens
<1>4. PICK t : t = EndElement(f)
  OBVIOUS
<1>5. Opens(t, Front(path), pages)
  BY <1>1, <1>3, <1>4, EndOpens
<1>6. /\ Alters(f, t, {"stack", "drawn"})
      /\ t.drawn = f.drawn \/ t.drawn = Append(f.drawn, Closed)
  BY <1>1, <1>4, EndFields DEF Opens
<1>7. Tracking(t) /\ Numbered(t.order, t.actions)
  <2>1. \A deps : Shows(Closed, deps)
    BY DEF Shows, Closed
  <2> QED
    BY <1>1, <1>6, <2>1, WrittenMore
<1>8. CASE Later(path)
  BY <1>1, <1>2, <1>3, <1>4, <1>5, <1>7, <1>8, EndHidden DEF Compiled
<1>9. CASE ~Later(path)
  BY <1>1, <1>2, <1>3, <1>4, <1>5, <1>7, <1>9, EndAlike DEF Compiled
<1> QED
  BY <1>8, <1>9

\* and after text.
LEMMA CompiledText ==
  ASSUME NEW f, NEW a, NEW path, NEW pages, Compiled(f, a, path, pages), ~f.error, NEW links
  PROVE  Compiled(CharData(f, links), IF Later(path) THEN a ELSE CharData(a, links), path, pages)
<1>1. /\ Opens(f, path, pages) /\ Alike(f, a) /\ Tracking(f) /\ Numbered(f.order, f.actions)
  BY DEF Compiled
<1>2. PICK k : Below(f, a, path, k)
  BY DEF Compiled
<1>3. PICK t, b : t = CharData(f, links) /\ b = IF Later(path) THEN a ELSE CharData(a, links)
  OBVIOUS
<1>4. CASE t.error
  BY <1>3, <1>4 DEF Compiled
<1>5. CASE ~t.error
  <2>1. Opens(t, path, pages) /\ Alike(t, b) /\ Below(t, b, path, k)
    BY <1>1, <1>2, <1>3, <1>5, TextAlike
  <2>2. /\ Alters(f, t, {"drawn"})
        /\ t.drawn = f.drawn \/ t.drawn = Append(f.drawn, Chars)
    BY <1>1, <1>3, <1>5, TextFields DEF Opens
  <2>3. Tracking(t) /\ Numbered(t.order, t.actions)
    <3>1. \A deps : Shows(Chars, deps)
      BY DEF Shows, Chars
    <3> QED
      BY <1>1, <2>2, <3>1, WrittenMore
  <2>4. Compiled(t, b, path, pages)
    BY <2>1, <2>3 DEF Compiled
  <2> QED
    BY <1>3, <2>4, Zenon
<1> QED
  BY <1>4, <1>5
-----------------------------------------------------------------------------
(* The inputs *)

\* A frame of bytes.
Frame(z) == [0..((z.width \div 2) * z.height - 1) -> Shades]

\* Each kind of input, with what its fields can be.
DayInput == \E d, n : input = [kind |-> "day", date |-> d, left |-> n] /\ Dated(d)

DocumentInput ==
  \E full, alone, path, pages, left :
    /\ input = [kind |-> "svg", full |-> full, alone |-> alone, path |-> path,
                pages |-> pages, left |-> left]
    /\ Compiled(full, alone, path, pages)

BoxInput ==
  \E r \in Boxes, m \in Matrices, v \in ViewBoxes :
    input = [kind |-> "box", rect |-> r, matrix |-> m, view |-> v]

CalendarInput ==
  \E c \in Calendars, k \in -12..12 : input = [kind |-> "calendar", options |-> c, offset |-> k]

PictureInput ==
  \E p \in Pictures, s \in Settings, d \in Screens :
    input = [kind |-> "picture", picture |-> p, settings |-> s, screen |-> d]

FrameInput ==
  \E size \in Sizes, before \in Sizes : \E now \in Frame(size), last \in Frame(before) :
    input = [kind |-> "frame", size |-> size, now |-> now, before |-> before, last |-> last]

RecordInput == \E n \in Nat \ {0} : input = [kind |-> "record", bytes |-> n]

SessionInput ==
  \E next, last, seen \in 0..LastSequence :
    /\ Fresh(next, last, seen)
    /\ input = [kind |-> "session", next |-> next, last |-> last, seen |-> seen]

\* The inductive invariant: one of these, or none yet.
InputInv ==
  \/ input = [kind |-> "none"]
  \/ DayInput \/ DocumentInput \/ BoxInput \/ CalendarInput
  \/ PictureInput \/ FrameInput \/ RecordInput \/ SessionInput

-----------------------------------------------------------------------------
(* The state machine *)

\* A token of a design.
LEMMA DocumentStep ==
  ASSUME DocumentInput, Next
  PROVE  DocumentInput'
<1>1. PICK f, a, path, pages, left :
        /\ input = [kind |-> "svg", full |-> f, alone |-> a, path |-> path,
                    pages |-> pages, left |-> left]
        /\ Compiled(f, a, path, pages)
  BY DEF DocumentInput
<1>2. ReadStart \/ ReadEnd \/ ReadText
  BY <1>1 DEF Next, Is, FirstDate, NextDay, Document, PlaceBox,
       PlaceCalendar, ShowPicture, SendFrame, FirstRecord, LongerRecord, Connect, HandOut, Observe
<1>3. ~f.error
  BY <1>1, <1>2 DEF ReadStart, ReadEnd, ReadText, Token
<1>4. /\ input.full = f /\ input.alone = a /\ input.path = path /\ input.pages = pages
  BY <1>1
<1> SUFFICES \E f2, a2, path2, pages2, left2 :
               /\ input' = [kind |-> "svg", full |-> f2, alone |-> a2, path |-> path2,
                             pages |-> pages2, left |-> left2]
               /\ Compiled(f2, a2, path2, pages2)
  BY DEF DocumentInput
<1>5. CASE ReadStart
  <2>1. PICK el \in Elements :
          input' = [input EXCEPT
            !.full = StartElement(@, el),
            !.alone = IF Later(Append(path, IF el.page = None THEN 0
                                            ELSE pages + (IF el.page = None THEN 0 ELSE 1)))
                      THEN @ ELSE StartElement(@, el),
            !.path = Append(path, IF el.page = None THEN 0
                                  ELSE pages + (IF el.page = None THEN 0 ELSE 1)),
            !.pages = pages + (IF el.page = None THEN 0 ELSE 1), !.left = @ - 1]
    BY <1>4, <1>5 DEF ReadStart
  <2>2. PICK pages2 : pages2 = pages + (IF el.page = None THEN 0 ELSE 1)
    OBVIOUS
  <2>3. PICK p, path2 : p = (IF el.page = None THEN 0 ELSE pages2) /\ path2 = Append(path, p)
    OBVIOUS
  <2>4. Turned(path, pages, el, p, path2, pages2)
    BY <2>2, <2>3 DEF Turned
  <2>5. Compiled(StartElement(f, el), IF Later(path2) THEN a ELSE StartElement(a, el), path2, pages2)
    BY <1>1, <1>3, <2>4, CompiledStart
  <2>6. input' = [input EXCEPT !.full = StartElement(@, el),
                               !.alone = IF Later(path2) THEN @ ELSE StartElement(@, el),
                               !.path = path2, !.pages = pages2, !.left = @ - 1]
    BY <2>1, <2>2, <2>3
  <2>7. input' = [kind |-> "svg", full |-> StartElement(f, el),
                  alone |-> IF Later(path2) THEN a ELSE StartElement(a, el),
                  path |-> path2, pages |-> pages2, left |-> left - 1]
    BY <1>1, <2>6
  <2> QED
    BY <2>5, <2>7, Zenon
<1>6. CASE ReadEnd
  <2>0. /\ path # <<>>
        /\ input' = [input EXCEPT !.full = EndElement(@),
                                  !.alone = IF Later(path) THEN @ ELSE EndElement(@),
                                  !.path = Front(@), !.left = @ - 1]
    BY <1>4, <1>6 DEF ReadEnd
  <2>1. input' = [kind |-> "svg", full |-> EndElement(f),
                  alone |-> IF Later(path) THEN a ELSE EndElement(a),
                  path |-> Front(path), pages |-> pages, left |-> left - 1]
    BY <1>1, <2>0
  <2>2. Compiled(EndElement(f), IF Later(path) THEN a ELSE EndElement(a), Front(path), pages)
    BY <1>1, <1>3, <2>0, CompiledEnd
  <2> QED
    BY <2>1, <2>2, Zenon
<1>7. CASE ReadText
  <2>0. PICK links : input' = [input EXCEPT !.full = CharData(@, links),
                                 !.alone = IF Later(path) THEN @ ELSE CharData(@, links),
                                 !.left = @ - 1]
    BY <1>4, <1>7 DEF ReadText
  <2>1. input' = [kind |-> "svg", full |-> CharData(f, links),
                  alone |-> IF Later(path) THEN a ELSE CharData(a, links),
                  path |-> path, pages |-> pages, left |-> left - 1]
    BY <1>1, <2>0
  <2>2. Compiled(CharData(f, links), IF Later(path) THEN a ELSE CharData(a, links), path, pages)
    BY <1>1, <1>3, CompiledText
  <2> QED
    BY <2>1, <2>2, Zenon
<1> QED
  BY <1>2, <1>5, <1>6, <1>7

\* Every action leaves an input of one of the kinds.
LEMMA InputStep ==
  ASSUME InputInv, Next
  PROVE  InputInv'
<1>1. CASE Is("none")
  <2>1. CASE FirstDate
    <3>1. Dated(FirstDay)
      BY AlgorithmsAssumption, DaysInFacts DEF Dated
    <3> QED
      BY <2>1, <3>1 DEF FirstDate, InputInv, DayInput
  <2>2. CASE Document
    BY <2>2, CompiledBlank DEF Document, InputInv, DocumentInput
  <2>3. CASE PlaceBox
    BY <2>3 DEF PlaceBox, InputInv, BoxInput
  <2>4. CASE PlaceCalendar
    BY <2>4 DEF PlaceCalendar, InputInv, CalendarInput
  <2>5. CASE ShowPicture
    BY <2>5 DEF ShowPicture, InputInv, PictureInput
  <2>6. CASE SendFrame
    BY <2>6 DEF SendFrame, InputInv, FrameInput, Frame
  <2>7. CASE FirstRecord
    BY <2>7 DEF FirstRecord, InputInv, RecordInput
  <2>8. CASE Connect
    <3>1. Fresh(0, 0, 0)
      BY WireAssumption DEF Fresh, Sequence, NotZero
    <3> QED
      BY <2>8, <3>1, WireAssumption DEF Connect, InputInv, SessionInput
  <2> QED
    BY <1>1, <2>1, <2>2, <2>3, <2>4, <2>5, <2>6, <2>7, <2>8
       DEF Next, Is, NextDay, ReadStart, ReadEnd, ReadText, Token, LongerRecord, HandOut, Observe
<1>2. CASE DayInput
  <2>1. PICK d, n : input = [kind |-> "day", date |-> d, left |-> n] /\ Dated(d)
    BY <1>2 DEF DayInput
  <2>2. NextDay
    BY <2>1 DEF Next, Is, FirstDate, Document, ReadStart, ReadEnd, ReadText, Token, PlaceBox,
         PlaceCalendar, ShowPicture, SendFrame, FirstRecord, LongerRecord, Connect, HandOut, Observe
  <2>3. PICK e, m : input' = [input EXCEPT !.left = m, !.date = e] /\ Dated(e)
    <3>1. PICK after : after = MonthsFrom(d, 1)
      OBVIOUS
    <3>2. after.year \in Int /\ after.month \in 1..12
      BY <2>1, <3>1, MonthsFromFacts DEF MonthsOn, Dated
    <3>3. PICK e : e = IF d.day < DaysIn(d.year, d.month) THEN [d EXCEPT !.day = @ + 1]
                       ELSE [year |-> after.year, month |-> after.month, day |-> 1]
      OBVIOUS
    <3>4. \E m : input' = [input EXCEPT !.left = m, !.date = e]
      <4>1. \E m : input' = [input EXCEPT !.left = m,
                      !.date = IF input.date.day < DaysIn(input.date.year, input.date.month)
                               THEN [input.date EXCEPT !.day = @ + 1]
                               ELSE [year |-> MonthsFrom(input.date, 1).year,
                                     month |-> MonthsFrom(input.date, 1).month, day |-> 1]]
        BY <2>2, Zenon DEF NextDay
      <4>2. input.date = d
        BY <2>1
      <4> QED
        BY <3>1, <3>3, <4>1, <4>2
    <3>5. Dated(e)
      <4>1. CASE d.day < DaysIn(d.year, d.month)
        <5>1. DaysIn(d.year, d.month) \in 28..31
          BY DaysInFacts
        <5>2. e = [d EXCEPT !.day = @ + 1] /\ d.day + 1 \in 1..31
          BY <2>1, <3>3, <4>1, <5>1 DEF Dated
        <5> QED
          BY <2>1, <5>2 DEF Dated
      <4>2. CASE ~(d.day < DaysIn(d.year, d.month))
        BY <3>2, <3>3, <4>2 DEF Dated
      <4> QED
        BY <4>1, <4>2
    <3> QED
      BY <3>4, <3>5
  <2>4. DayInput'
    BY <2>1, <2>3 DEF DayInput
  <2> QED
    BY <2>4 DEF InputInv
<1>3. CASE DocumentInput
  BY <1>3, DocumentStep DEF InputInv
<1>4. CASE RecordInput
  <2>1. PICK n \in Nat \ {0} : input = [kind |-> "record", bytes |-> n]
    BY <1>4 DEF RecordInput
  <2>2. LongerRecord
    BY <2>1 DEF Next, Is, FirstDate, NextDay, Document, ReadStart, ReadEnd, ReadText, Token, PlaceBox,
         PlaceCalendar, ShowPicture, SendFrame, FirstRecord, Connect, HandOut, Observe
  <2>3. input' = [kind |-> "record", bytes |-> n + 1]
    BY <2>1, <2>2 DEF LongerRecord
  <2> QED
    BY <2>3 DEF InputInv, RecordInput
<1>5. CASE SessionInput
  <2>1. PICK next \in 0..LastSequence, last \in 0..LastSequence, seen \in 0..LastSequence :
          /\ Fresh(next, last, seen)
          /\ input = [kind |-> "session", next |-> next, last |-> last, seen |-> seen]
    BY <1>5 DEF SessionInput
  <2>2. HandOut \/ Observe
    BY <2>1 DEF Next, Is, FirstDate, NextDay, Document, ReadStart, ReadEnd, ReadText, Token, PlaceBox,
         PlaceCalendar, ShowPicture, SendFrame, FirstRecord, LongerRecord, Connect
  <2>3. CASE HandOut
    <3>1. input' = [kind |-> "session", next |-> Sequence(next).next,
                    last |-> Sequence(next).sequence, seen |-> 0]
      BY <2>1, <2>3 DEF HandOut
    <3>2. /\ Sequence(next).next \in 0..LastSequence /\ Sequence(next).sequence \in 0..LastSequence
          /\ Fresh(Sequence(next).next, Sequence(next).sequence, 0)
      BY <2>1, HandOutFresh
    <3>3. PICK a \in 0..LastSequence, b \in 0..LastSequence :
            a = Sequence(next).next /\ b = Sequence(next).sequence
      BY <3>2, Zenon
    <3>4. 0 \in 0..LastSequence
      BY WireAssumption
    <3>5. SessionInput'
      BY <3>1, <3>2, <3>3, <3>4, Zenon DEF SessionInput
    <3> QED
      BY <3>5, Zenon DEF InputInv
  <2>4. CASE Observe
    <3>1. PICK n \in 0..LastSequence :
            input' = [input EXCEPT !.next = Advanced(next, n), !.seen = Larger(seen, n)]
      BY <2>1, <2>4 DEF Observe
    <3>2. input' = [kind |-> "session", next |-> Advanced(next, n), last |-> last,
                    seen |-> Larger(seen, n)]
      BY <2>1, <3>1
    <3>3. /\ Advanced(next, n) \in 0..LastSequence /\ Larger(seen, n) \in 0..LastSequence
          /\ Fresh(Advanced(next, n), last, Larger(seen, n))
      BY <2>1, ObserveFresh
    <3> QED
      BY <3>2, <3>3 DEF InputInv, SessionInput
  <2> QED
    BY <2>2, <2>3, <2>4
<1>6. input.kind \notin {"box", "calendar", "picture", "frame"}
  BY DEF Next, Is, FirstDate, NextDay, Document, ReadStart, ReadEnd, ReadText, Token, PlaceBox,
         PlaceCalendar, ShowPicture, SendFrame, FirstRecord, LongerRecord, Connect, HandOut, Observe
<1>7. ~BoxInput /\ ~CalendarInput /\ ~PictureInput /\ ~FrameInput
  BY <1>6 DEF BoxInput, CalendarInput, PictureInput, FrameInput
<1> QED
  BY <1>1, <1>2, <1>3, <1>4, <1>5, <1>7 DEF InputInv, Is

\* Every input is of one of the kinds.
LEMMA InputInvariant == Spec => []InputInv
<1>1. Init => InputInv
  BY DEF Init, InputInv
<1>2. InputInv /\ [Next]_input => InputInv'
  <2>1. CASE Next
    BY <2>1, InputStep
  <2>2. CASE UNCHANGED input
    BY <2>2 DEF InputInv, DayInput, DocumentInput, BoxInput, CalendarInput, PictureInput,
         FrameInput, RecordInput, SessionInput
  <2> QED
    BY <2>1, <2>2
<1> QED
  BY <1>1, <1>2, PTL DEF Spec
-----------------------------------------------------------------------------
(* The properties *)

\* A record's number is not 0 and tells its acknowledgement from older ones (session.sequence,
\* advanceSequence), until the 32-bit numbers wrap.
THEOREM NumbersAreFresh == Spec => []SequencesFresh
<1>1. InputInv => SequencesFresh
  BY DEF InputInv, SequencesFresh, Is, DayInput, DocumentInput, BoxInput, CalendarInput,
         PictureInput, FrameInput, RecordInput, SessionInput, Fresh
<1> QED
  BY <1>1, InputInvariant, PTL

\* The chunks of a record of any length hold its bytes in order, and what is written when
\* compression fails is read back (CompressChunks, literalBlock).
THEOREM RecordsReassemble == Spec => []ChunksReassemble
<1>1. ASSUME InputInv, Is("record") PROVE \A packed \in {0, 1} : Reassembled(input.bytes, packed)
  <2>1. PICK n \in Nat \ {0} : input.bytes = n
    BY <1>1 DEF InputInv, Is, DayInput, DocumentInput, BoxInput, CalendarInput,
         PictureInput, FrameInput, RecordInput, SessionInput
  <2> QED
    BY <2>1, ChunksRight
<1>2. InputInv => ChunksReassemble
  BY <1>1, Zenon DEF ChunksReassemble, Reassembled
<1> QED
  BY <1>2, InputInvariant, PTL

\* An input that is a frame is one of the frames of the constants, an even number of pixels wide.
LEMMA FrameFacts ==
  ASSUME InputInv, Is("frame")
  PROVE  /\ input.size \in Sizes /\ input.before \in Sizes
         /\ input.now \in Frame(input.size) /\ input.last \in Frame(input.before)
         /\ \E r \in Nat \ {0} : /\ input.size.width = 2 * r /\ input.size.width \div 2 = r
                                 /\ Sized(2 * r)
         /\ Sized(input.size.height) /\ input.size.height \in Nat \ {0}
<1>1. /\ input.size \in Sizes /\ input.before \in Sizes
      /\ input.now \in Frame(input.size) /\ input.last \in Frame(input.before)
  BY DEF InputInv, Is, DayInput, DocumentInput, BoxInput, CalendarInput,
         PictureInput, FrameInput, RecordInput, SessionInput
<1>2. Sized(input.size.width) /\ Sized(input.size.height) /\ input.size.width % 2 = 0
  BY <1>1, AlgorithmsAssumption
<1>3. PICK w : w = input.size.width
  OBVIOUS
<1>4. w \in Nat /\ w > 0 /\ w % 2 = 0
  BY <1>2, <1>3 DEF Sized
<1>5. w \div 2 \in Nat \ {0} /\ w = 2 * (w \div 2)
  BY <1>4
<1>6. input.size.height \in Nat \ {0}
  BY <1>2 DEF Sized
<1> QED
  BY <1>1, <1>2, <1>3, <1>5, <1>6

\* A tap and the pixel it hits go through the same turn of the panel
\* (Touch.PhysicalCoordinates, RotatePacked180).
THEOREM TapsSeePixels == Spec => []TapSeesPixel
<1>1. ASSUME InputInv, Is("frame") PROVE TapSeesPixel
  <2>1. PICK w, h : input.size.width = w /\ input.size.height = h
    OBVIOUS
  <2>2. EvenWide(w) /\ h \in Nat \ {0}
    BY <1>1, <2>1, FrameFacts DEF EvenWide
  <2> DEFINE picture == Picture(w, h, LAMBDA x, y : y * w + x)
  <2>3. picture.width = w /\ picture.height = h
    BY DEF Picture
  <2> HIDE DEF picture
  <2>4. Aligned(picture, w, h)
    BY <2>2, <2>3, PixelUnderTap
  <2>5. ASSUME NEW p \in Places(w + 1, h + 1), p \notin Places(w, h)
        PROVE  PhysicalCoordinates([x |-> p[1], y |-> p[2]], w, h).refused
    <3>1. w \in Nat \ {0}
      BY <2>2 DEF EvenWide
    <3> QED
      BY <2>2, <2>5, <3>1, TapBeside
  <2>6. Seen(picture, w, h)
    <3> SUFFICES ASSUME NEW p \in Places(w + 1, h + 1)
                 PROVE  LET at == PhysicalCoordinates([x |-> p[1], y |-> p[2]], w, h) IN
                        /\ at.refused <=> p \notin Places(w, h)
                        /\ ~at.refused =>
                             /\ <<at.x, at.y>> \in Places(w, h)
                             /\ Unpacked(RotatePacked180(Pack(picture), (w * h) \div 2), w, p[1], p[2])
                                  = picture.at[<<at.x, at.y>>]
      BY Zenon DEF Seen
    <3>1. CASE p \in Places(w, h)
      BY <2>4, <3>1, Zenon DEF Aligned
    <3>2. CASE p \notin Places(w, h)
      BY <2>5, <3>2, Zenon
    <3> QED
      BY <3>1, <3>2, Zenon
  <2>7. Seen(Picture(input.size.width, input.size.height, LAMBDA x, y : y * input.size.width + x),
             input.size.width, input.size.height)
    BY <2>1, <2>6 DEF picture, Picture
  <2> QED
    BY <2>7, Zenon DEF TapSeesPixel, Seen, Picture
<1>2. InputInv => TapSeesPixel
  BY <1>1 DEF TapSeesPixel
<1> QED
  BY <1>2, InputInvariant, PTL

\* What a changed rectangle paints is the new frame, whatever the two frames are, and the
\* builder of records takes it (changedPrimitive, BuildImagePrimitives).
THEOREM PartialsPaint == Spec => []PartialPaints
<1>1. ASSUME InputInv, Is("frame") PROVE PartialPaints
  <2>1. PICK r \in Nat \ {0} : input.size.width = 2 * r /\ input.size.width \div 2 = r /\ Sized(2 * r)
    BY <1>1, FrameFacts
  <2>2. PICK h \in Nat \ {0} : input.size.height = h /\ Sized(h)
    BY <1>1, FrameFacts
  <2>3. PICK size, before, now, last :
          input.size = size /\ input.before = before /\ input.now = now /\ input.last = last
    OBVIOUS
  <2>s. Canvas(r, h, size)
    BY <2>1, <2>2, <2>3 DEF Canvas
  <2>4. now \in Content(r, h)
    BY <1>1, <2>1, <2>2, <2>3, FrameFacts DEF Frame, Content
  <2> DEFINE p == Changed(now, last, size, before)
  <2>5. CASE before = size
    <3>1. last \in Content(r, h)
      BY <1>1, <2>1, <2>2, <2>3, <2>5, FrameFacts DEF Frame, Content
    <3>2. CASE now = last
      <4>1. {i \in DOMAIN now : now[i] # last[i]} = {}
        BY <3>2
      <4>2. p = Whole(now, size)
        BY <4>1 DEF Changed
      <4>4. Buildable(Whole(now, size)) /\ Painted(last, Whole(now, size), r) = now
        BY <2>s, <2>4, <3>2, WholePaints
      <4> QED
        BY <2>1, <2>3, <2>5, <4>2, <4>4 DEF PartialPaints
    <3>3. CASE now # last
      <4>1. LET q == Changed(now, last, size, size) IN
            Buildable(q) /\ Painted(last, q, r) = now
        BY <2>s, <2>4, <3>1, <3>3, RectanglePaints
      <4> QED
        BY <2>1, <2>3, <2>5, <4>1, Zenon DEF PartialPaints
    <3> QED
      BY <3>2, <3>3
  <2>6. CASE before # size
    <3>1. p = Whole(now, size)
      BY <2>6 DEF Changed
    <3> DEFINE base == [i \in DOMAIN now |-> None]
    <3>2. DOMAIN base = DOMAIN now
      OBVIOUS
    <3> HIDE DEF base
    <3>3. Buildable(Whole(now, size)) /\ Painted(base, Whole(now, size), r) = now
      BY <2>s, <2>4, <3>2, WholePaints
    <3> QED
      BY <2>1, <2>3, <2>6, <3>1, <3>3, SMTT(30) DEF PartialPaints, base
  <2> QED
    BY <2>5, <2>6
<1>2. InputInv => PartialPaints
  BY <1>1 DEF PartialPaints
<1> QED
  BY <1>2, InputInvariant, PTL

\* A picture is put whole in the middle of the display, or over all of it, and lighter places
\* stay lighter, for every picture and every display (Process).
THEOREM PicturesKept == Spec => []PictureKept
<1>1. ASSUME InputInv, Is("picture"),
             Accepted(input.picture, input.screen.width, input.screen.height, input.settings)
      PROVE  Kept(input.picture, input.settings, input.screen)
  <2>1. input.picture \in Pictures /\ input.screen \in Screens
    BY <1>1 DEF InputInv, Is, DayInput, DocumentInput, BoxInput, CalendarInput,
         PictureInput, FrameInput, RecordInput, SessionInput
  <2>2. PICK picture, settings, screen :
          input.picture = picture /\ input.settings = settings /\ input.screen = screen
    OBVIOUS
  <2>3. Shaded(picture) /\ screen.width \in Nat /\ screen.height \in Nat
    BY <2>1, <2>2, AlgorithmsAssumption
  <2>4. Accepted(picture, screen.width, screen.height, settings)
    BY <1>1, <2>2
  <2>5. Kept(picture, settings, screen)
    BY <2>3, <2>4, AcceptedKept
  <2> QED
    BY <2>2, <2>5
<1>2. InputInv => PictureKept
  BY <1>1, Zenon DEF PictureKept, Kept
<1> QED
  BY <1>2, InputInvariant, PTL

\* The region of an element covers what it draws, to the pixel, for every transformation and view
\* box (transformRect), although its corner and its size are rounded one by one; only pixels that
\* touch its edge are left open, whichever sides float64 gets wrong.
THEOREM RegionsCover == Spec => []HitCovers
<1>1. ASSUME InputInv, Is("box") PROVE BoxCovered(input.rect, input.matrix, input.view)
  <2>1. input.rect \in Boxes /\ input.matrix \in Matrices /\ input.view \in ViewBoxes
    BY <1>1 DEF InputInv, Is, DayInput, DocumentInput, BoxInput, CalendarInput,
         PictureInput, FrameInput, RecordInput, SessionInput
  <2>2. PICK rect, matrix, view : input.rect = rect /\ input.matrix = matrix /\ input.view = view
    OBVIOUS
  <2>3. /\ {rect.x, rect.y, rect.width, rect.height} \subseteq Int /\ matrix \in [1..6 -> Int]
        /\ view.x \in Int /\ view.y \in Int /\ view.width \in Nat \ {0} /\ view.height \in Nat \ {0}
    BY <2>1, <2>2, AlgorithmsAssumption
  <2>4. BoxCovered(rect, matrix, view)
    BY <2>3, RegionCovers
  <2> QED
    BY <2>2, <2>4
<1>2. InputInv => HitCovers
  BY <1>1, Zenon DEF HitCovers, BoxCovered, PixelCovered, Slack
<1> QED
  BY <1>2, InputInvariant, PTL

\* The arrows and the title of a calendar, wherever it stands and however large it is, answer as
\* what they show (emitCalendar, Service.Touch), and no arrow leads beyond the twelfth month.
THEOREM ArrowsAnswer == Spec => []ArrowsHit
<1>1. ASSUME InputInv, Is("calendar") PROVE Navigable(input.options, input.offset)
  <2>1. input.options \in Calendars /\ input.offset \in -12..12
    BY <1>1 DEF InputInv, Is, DayInput, DocumentInput, BoxInput, CalendarInput,
         PictureInput, FrameInput, RecordInput, SessionInput
  <2>2. PICK o, k : input.options = o /\ input.offset = k
    OBVIOUS
  <2>3. Navigable(o, k)
    BY <2>1, <2>2, NavigationAnswers
  <2> QED
    BY <2>2, <2>3
<1>2. InputInv => ArrowsHit
  BY <1>1, Zenon DEF ArrowsHit, Navigable, Answered, Regions
<1> QED
  BY <1>2, InputInvariant, PTL

\* Whatever the day, navigation reaches the months that have it and the grid of each is complete
\* and in its place (emitCalendar).
THEOREM CalendarsShown == Spec => []CalendarShown
<1>1. ASSUME InputInv, Is("day"), NEW options \in Grids
      PROVE  /\ MonthsReached(input.date, options)
             /\ \A k \in -12..12 : GridComplete(input.date, options, k)
  <2>1. Dated(input.date)
    BY <1>1 DEF InputInv, Is, DayInput, DocumentInput, BoxInput, CalendarInput,
         PictureInput, FrameInput, RecordInput, SessionInput
  <2>2. options.navigation = TRUE /\ options.weekStart \in {"monday", "sunday"}
    BY DEF Grids
  <2>3. MonthsReached(input.date, options)
    BY <2>1, <2>2, Reached, Zenon
  <2>4. ASSUME NEW k \in -12..12
        PROVE  GridComplete(input.date, options, k)
    <3>1. k \in Int
      OBVIOUS
    <3> QED
      BY <2>1, <2>2, <3>1, Complete, Zenon
  <2> QED
    BY <2>3, <2>4
<1>2. InputInv => CalendarShown
  BY <1>1 DEF CalendarShown
<1> QED
  BY <1>2, InputInvariant, PTL

\* What is known of a design that has not been rejected.
LEMMA DesignFacts ==
  ASSUME InputInv, Is("svg"), ~input.full.error
  PROVE  /\ Alike(input.full, input.alone) /\ Tracking(input.full)
         /\ Numbered(input.full.order, input.full.actions)
<1>1. PICK path, pages : Compiled(input.full, input.alone, path, pages)
  BY DEF InputInv, Is, DayInput, DocumentInput, BoxInput, CalendarInput,
         PictureInput, FrameInput, RecordInput, SessionInput
<1> QED
  BY <1>1 DEF Compiled

\* A design of any size is drawn, and its regions placed and numbered, as if its later pages were
\* not there (compileXMLWithOptions, elements with data-page).
THEOREM LaterPagesHidden == Spec => []FirstPageOnly
<1>1. ASSUME InputInv, Is("svg"), ~input.full.error
      PROVE  /\ ~input.alone.error /\ input.alone.drawn = input.full.drawn
             /\ input.alone.actions = input.full.actions /\ input.alone.regions = input.full.regions
             /\ input.alone.page = input.full.page
             /\ input.alone.deps \subseteq input.full.deps
  BY <1>1, DesignFacts DEF Alike
<1>2. InputInv => FirstPageOnly
  BY <1>1, Zenon DEF FirstPageOnly
<1> QED
  BY <1>2, InputInvariant, PTL

\* Every value a design of any size shows is one its frame is rendered again for, and a calendar
\* that can be moved is drawn every minute (compileXMLWithOptions, dependencies).
THEOREM DrawnIsTracked == Spec => []DrawnTracked
<1>1. ASSUME InputInv, Is("svg"), ~input.full.error
      PROVE  /\ \A i \in DOMAIN input.full.drawn : Shows(input.full.drawn[i], input.full.deps)
             /\ \A i \in DOMAIN input.full.actions :
                  Moves(input.full.actions[i], input.full.deps, input.full.refresh)
  BY <1>1, DesignFacts DEF Tracking, Range
<1>2. InputInv => DrawnTracked
  BY <1>1, Zenon DEF DrawnTracked, Shows, Moves
<1> QED
  BY <1>2, InputInvariant, PTL

\* Of regions that are numbered in their order the last one wins.
LEMMA HitMost ==
  ASSUME NEW order, NEW actions, Numbered(order, actions), NEW p
  PROVE  LET hits == {i \in DOMAIN actions : Inside(p, actions[i])} IN
         Hit(actions, p) = IF hits = {} THEN None ELSE actions[Most(hits)]
<1>1. PICK n \in Nat : n = Len(actions) /\ DOMAIN actions = 1..n
  BY ListFacts DEF Numbered
<1>2. /\ \A j \in 1..n : actions[j].order \in Int
      /\ \A j, k \in 1..n : j < k => actions[j].order < actions[k].order
  BY <1>1 DEF Numbered
<1> DEFINE hits == {i \in DOMAIN actions : Inside(p, actions[i])}
<1>3. CASE hits = {}
  BY <1>3 DEF Hit
<1>4. CASE hits # {}
  <2>1. hits \in SUBSET (1..n)
    BY <1>1
  <2>2. PICK i \in hits : \A j \in hits : j <= i
    <3>1. hits \in SUBSET (0..n) /\ hits # {}
      BY <1>4, <2>1
    <3>2. \E i \in hits : \A j \in hits : j <= i
      <4> HIDE DEF hits
      <4> QED
        BY <3>1, Extremes
    <3> QED
      BY <3>2
  <2>3. i \in 1..n /\ Inside(p, actions[i]) /\ \A j \in 1..n : j > i => ~Inside(p, actions[j])
    BY <1>1, <2>1, <2>2
  <2>4. Hit(actions, p) = actions[i]
    BY <1>1, <1>2, <2>3, HitLast
  <2>5. Most(hits) = i
    <3>1. hits \in SUBSET Int /\ i \in hits /\ \A j \in hits : i >= j
      BY <2>1, <2>2
    <3> QED
      BY <3>1, MostIs
  <2> QED
    BY <1>4, <2>4, <2>5
<1> QED
  BY <1>3, <1>4

\* Of the regions of a design of any size the one of the latest element answers, a calendar's own
\* before the one of the element it is drawn in (Service.Touch, the order of compileXMLWithOptions).
THEOREM LatestAnswers == Spec => []TopmostHit
<1>1. ASSUME InputInv, Is("svg"), ~input.full.error, NEW p
      PROVE  LET actions == input.full.actions
                 hits == {i \in DOMAIN actions : Inside(p, actions[i])} IN
             Hit(actions, p) = IF hits = {} THEN None ELSE actions[Most(hits)]
  BY <1>1, DesignFacts, HitMost
<1>2. InputInv => TopmostHit
  BY <1>1, Zenon DEF TopmostHit
<1> QED
  BY <1>2, InputInvariant, PTL
=============================================================================
