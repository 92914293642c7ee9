-------------------------------- MODULE Wire ---------------------------------
(***************************************************************************)
(* The PV3 wire format as the server uses it (internal/pv3/image.go,       *)
(* touch.go) and what the gateway computes for it (changedPrimitive and    *)
(* the sequence numbers of internal/gateway/gateway.go).  Bytes are        *)
(* counted; CRC-32 and what the LZ4 compressor finds are left out.         *)
(***************************************************************************)
EXTENDS Integers, Sequences

CONSTANT LastSequence   \* the greatest sequence number, 2^32 - 1

ASSUME WireAssumption == LastSequence \in Nat \ {0, 1}
-----------------------------------------------------------------------------
(* CompressChunks. *)

ChunkSize == 4800

LiteralLengthOpen(n) ==             \* mutant: no last byte if nothing remains
  IF n < 15 THEN [token |-> n, more |-> <<>>]
  ELSE [token |-> 15, more |-> [i \in 1..((n - 15) \div 255) |-> 255]
                                 \o (IF (n - 15) % 255 = 0 THEN <<>> ELSE <<(n - 15) % 255>>)]

(* literalBlock: the length of n literals in the high half of the token and *)
(* in bytes after it, the last of which is less than 255.                   *)
LiteralLength(n) ==
  IF n < 15 THEN [token |-> n, more |-> <<>>]
  ELSE [token |-> 15, more |-> [i \in 1..((n - 15) \div 255) |-> 255] \o <<(n - 15) % 255>>]

(* How a decoder of LZ4 reads it: bytes are added up to one that is not 255. *)
DecodedLength(l) ==
  LET stops == {i \in DOMAIN l.more : l.more[i] < 255}
      stop  == CHOOSE i \in stops : \A j \in stops : i <= j IN
  IF l.token < 15 THEN [literals |-> l.token, bytes |-> 1]
  ELSE IF stops = {} THEN [literals |-> 0, bytes |-> 0]     \* runs into the data
  ELSE [literals |-> 15 + 255 * (stop - 1) + l.more[stop], bytes |-> 1 + stop]

(* The chunks of n bytes: index, final index, bytes packed and unpacked, or *)
(* the literal block if the compressor gave up on it.                       *)
Chunks(n, packed) ==
  LET final == IF n = 0 THEN 0 ELSE (n - 1) \div ChunkSize
      Raw(i) == IF i < final THEN ChunkSize ELSE n - final * ChunkSize
      Bytes(i) == IF packed = 0 THEN 1 + Len(LiteralLength(Raw(i)).more) + Raw(i) ELSE packed IN
  IF n = 0 THEN <<>>
  ELSE [k \in 1..(final + 1) |->
          [index |-> k - 1, final |-> final, raw |-> Raw(k - 1), bytes |-> Bytes(k - 1),
           literals |-> IF packed = 0 THEN LiteralLength(Raw(k - 1)) ELSE <<>>]]
-----------------------------------------------------------------------------
(* changedPrimitive and BuildImagePrimitives. *)

Whole(current, size) == [x |-> 0, y |-> 0, width |-> size.width, height |-> size.height, pixels |-> current]

SpanShort(S) ==                     \* mutant: the last one is left out
  LET from == CHOOSE x \in S : \A k \in S : x <= k
      to   == CHOOSE x \in S : \A k \in S : k <= x IN
  [from |-> from, count |-> IF to > from THEN to - from ELSE 1]

Span(S) ==
  LET from == CHOOSE x \in S : \A k \in S : x <= k
      to   == CHOOSE x \in S : \A k \in S : k <= x IN
  [from |-> from, count |-> to - from + 1]

(* The rectangle of bytes that differ, or the whole frame if nothing        *)
(* differs, the frame before is unknown or of another size, or the width is *)
(* odd.  Byte "column" of row y is byte y * row + column.                   *)
Changed(current, previous, size, previousSize) ==
  LET row == size.width \div 2
      comparable == /\ size.width % 2 = 0 /\ size = previousSize
                    /\ DOMAIN current = 0..(row * size.height - 1)
                    /\ DOMAIN previous = DOMAIN current
      changed == {i \in DOMAIN current : current[i] # previous[i]}
      across  == Span({i % row : i \in changed})
      down    == Span({i \div row : i \in changed})
      Source(i) == (down.from + i \div across.count) * row + across.from + (i % across.count) IN
  IF ~comparable \/ changed = {} THEN Whole(current, size)
  ELSE [x |-> 2 * across.from, y |-> down.from, width |-> 2 * across.count, height |-> down.count,
        pixels |-> [i \in 0..(across.count * down.count - 1) |-> current[Source(i)]]]

(* BuildImagePrimitives refuses a primitive that is not packed. *)
Buildable(p) ==
  /\ p.x >= 0 /\ p.y >= 0 /\ p.x <= 65535 /\ p.y <= 65535
  /\ p.width > 0 /\ p.height > 0 /\ p.width <= 65535 /\ p.height <= 65535
  /\ p.x + p.width <= 65536 /\ p.y + p.height <= 65536
  /\ (p.width * p.height) % 2 = 0
  /\ DOMAIN p.pixels = 0..((p.width * p.height) \div 2 - 1)

(* What the tablet has on its screen after it (external). *)
Painted(bytes, p, row) ==
  [i \in DOMAIN bytes |->
     LET x == (i % row) - p.x \div 2
         y == (i \div row) - p.y IN
     IF x \in 0..(p.width \div 2 - 1) /\ y \in 0..(p.height - 1)
     THEN p.pixels[y * (p.width \div 2) + x] ELSE bytes[i]]
-----------------------------------------------------------------------------
(* Touch.PhysicalCoordinates: the panel is mounted upside down. *)
PhysicalCoordinates(raw, width, height) ==
  IF raw.x >= width \/ raw.y >= height THEN [refused |-> TRUE]
  ELSE [refused |-> FALSE, x |-> width - 1 - raw.x, y |-> height - 1 - raw.y]
-----------------------------------------------------------------------------
(* session.sequence and advanceSequence: 32-bit numbers, 0 being none. *)

After(n) == (n + 1) % (LastSequence + 1)
NotZero(n) == IF n = 0 THEN 1 ELSE n

Sequence(next) == [sequence |-> NotZero(next), next |-> NotZero(After(NotZero(next)))]
AdvancedTo(next, observed) == IF next <= observed THEN observed ELSE next   \* mutant
Advanced(next, observed) == IF next <= observed THEN NotZero(After(observed)) ELSE next
=============================================================================
