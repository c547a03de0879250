------------------------------ MODULE DecoderMC ------------------------------
EXTENDS DecodeReference

\* Heads of instructions (prefixes, opcode, ModR/M, SIB) and the literal bytes behind them
\* in a 16-bit and in a 32-bit segment; -1 where the head does not belong to the mode.
Shape(head, n16, n32) == [head |-> head, n |-> <<n16, n32>>]
LongShape == Shape(<<103, 102, 54, 46, 199, 132, 36>>, 8, -1)
Shapes == {
  Shape(<<144>>, 0, 0), Shape(<<184>>, 2, 4), Shape(<<102, 184>>, 4, 2), Shape(<<161>>, 2, 4),
  Shape(<<103, 161>>, 4, 2), Shape(<<200>>, 3, 3), Shape(<<154>>, 4, 6), Shape(<<232>>, 2, 4),
  Shape(<<235>>, 1, 1), Shape(<<15, 132>>, 2, 4), Shape(<<106>>, 1, 1), Shape(<<194>>, 2, 2),
  Shape(<<247, 192>>, 2, 4), Shape(<<247, 216>>, 0, 0), Shape(<<246, 192>>, 1, 1),
  Shape(<<243, 164>>, 0, 0), Shape(<<15, 164, 193>>, 1, 1), Shape(<<15, 175, 192>>, 0, 0),
  Shape(<<105, 192>>, 2, 4), Shape(<<199, 68>>, 3, -1), Shape(<<129, 134>>, 4, -1),
  Shape(<<131, 6>>, 3, -1), Shape(<<199, 68, 36>>, -1, 5), Shape(<<129, 132, 36>>, -1, 8),
  Shape(<<129, 4, 37>>, -1, 8), Shape(<<131, 5>>, -1, 5), Shape(<<143, 68, 36>>, -1, 1),
  Shape(<<131, 4, 36>>, -1, 1), Shape(<<103, 131, 6>>, -1, 3),
  Shape(<<1, 192>>, 0, 0), Shape(<<240, 1, 0>>, 0, 0), Shape(<<240, 1, 192>>, 0, 0),
  Shape(<<254, 0>>, 0, 0), Shape(<<254, 200>>, 0, 0), Shape(<<254, 216>>, 0, 0), Shape(<<211, 208>>, 0, 0),
  Shape(<<247, 16>>, 0, 0), Shape(<<240, 246, 24>>, 0, 0), Shape(<<211, 224>>, 0, 0),
  Shape(<<211, 16>>, 0, 0), Shape(<<99, 193>>, 0, 0), Shape(<<15, 0, 192>>, 0, 0),
  Shape(<<15, 0, 48>>, 0, 0), Shape(<<15, 1, 56>>, 0, 0), Shape(<<15, 1, 248>>, 0, 0),
  Shape(<<15, 1, 16>>, 0, 0), Shape(<<15, 182, 193>>, 0, 0), Shape(<<102, 15, 182, 0>>, 0, 0),
  Shape(<<137, 193>>, 0, 0), Shape(<<137, 1>>, 0, 0), Shape(<<141, 1>>, 0, 0),
  Shape(<<240, 131, 1>>, 1, 1), Shape(<<199, 192>>, 2, 4), Shape(<<143, 192>>, 0, 0),
  LongShape}
Followers == {Shape(<<144>>, 0, 0), Shape(<<235>>, 1, 1), Shape(<<46, 199, 132, 36>>, -1, 8)}

InMode(shapes, d32) == {s \in shapes : s.n[d32 + 1] >= 0}
Encoded(s, d32, from) == s.head \o [k \in 1..s.n[d32 + 1] |-> (from + 37 * k) % 256]
Pair(a, b, d32, off) ==
  [bytes |-> Encoded(a, d32, 99) \o Encoded(b, d32, 160), d32 |-> d32, pe |-> Flag(off # 3), off |-> off]

\* Two instructions of fifteen bytes fill the queue, and a jump stands across its end.
FullQueue ==
  {[bytes |-> Encoded(LongShape, 0, 3) \o Encoded(LongShape, 0, 50)
              \o Encoded(Shape(<<232>>, 2, 4), 0, 160), d32 |-> 0, pe |-> 0, off |-> off] : off \in {0, 1}}

PairPrograms ==
  FullQueue \cup UNION {{Pair(a, b, d32, off) : a \in InMode(Shapes, d32), b \in InMode(Followers, d32)}
         : d32 \in {0, 1}, off \in {0, 3, 14}}

PairTargets ==
  {Pair(Shape(<<129, 132, 36>>, -1, 8), Shape(<<144>>, 0, 0), 1, 14),
   Pair(Shape(<<46, 15, 132>>, 2, -1), Shape(<<144>>, 0, 0), 0, 3),
   Pair(Shape(<<200>>, 3, 3), Shape(<<235>>, 1, 1), 0, 13)}

\* The generators' own checks hold for the map they are given: a length fits its three bits,
\* no group row depends on REP, the two halves of the entry ROM never collide, the port-B
\* table needs no more inputs than it has, and the opcode gives away what a recipe reads.
ASSUME TablesBuild == LengthsFit /\ RowsIgnoreRep /\ RomBuilds /\ TableBuilds /\ ReadsCovered

\* The code has no more prefixes in a row than D1 counts.
ASSUME PrefixesCounted == ShortPrefixes
=============================================================================
