------------------------------ MODULE X87Cordic ------------------------------
(***************************************************************************)
(* The transcendental lanes of the x87 executor and the tables they read.  *)
(* A vector is three limbs of the scratch memory, whose reads answer one   *)
(* word later; the angle is reduced over five limbs, one non-restoring     *)
(* quotient bit per pass.  In the code L = 28, G = 16, MinExp = -27 and    *)
(* MaxExp = 63; the fraction widths follow from L and G as there.          *)
(***************************************************************************)
EXTENDS X87Datapath

CONSTANTS L,       \* bits of a limb
          G,       \* zero bits below the reduced angle
          MinExp,  \* an angle up to this exponent is its own sine
          MaxExp   \* an angle from this exponent on is not reduced

F == 3 * L - 4              \* fraction bits of a vector, and the number of iterations
QR == F + 2 * L - G         \* fraction bits of the remainder

ASSUME CordicAssumption == L \in 3..28 /\ G \in 1..L - 1 /\ P < F /\ MinExp < 0 /\ MaxExp > 0

-----------------------------------------------------------------------------
(* build_x87_cordic_table.py, with S fraction bits for its decimal numbers. *)

S == 26
PI == 210828714             \* PI, and the gain of the rotations, times 2 ^ S
GAIN == 40752055

\* ROUND_HALF_EVEN of a number of S fraction bits.
ScaledTo(value, bits) ==
  LET drop == S - bits
      up == Low(value, drop) > 2 ^ (drop - 1)
            \/ (Low(value, drop) = 2 ^ (drop - 1) /\ Bit(value, drop))
  IN  High(value, drop) + B(up)

\* x - x^3/3 + x^5/5 - ... at x = 2 ^ -index, until a term vanishes.
AtanPowerOfTwo(index) ==
  LET term(k) == High(2 ^ S, AtMost(index * (2 * k + 1), S + 1)) \div (2 * k + 1)
      sum[k \in Nat] ==
        IF term(k) = 0 THEN 0
        ELSE (IF k % 2 = 0 THEN term(k) ELSE -term(k)) + sum[k + 1]
  IN  IF index = 0 THEN PI \div 4 ELSE sum[0]

\* The ROM: one angle per iteration, and zero above.
DEPTH == 128
AtanTable == [a \in 0..F - 1 |-> ScaledTo(AtanPowerOfTwo(a), F)] ++ [a \in 0..DEPTH - 1 |-> 0]

Pi(bits) == ScaledTo(PI, bits)
PIO2 == Pi(QR - 1)
PIO4 == Pi(QR - 2)
GainQ == ScaledTo(GAIN, F)

-----------------------------------------------------------------------------
(* Limbs *)

X0 == 0
Y0 == 3
Z == 6
X1 == 9
Y1 == 12
RangeBase == 4
XBase(bank) == IF bank THEN X1 ELSE X0
YBase(bank) == IF bank THEN Y1 ELSE Y0

Not(n) == 2 ^ L - 1 - n
Flip(n, flip) == IF flip THEN Not(n) ELSE n
RangeLimb(value, i) == Low(High(value * 2 ^ G, L * i), L)
NormalizeTop(value, limb) ==
  IF limb = 2 THEN Low(value, L - 1) + B(Bit(value, L - 2)) * 2 ^ (L - 1) ELSE value
VectorLimb(value, i) == NormalizeTop(Low(High(value, L * i), L), i)

\* The top of the five limbs is the sign of the remainder, the top of three that of a vector.
LastLimb(r) == r.range_limb = 4
Negative(sum) == Bit(sum, L - 1)

-----------------------------------------------------------------------------
(* The adders: one limb and a carry per word. *)

RangeBit(q, r) == r.bitvalid /\ Bit(q.a.sig, r.bitpos)
RangeOld(r) == IF r.first THEN 0 ELSE r.data_a

RangeSum(q, r) ==
  LET step == r.mode = "STEP"
      bit == IF r.range_limb = 0 THEN B(RangeBit(q, r)) * 2 ^ G ELSE 0
      operand == IF step THEN Low(2 * RangeOld(r), L) + B(r.range_shift) + bit
                 ELSE RangeOld(r)
      subtract == IF step THEN ~r.neg ELSE r.mode # "CORRECT"
      const == RangeLimb(IF r.mode = "COMPARE" THEN PIO4 ELSE PIO2, r.range_limb)
  IN  operand + Flip(const, subtract) + B(r.carry)

\* A limb of the other vector, shifted down with fill coming in at the top.
FilledLimb(r, fill) ==
  LET low == IF r.low_fill THEN fill ELSE r.rhs_low
      high == IF r.high_fill THEN fill ELSE r.data_b
  IN  IF r.shift_bits = 0 THEN low
      ELSE High(low, r.shift_bits) + Low(high * 2 ^ (L - r.shift_bits), L)

\* Mutant: zeros come in at the top of a negative vector.
ShiftedLimbUnsigned(r, sign) == FilledLimb(r, 0)
ShiftedLimb(r, sign) == FilledLimb(r, Flip(0, sign))

OutputSum(r) ==
  CASE r.output_mode = "COPY" -> r.lhs
    [] r.output_mode = "NEGATE" -> Not(r.lhs) + B(r.carry)
    [] r.output_mode = "PI_MINUS" -> r.rhs_low + Not(r.lhs) + B(r.carry)
    [] r.output_mode = "MINUS_PI" -> r.lhs + Not(r.rhs_low) + B(r.carry)

AddResult(r, u) ==
  CASE u.scratch_write = "X" ->
         r.lhs + Flip(ShiftedLimb(r, r.y_sign[r.bank]), r.sub) + B(r.carry)
    [] u.scratch_write = "Y" ->
         r.lhs + Flip(ShiftedLimb(r, r.x_sign[r.bank]), ~r.sub) + B(r.carry)
    [] u.scratch_write = "Z" ->
         r.data_a + Flip(VectorLimb(r.atan, r.limb), r.sub) + B(r.carry)
    [] OTHER -> OutputSum(r)

-----------------------------------------------------------------------------
(* The scratch memory: a word reads two limbs for the next one, and may write one. *)

AlignBase(r) == IF r.shift_x THEN X0 ELSE Y0
ShiftedIndex(r, u) ==
  r.limb + r.shift_word + B(u.scratch_read \in {"X_HIGH", "Y_HIGH"})
RangeBegins == {"TRANS_RANGE_BEGIN_STEP", "TRANS_RANGE_BEGIN_CORRECT",
                "TRANS_RANGE_BEGIN_COMPARE", "TRANS_RANGE_BEGIN_FOLD"}

ReadA(r, u) ==
  CASE u.scratch_read = "ALIGN" -> AlignBase(r) + r.limb
    [] u.scratch_read \in {"X_LOW", "X_HIGH"} -> XBase(r.bank) + r.limb
    [] u.scratch_read \in {"Y_LOW", "Y_HIGH"} -> YBase(r.bank) + r.limb
    [] u.scratch_read = "Z" -> Z + r.limb
    [] u.scratch_read = "OUTPUT" -> r.output_base + r.limb
    [] u.engine \in RangeBegins -> RangeBase
    [] u.engine = "TRANS_RANGE_STEP" -> RangeBase + r.range_limb + 1
    [] u.engine = "TRANS_ABS_BEGIN_PRIMARY" -> Z + 2
    [] u.engine = "TRANS_ABS_BEGIN_AUX" -> XBase(~r.bank) + 2
    [] u.engine = "TRANS_ABS_SIGN" -> r.abs_base
    [] u.engine = "TRANS_ABS_STEP" -> r.abs_base + r.limb + 1
    [] OTHER -> 0

ReadB(r, u) ==
  CASE u.scratch_read = "ALIGN" -> IF r.limb = 2 THEN 0 ELSE AlignBase(r) + r.limb + 1
    [] u.scratch_read \in {"X_LOW", "X_HIGH"} -> YBase(r.bank) + ShiftedIndex(r, u)
    [] u.scratch_read \in {"Y_LOW", "Y_HIGH"} -> XBase(r.bank) + ShiftedIndex(r, u)
    [] OTHER -> 0

\* Only atan2 clears Z: otherwise the top of the remainder already lies there.
LoadWrite(q, r) ==
  LET i == r.load_index
      x == IF q.atan2 THEN q.b.sig * 2 ^ (F - P) ELSE GainQ
      y == IF q.atan2 THEN q.a.sig * 2 ^ (F - P) ELSE 0
  IN  IF i < 3 THEN << <<X0 + i, VectorLimb(x, i)>> >>
      ELSE IF i < 6 THEN << <<Y0 + i - 3, VectorLimb(y, i - 3)>> >>
      ELSE IF q.atan2 THEN << <<Z + i - 6, 0>> >> ELSE << >>

AlignWrite(r) ==
  LET in == IF r.limb = 2 THEN 0 ELSE Low(r.data_b, 1)
  IN  NormalizeTop(High(r.data_a, 1) + in * 2 ^ (L - 1), r.limb)

\* The write of a word: an address and a limb, or nothing.
Write(q, r, u) ==
  LET sum == NormalizeTop(Low(AddResult(r, u), L), r.limb)
  IN  CASE u.scratch_write = "LOAD" -> LoadWrite(q, r)
        [] u.scratch_write = "ALIGN" -> << <<AlignBase(r) + r.limb, AlignWrite(r)>> >>
        [] u.scratch_write = "X" -> << <<XBase(~r.bank) + r.limb, sum>> >>
        [] u.scratch_write = "Y" -> << <<YBase(~r.bank) + r.limb, sum>> >>
        [] u.scratch_write \in {"Z", "PRIMARY"} -> << <<Z + r.limb, sum>> >>
        [] u.scratch_write = "AUX" -> << <<XBase(~r.bank) + r.limb, sum>> >>
        [] u.engine = "TRANS_RANGE_STEP" /\ r.mode # "COMPARE" ->
             << <<RangeBase + r.range_limb, Low(RangeSum(q, r), L)>> >>
        [] OTHER -> << >>

\* Every word clocks the memory and the ROM; a read answers what was there before the write.
MemoryLane(q, r, u) ==
  LET w == Write(q, r, u)
  IN  [data_a |-> r.mem[ReadA(r, u) % 16], data_b |-> r.mem[ReadB(r, u) % 16],
       atan |-> AtanTable[r.iteration],
       mem |-> IF w = << >> THEN r.mem ELSE [r.mem EXCEPT ![w[1][1]] = w[1][2]]]

-----------------------------------------------------------------------------
(* classify: the angles and the pairs that need no rotation. *)

\* atan2 of a zero, an infinity or a negative axis is a constant that is still rounded.
ConstantAngle(q, magnitude) ==
  [inexact |-> TRUE, special |-> TRUE, direct |-> FALSE, trans_sign |-> q.a.sign,
   magnitude |-> magnitude, trans_exp |-> BIAS]

ClassifyAtan2(q) ==
  LET a == q.a  b == q.b  delta == a.exp - b.exp
      onAxis == IF b.sign THEN ConstantAngle(q, Pi(F)) ELSE Direct([result |-> Zero(a.sign)])
  IN  IF IsNan(a) \/ IsNan(b) THEN Direct(Quiet(a, b))
      ELSE IF a.class = "EMPTY" \/ b.class = "EMPTY"
      THEN Direct([result |-> Indefinite, invalid |-> TRUE])
      ELSE IF IsZero(a) THEN onAxis
      ELSE IF IsZero(b) THEN ConstantAngle(q, Pi(F - 1))
      ELSE IF IsInfinity(a) /\ IsInfinity(b)
      THEN ConstantAngle(q, IF b.sign THEN Pi(F) - Pi(F - 2) ELSE Pi(F - 2))
      ELSE IF IsInfinity(a) THEN ConstantAngle(q, Pi(F - 1))
      ELSE IF IsInfinity(b) THEN onAxis
      ELSE [direct |-> FALSE, trans_count |-> AtMost(Abs(delta), F + 2), shift_x |-> delta > 0]

ClassifyAngle(q) ==
  LET a == q.a  unbiased == q.a.exp - BIAS
      small == [result |-> IF q.cosine THEN One ELSE a]
               ++ IF q.tangent THEN [aux |-> One] ELSE Nothing
  IN  IF IsNan(a) THEN Direct(Quiet(a, a))
      ELSE IF IsInfinity(a) \/ a.class = "EMPTY"
      THEN Direct([result |-> Indefinite, invalid |-> TRUE])
      ELSE IF IsZero(a) THEN Direct(small)
      ELSE IF unbiased >= MaxExp THEN Direct([result |-> a, range_incomplete |-> TRUE])
      ELSE IF unbiased <= MinExp THEN Direct(small ++ [inexact |-> TRUE])
      ELSE [direct |-> FALSE, bitpos |-> P, bitvalid |-> TRUE, first |-> TRUE, neg |-> FALSE,
            quadrant |-> 0, trans_count |-> unbiased + QR + 1]

-----------------------------------------------------------------------------
(* The engine words *)

BeginRange(r, mode, carry) ==
  [range_limb |-> 0, range_shift |-> FALSE, nonzero |-> FALSE, mode |-> mode, carry |-> carry]

\* What the last limb of a pass decides.
EndOfPass(r, sum) ==
  CASE r.mode = "STEP" ->
         [neg |-> Negative(sum), quadrant |-> Low(2 * r.quadrant + B(~Negative(sum)), 2),
          first |-> FALSE]
         ++ IF r.bitpos = 0 THEN [bitvalid |-> FALSE] ELSE [bitpos |-> r.bitpos - 1]
    [] r.mode = "CORRECT" -> [neg |-> Negative(sum)]
    [] r.mode = "COMPARE" ->
         [greater |-> ~Negative(sum) /\ (r.nonzero \/ Low(sum, L) # 0)]
    [] OTHER -> [neg |-> Negative(sum), quadrant |-> (r.quadrant + 1) % 4]

RangeStep(q, r) ==
  LET sum == RangeSum(q, r)
  IN  [range_limb |-> (r.range_limb + 1) % 8, carry |-> Bit(sum, L),
       range_shift |-> Bit(RangeOld(r), L - 1), nonzero |-> r.nonzero \/ Low(sum, L) # 0]
      ++ IF LastLimb(r) THEN EndOfPass(r, sum) ELSE Nothing

\* The next iteration shifts one bit further, over whole limbs when a limb is full.
CordicNext(r) ==
  LET wrap == r.shift_bits = L - 1
  IN  [bank |-> ~r.bank, iteration |-> r.iteration + 1,
       shift_bits |-> IF wrap THEN 0 ELSE r.shift_bits + 1,
       shift_word |-> IF wrap THEN r.shift_word + 1 ELSE r.shift_word]

Output(base, mode, carry) ==
  [output_base |-> base, output_mode |-> mode, carry |-> carry, limb |-> 0]
Signed(base, negate) == Output(base, IF negate THEN "NEGATE" ELSE "COPY", negate)

\* The quadrant says which vector is the sine and the signs of both.
Swapped(r) == r.quadrant \in {1, 3}
CosineOutput(r) ==
  Signed(IF Swapped(r) THEN YBase(r.bank) ELSE XBase(r.bank), r.quadrant \in {1, 2})
SineOutput(q, r) ==
  Signed(IF Swapped(r) THEN XBase(r.bank) ELSE YBase(r.bank),
         (r.quadrant \in {2, 3}) # q.a.sign)
AngleOutput(q) ==
  Output(Z, IF q.b.sign THEN IF q.a.sign THEN "MINUS_PI" ELSE "PI_MINUS"
            ELSE IF q.a.sign THEN "NEGATE" ELSE "COPY",
         q.b.sign \/ q.a.sign)

\* One limb of the magnitude, negated when the sign limb said so.
AbsStep(r) ==
  LET sum == Flip(r.data_a, r.trans_sign) + B(r.carry)
      kept == IF r.limb = 2 THEN Low(sum, L - 1) ELSE Low(sum, L)
      old == Low(High(r.magnitude, L * r.limb), IF r.limb = 2 THEN L - 1 ELSE L)
  IN  [magnitude |-> r.magnitude + (kept - old) * 2 ^ (L * r.limb),
       carry |-> Bit(sum, L), limb |-> (r.limb + 1) % 4]

TransEngine(q, r, u) ==
  CASE u.engine = "TRANS_RANGE_BEGIN_STEP" -> BeginRange(r, "STEP", ~r.neg)
    [] u.engine = "TRANS_RANGE_BEGIN_CORRECT" -> BeginRange(r, "CORRECT", FALSE)
    [] u.engine = "TRANS_RANGE_BEGIN_COMPARE" -> BeginRange(r, "COMPARE", TRUE)
    [] u.engine = "TRANS_RANGE_BEGIN_FOLD" -> BeginRange(r, "FOLD", TRUE)
    [] u.engine = "TRANS_RANGE_STEP" -> RangeStep(q, r)
    [] u.engine = "TRANS_CORDIC_PREP" ->
         [load_index |-> 0, bank |-> FALSE, x_sign |-> [r.x_sign EXCEPT ![FALSE] = FALSE],
          y_sign |-> [r.y_sign EXCEPT ![FALSE] = FALSE], z_sign |-> ~q.atan2 /\ r.neg]
    [] u.engine = "CORDIC_ALIGN_PREP" -> [limb |-> 0]
    [] u.engine = "CORDIC_BEGIN" ->
         [trans_count |-> F, iteration |-> 0, shift_word |-> 0, shift_bits |-> 0]
    [] u.engine = "CORDIC_X_PREP" ->
         LET sub == IF q.atan2 THEN r.y_sign[r.bank] ELSE ~r.z_sign
         IN  [sub |-> sub, carry |-> sub, limb |-> 0]
    [] u.engine = "CORDIC_Y_PREP" -> [carry |-> ~r.sub, limb |-> 0]
    [] u.engine = "CORDIC_Z_PREP" -> [carry |-> r.sub, limb |-> 0]
    [] u.engine = "CORDIC_NEXT" -> CordicNext(r)
    [] u.engine = "CORDIC_OUTPUT_PREP" ->
         IF q.atan2 THEN AngleOutput(q) ELSE IF q.cosine THEN CosineOutput(r) ELSE SineOutput(q, r)
    [] u.engine = "CORDIC_AUX_PREP" -> CosineOutput(r)
    [] u.engine = "CORDIC_OUTPUT_CAPTURE" ->
         [lhs |-> r.data_a, rhs_low |-> VectorLimb(Pi(F), r.limb)]
    [] u.engine = "TRANS_ABS_BEGIN_PRIMARY" ->
         [abs_base |-> Z, trans_exp |-> BIAS, inexact |-> TRUE]
    [] u.engine = "TRANS_ABS_BEGIN_AUX" ->
         [abs_base |-> XBase(~r.bank), trans_exp |-> BIAS, rounding_aux |-> TRUE]
    [] u.engine = "TRANS_ABS_SIGN" ->
         [trans_sign |-> Bit(r.data_a, L - 1), carry |-> Bit(r.data_a, L - 1), limb |-> 0]
    [] u.engine = "TRANS_ABS_STEP" -> AbsStep(r)
    [] OTHER -> Nothing

\* What a scratch word does besides its memory access.
ScratchRegisters(q, r, u) ==
  LET next == [limb |-> (r.limb + 1) % 4]
      sum == AddResult(r, u)
      carried == next ++ [carry |-> Bit(sum, L)]
      sign == Bit(Low(sum, L), L - 2)
      at(f, bank) == IF r.limb = 2 THEN [f EXCEPT ![bank] = sign] ELSE f
      fill == ShiftedIndex(r, u) >= 3
  IN  CASE u.scratch_read \in {"X_LOW", "Y_LOW"} -> [low_fill |-> fill]
        [] u.scratch_read \in {"X_HIGH", "Y_HIGH"} ->
             [lhs |-> r.data_a, rhs_low |-> r.data_b, high_fill |-> fill]
        [] u.scratch_write = "LOAD" -> [load_index |-> r.load_index + 1]
        [] u.scratch_write = "ALIGN" -> next
        [] u.scratch_write = "X" -> carried ++ [x_sign |-> at(r.x_sign, ~r.bank)]
        [] u.scratch_write = "Y" -> carried ++ [y_sign |-> at(r.y_sign, ~r.bank)]
        [] u.scratch_write = "Z" ->
             carried ++ [z_sign |-> IF r.limb = 2 THEN sign ELSE r.z_sign]
        [] u.scratch_write \in {"PRIMARY", "AUX"} -> carried
        [] OTHER -> Nothing

-----------------------------------------------------------------------------
(* Normalisation, rounding and the two results. *)

TransNormalizeMore(r) ==
  r.magnitude # 0 /\ (High(r.magnitude, F + 1) # 0 \/ ~Bit(r.magnitude, F))

TransNormalize(r) ==
  IF High(r.magnitude, F + 1) # 0
  THEN [magnitude |-> High(r.magnitude, 1), trans_exp |-> r.trans_exp + 1]
  ELSE IF ~Bit(r.magnitude, F)
  THEN [magnitude |-> 2 * r.magnitude, trans_exp |-> r.trans_exp - 1]
  ELSE Nothing

PackTrans(q, r) ==
  LET value == Packed(q, r.work, r.trans_sign, r.trans_exp)
  IN  IF r.rounding_aux THEN [aux |-> value] ELSE [result |-> value]

NeedsAux(q, r) == q.tangent /\ ~q.atan2 /\ ~r.rounding_aux

\* The lanes of a word that only a transcendental operation has.
TransLanes(q, r, u) ==
  << IF u.count = "DEC" /\ q.op = "TRANS" THEN [trans_count |-> r.trans_count - 1] ELSE Nothing,
     IF u.classify # "TRANS" THEN Nothing
     ELSE [iteration |-> 0] ++ IF q.atan2 THEN ClassifyAtan2(q) ELSE ClassifyAngle(q),
     TransEngine(q, r, u),
     ScratchRegisters(q, r, u),
     MemoryLane(q, r, u),
     IF u.state = "TRANS_NORMALIZE" THEN TransNormalize(r) ELSE Nothing,
     IF u.alu_route = "PREP_ROUND_TRANS"
     THEN Split(q, r.magnitude, F - P) ++ [round |-> FALSE] ELSE Nothing,
     IF u.pack = "PACK_TRANS" THEN PackTrans(q, r) ELSE Nothing >>
=============================================================================
