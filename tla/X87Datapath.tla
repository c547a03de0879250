----------------------------- MODULE X87Datapath -----------------------------
(***************************************************************************)
(* The registers and the lanes of the x87 executor (x87_executor.sv): what *)
(* one micro-operation writes, as a partial record of registers.  A lane   *)
(* is an operator of the request q, the registers r and the word u; the    *)
(* lanes of a word are merged in the order of the code, the later one      *)
(* winning.  Significands, exponents and formats keep their relations and  *)
(* are narrower: the code has P = 52, PS = 23, EW = 15, W32 = 8, W64 = 11, *)
(* IW = <<16, 32, 64>>.                                                    *)
(***************************************************************************)
EXTENDS X87Microcode

CONSTANTS P,    \* fraction bits of a register
          PS,   \* fraction bits of single precision
          EW,   \* exponent bits of a register
          W32,  \* exponent bits of the two memory formats
          W64,
          IW    \* the widths of the three integer formats

ASSUME WidthAssumption ==
  /\ P \in Nat /\ PS \in 2..P - 1 /\ P % 2 = 0
  /\ W32 \in 2..W64 - 1 /\ W64 < EW
  /\ IW \in Seq(Nat) /\ Len(IW) = 3 /\ IW[3] > P

BIAS == 2 ^ (EW - 1) - 1
EXPMAX == 2 ^ EW - 1
WORKBITS == IW[3] + 4
Down == P - PS                       \* bits single precision drops

\* What a lane that holds writes.
Nothing == [f \in {} |-> FALSE]
\* A write and another one beside it.
f ++ g == [x \in DOMAIN f \cup DOMAIN g |-> IF x \in DOMAIN f THEN f[x] ELSE g[x]]

Low(n, k) == n % 2 ^ k
High(n, k) == n \div 2 ^ k
Bit(n, k) == High(n, k) % 2 = 1
B(flag) == IF flag THEN 1 ELSE 0
AtMost(n, bound) == IF n > bound THEN bound ELSE n

\* A register value; grs packs the guard, the round and the sticky bit.
Reg(class, sign, exp, sig) ==
  [class |-> class, sign |-> sign, exp |-> exp, sig |-> sig, grs |-> 0]
Empty == Reg("EMPTY", FALSE, 0, 0)
Zero(sign) == Reg("ZERO", sign, 0, 0)
One == Reg("NORMAL", FALSE, BIAS, 2 ^ P)
Infinity(sign) == Reg("INFINITY", sign, EXPMAX, 2 ^ P)
Indefinite == Reg("NAN", TRUE, EXPMAX, 3 * 2 ^ (P - 1))

IsNan(v) == v.class = "NAN"
IsZero(v) == v.class = "ZERO"
IsInfinity(v) == v.class = "INFINITY"
IsFinite(v) == v.class \in {"NORMAL", "DENORMAL"}
Signaling(v) == IsNan(v) /\ ~Bit(v.sig, P - 1)
QuietNan(v) == [v EXCEPT !.exp = EXPMAX, !.sig = 3 * 2 ^ (P - 1) + Low(@, P - 1)]
Extended(v) == 8 * v.sig + v.grs
Quiet(a, b) == [result |-> QuietNan(IF IsNan(a) THEN a ELSE b),
                invalid |-> Signaling(a) \/ Signaling(b)]

\* magnitude_relation: "equal", "less" or "greater" of the magnitudes.
Magnitude(a, b) ==
  CASE IsInfinity(a) /\ ~IsInfinity(b) -> "greater"
    [] ~IsInfinity(a) /\ IsInfinity(b) -> "less"
    [] IsZero(a) /\ IsZero(b) -> "equal"
    [] OTHER -> IF a.exp < b.exp \/ (a.exp = b.exp /\ Extended(a) < Extended(b)) THEN "less"
                ELSE IF a.exp = b.exp /\ Extended(a) = Extended(b) THEN "equal"
                ELSE "greater"

\* compare_relation
Relation(a, b) ==
  CASE {a.class, b.class} \cap {"NAN", "EMPTY"} # {} -> "unordered"
    [] IsZero(a) /\ IsZero(b) -> "equal"
    [] OTHER -> IF a.sign # b.sign THEN IF a.sign THEN "less" ELSE "greater"
                ELSE IF Magnitude(a, b) = "equal" THEN "equal"
                ELSE IF Magnitude(a, b) = (IF a.sign THEN "greater" ELSE "less") THEN "less"
                ELSE "greater"

Increment(rc, sign, odd, guard, sticky) ==
  CASE rc = "NEAREST" -> guard /\ (sticky \/ odd)
    [] rc = "DOWN" -> sign /\ (guard \/ sticky)
    [] rc = "UP" -> ~sign /\ (guard \/ sticky)
    [] OTHER -> FALSE

\* overflow_to_infinity
ToInfinity(sign, rc) == rc = "NEAREST" \/ (rc = "DOWN" /\ sign) \/ (rc = "UP" /\ ~sign)

\* A significand with x bits below the register's last one, cut at the precision asked for.
Split(q, n, x) ==
  LET drop == x + (IF q.single THEN Down ELSE 0)
  IN  [work |-> High(n, drop), guard |-> Bit(n, drop - 1), sticky |-> Low(n, drop - 1) # 0]

\* Split, and rounded in the same word.
SplitRound(q, sign, n, x) ==
  LET s == Split(q, n, x)
      up == Increment(q.rc, sign, Bit(s.work, 0), s.guard, s.sticky)
  IN  [s EXCEPT !.work = @ + B(up)]
      ++ [inexact |-> s.guard \/ s.sticky, rounded_up |-> up]

\* The rounded work register as a value: a carry out of the significand is one more exponent.
Packed(q, work, sign, exp) ==
  IF Bit(work, (IF q.single THEN PS ELSE P) + 1)
  THEN Reg("NORMAL", sign, Low(exp + 1, EW), 2 ^ P)
  ELSE Reg("NORMAL", sign, Low(exp, EW),
           IF q.single THEN Low(work, PS + 1) * 2 ^ Down ELSE Low(work, P + 1))

\* The format of a memory operand: its fraction bits and its exponent bits.
M32(q) == q.op \in {"FLD_M32", "FST_M32"}
Frac(q) == IF M32(q) THEN PS ELSE P
Wide(q) == IF M32(q) THEN W32 ELSE W64
Rebias(q) == BIAS - (2 ^ (Wide(q) - 1) - 1)

\* An integer of the given width, and its two's complement.
SizedInteger(n, width) == IF Bit(n, width - 1) THEN Low(n, width) - 2 ^ width ELSE Low(n, width)
Abs(n) == IF n < 0 THEN -n ELSE n
Lead(n) == CHOOSE k \in 0..WORKBITS : High(n, k) = 1

EffectiveSign(q) == q.b.sign # (q.op = "SUB")

-----------------------------------------------------------------------------
(* The horizontal lanes: shift, count and guard-round-sticky. *)

FildFour(q, r, u) ==
  q.op = "FILD" /\ u.shift_route = "LEFT" /\ Low(High(r.work, P - 4), 4) = 0
FistFour(q, r) == q.op = "FIST" /\ r.count >= 4
AddFour(r, u) == u.engine = "ADDSUB_ALIGN" /\ r.count >= 4
ByFour(q, r, u) == FildFour(q, r, u) \/ FistFour(q, r)

ShiftLane(q, r, u) ==
  LET n == IF ByFour(q, r, u) THEN 4 ELSE 1
  IN  CASE u.shift_route = "LEFT" -> [work |-> Low(r.work * 2 ^ n, WORKBITS)]
        [] u.shift_route = "RIGHT" -> [work |-> High(r.work, n)]
        [] OTHER -> Nothing

CountLane(q, r, u) ==
  IF u.count = "DEC" /\ q.op # "TRANS" /\ r.count # 0
  THEN [count |-> r.count - (IF FistFour(q, r) \/ AddFour(r, u) THEN 4 ELSE 1)]
  ELSE Nothing

GrsLane(q, r, u) ==
  IF ~(u.grs = "SHIFT" /\ u.shift_route = "RIGHT") THEN Nothing
  ELSE IF u.count # "DEC"
  THEN [guard |-> Bit(r.work, 0), round |-> r.guard, sticky |-> r.sticky \/ r.round]
  ELSE IF FistFour(q, r) /\ r.count = 4
  THEN [guard |-> Bit(r.work, 3), sticky |-> r.sticky \/ Low(r.work, 3) # 0]
  ELSE IF FistFour(q, r) THEN [sticky |-> r.sticky \/ Low(r.work, 4) # 0]
  ELSE IF r.count = 1 THEN [guard |-> Bit(r.work, 0)]
  ELSE [sticky |-> r.sticky \/ Bit(r.work, 0)]

-----------------------------------------------------------------------------
(* classify: the operands that need no arithmetic, and the predicates of the others. *)

Direct(f) == [direct |-> TRUE] ++ f

ClassifyRoundint(q) ==
  LET unbiased == q.a.exp - BIAS
  IN  [unbiased |-> unbiased, special |-> ~IsFinite(q.a), integral |-> unbiased >= P,
       subunit |-> unbiased < 0]

ClassifyFist(q) ==
  LET unbiased == q.a.exp - BIAS
  IN  [unbiased |-> unbiased, zero |-> IsZero(q.a), shift_left |-> unbiased > P,
       invalid_r |-> (~IsZero(q.a) /\ ~IsFinite(q.a))
                     \/ (IsFinite(q.a) /\ unbiased > IW[3] - 1)]
      ++ (IF IsZero(q.a) THEN [work |-> 0] ELSE Nothing)

\* The smallest integer is in range, its magnitude alone is not.
ClassifyFistRange(q, r) ==
  LET w == IW[q.size]
  IN  [invalid_r |-> \/ High(r.work, w) # 0
                     \/ Bit(r.work, w - 1) /\ (q.a.sign => Low(r.work, w - 1) # 0)]

ClassifyAddSub(q) ==
  LET a == q.a
      b == [q.b EXCEPT !.sign = EffectiveSign(q)]
      rel == Relation(a, q.b)
  IN  CASE q.op = "COMPARE" ->
             Direct([unordered |-> rel = "unordered", less |-> rel = "less",
                     equal |-> rel = "equal",
                     invalid |-> rel = "unordered"
                                 /\ (~q.quiet \/ Signaling(a) \/ Signaling(q.b))])
        [] OTHER ->
             IF IsNan(a) \/ IsNan(b) THEN Direct(Quiet(a, q.b))
             ELSE IF IsInfinity(a) /\ IsInfinity(b) /\ a.sign # b.sign
             THEN Direct([result |-> Indefinite, invalid |-> TRUE])
             ELSE IF IsInfinity(a) THEN Direct([result |-> a])
             ELSE IF IsInfinity(b) THEN Direct([result |-> b])
             ELSE IF IsZero(a) /\ IsZero(b)
             THEN Direct([result |-> Zero(IF a.sign = b.sign THEN a.sign ELSE q.rc = "DOWN")])
             ELSE IF IsZero(a) THEN Direct([result |-> b])
             ELSE IF IsZero(b) THEN Direct([result |-> a])
             ELSE [direct |-> FALSE]

ClassifyMul(q) ==
  LET a == q.a  b == q.b  sign == q.a.sign # q.b.sign
  IN  [mul_sign |-> sign] ++
      IF IsNan(a) \/ IsNan(b) THEN Direct(Quiet(a, b))
      ELSE IF (IsInfinity(a) /\ IsZero(b)) \/ (IsZero(a) /\ IsInfinity(b))
      THEN Direct([result |-> Indefinite, invalid |-> TRUE])
      ELSE IF IsInfinity(a) \/ IsInfinity(b) THEN Direct([result |-> Infinity(sign)])
      ELSE IF IsZero(a) \/ IsZero(b) THEN Direct([result |-> Zero(sign)])
      ELSE [direct |-> FALSE]

ClassifyDivSqrt(q) ==
  LET a == q.a  b == q.b  root == q.op = "SQRT"
      sign == IF root THEN a.sign ELSE a.sign # b.sign
  IN  [div_sign |-> sign] ++
      IF IsNan(a) \/ (~root /\ IsNan(b)) THEN Direct(IF root THEN Quiet(a, a) ELSE Quiet(a, b))
      ELSE IF root /\ a.sign /\ ~IsZero(a)
      THEN Direct([result |-> Indefinite, invalid |-> TRUE])
      ELSE IF root THEN IF IsInfinity(a) \/ IsZero(a) THEN Direct([result |-> a])
                        ELSE [direct |-> FALSE]
      ELSE IF (IsZero(a) /\ IsZero(b)) \/ (IsInfinity(a) /\ IsInfinity(b))
      THEN Direct([result |-> Indefinite, invalid |-> TRUE])
      ELSE IF IsZero(b)
      THEN Direct([result |-> Infinity(sign), divide_by_zero |-> IsFinite(a)])
      ELSE IF IsInfinity(a) THEN Direct([result |-> Infinity(sign)])
      ELSE IF IsZero(a) \/ IsInfinity(b) THEN Direct([result |-> Zero(sign)])
      ELSE [direct |-> FALSE]

ClassifyLane(q, r, u) ==
  CASE u.classify = "ROUNDINT" -> ClassifyRoundint(q)
    [] u.classify = "FIST" -> ClassifyFist(q)
    [] u.classify = "FIST_RANGE" -> ClassifyFistRange(q, r)
    [] u.classify = "ADDSUB" -> ClassifyAddSub(q)
    [] u.classify = "MUL" -> ClassifyMul(q)
    [] u.classify = "DIVSQRT" -> ClassifyDivSqrt(q)
    [] OTHER -> Nothing

-----------------------------------------------------------------------------
(* alu_route: the shared adder and the rounding that precedes a pack. *)

\* The four partial products are added limb by limb, in three words.
HALF == P \div 2 + 1
Part(q, hi_a, hi_b) ==
  LET half(n, hi) == IF hi THEN High(n, HALF) ELSE Low(n, HALF)
  IN  half(q.a.sig, hi_a) * half(q.b.sig, hi_b)
MulLimb1(q) ==
  High(Part(q, FALSE, FALSE), HALF) + Low(Part(q, FALSE, TRUE), HALF)
  + Low(Part(q, TRUE, FALSE), HALF)
MulLimb2(q, r) ==
  High(Part(q, FALSE, TRUE), HALF) + High(Part(q, TRUE, FALSE), HALF)
  + Low(Part(q, TRUE, TRUE), HALF) + High(r.limb1, HALF)
Product(q, r) ==
  LET top == High(Part(q, TRUE, TRUE), HALF) + High(r.limb2, HALF)
  IN  ((top * 2 ^ HALF + Low(r.limb2, HALF)) * 2 ^ HALF + Low(r.limb1, HALF)) * 2 ^ HALF
      + Low(Part(q, FALSE, FALSE), HALF)

RoundSign(q, r) ==
  CASE q.op = "TRANS" -> r.trans_sign
    [] q.op \in {"DIV", "SQRT"} -> r.div_sign
    [] q.op = "MUL" -> r.mul_sign
    [] q.op \in {"ADD", "SUB"} -> r.add_sign
    [] OTHER -> q.a.sign
RoundUp(q, r) == Increment(q.rc, RoundSign(q, r), Bit(r.work, 0), r.guard, r.sticky)

\* The sum holds the significand, three more bits and, above them, the carry.
Sum(r) == Low(r.work, P + 5)
\* Mutant: a sum of zero is normalized.
AddNormalizeMoreZero(r) == Bit(r.work, P + 4) \/ ~Bit(r.work, P + 3)
AddNormalizeMore(r) == Sum(r) # 0 /\ (Bit(r.work, P + 4) \/ ~Bit(r.work, P + 3))
LeftBy(r) == IF Low(High(r.work, P), 4) = 0 THEN 4 ELSE 1

CalculateAddSub(r) ==
  LET large == Low(r.work, P + 4)
  IN  [work |-> IF r.add_sign # r.small_sign THEN large - r.small ELSE large + r.small]

NormalizeAddSub(q, r) ==
  CASE Sum(r) = 0 -> [result |-> Zero(q.rc = "DOWN"), direct |-> TRUE]
    [] Sum(r) # 0 /\ Bit(r.work, P + 4) ->
         [work |-> 2 * High(Sum(r), 2) + B(Low(r.work, 2) # 0),
          add_exp |-> Low(r.add_exp + 1, EW)]
    [] Sum(r) # 0 /\ ~Bit(r.work, P + 4) /\ ~Bit(r.work, P + 3) ->
         [work |-> r.work * 2 ^ LeftBy(r), add_exp |-> Low(r.add_exp - LeftBy(r), EW)]
    [] OTHER -> Nothing

PrepRoundMul(q, r) ==
  LET n == Product(q, r)
      top == Bit(n, 2 * P + 1)
  IN  SplitRound(q, r.mul_sign, n, IF top THEN P + 1 ELSE P)
      ++ [round |-> FALSE, mul_exp |-> IF top THEN Low(r.mul_exp + 1, EW) ELSE r.mul_exp]

PrepRoundDivSqrt(q, r) ==
  LET s == Split(q, r.bits, 3)
      rest == IF q.op = "SQRT" THEN r.remainder ELSE Low(r.remainder, P + 2)
  IN  [s EXCEPT !.sticky = @ \/ rest # 0] ++ [round |-> FALSE]

AluLane(q, r, u) ==
  CASE u.alu_route = "ROUND" ->
         [work |-> r.work + B(RoundUp(q, r)), inexact |-> r.guard \/ r.sticky,
          rounded_up |-> RoundUp(q, r)]
    [] u.alu_route = "CALCULATE_ADDSUB" -> CalculateAddSub(r)
    [] u.alu_route = "NORMALIZE_ADDSUB" -> NormalizeAddSub(q, r)
    [] u.alu_route = "PREP_ROUND_ADDSUB" -> SplitRound(q, r.add_sign, Low(r.work, P + 4), 3)
    [] u.alu_route = "PREP_ROUND_MUL" -> PrepRoundMul(q, r)
    [] u.alu_route = "PREP_ROUND_DIVSQRT" -> PrepRoundDivSqrt(q, r)
    [] OTHER -> Nothing

-----------------------------------------------------------------------------
(* pack: the result register, or the operand to be stored. *)

RoundintSpecial(q) ==
  IF IsNan(q.a) THEN [result |-> QuietNan(q.a), invalid |-> Signaling(q.a)]
  ELSE IF IsInfinity(q.a) \/ IsZero(q.a) THEN [result |-> q.a]
  ELSE [result |-> Indefinite, invalid |-> TRUE]

RoundintSubunit(q, r) ==
  LET above == Low(q.a.sig, P) # 0 \/ q.a.grs # 0
      up == IF q.rc = "NEAREST" THEN r.unbiased = -1 /\ above
            ELSE Increment(q.rc, q.a.sign, FALSE, TRUE, FALSE)
  IN  [result |-> IF up THEN [One EXCEPT !.sign = q.a.sign] ELSE Zero(q.a.sign),
       inexact |-> TRUE, rounded_up |-> up]

FistInvalid(q) ==
  [transfer |-> << 2 ^ (IW[q.size] - 1) >>, invalid |-> TRUE, inexact |-> FALSE,
   rounded_up |-> FALSE]

RoundPackFst(q, r) ==
  LET n == r.work + B(RoundUp(q, r))
      f == Frac(q)
      top == 2 ^ Wide(q) - 1
      discarded == r.guard \/ r.sticky
      exp == r.format_exp + B(Bit(n, f + 1))
  IN  IF r.format_exp <= 0
      THEN [inexact |-> discarded, underflow |-> discarded,
            transfer |-> IF Bit(n, f) THEN <<q.a.sign, 1, 0>> ELSE <<q.a.sign, 0, Low(n, f)>>]
      ELSE IF exp >= top
      THEN [inexact |-> TRUE, overflow |-> TRUE,
            transfer |-> IF ToInfinity(q.a.sign, q.rc) THEN <<q.a.sign, top, 0>>
                         ELSE <<q.a.sign, top - 1, 2 ^ f - 1>>]
      ELSE [inexact |-> discarded,
            transfer |-> <<q.a.sign, exp, Low(High(n, B(Bit(n, f + 1))), f)>>]

PackFstSpecial(q) ==
  LET top == 2 ^ Wide(q) - 1
      quiet == 2 ^ (Frac(q) - 1)
      payload == Low(High(q.a.sig, P - Frac(q)), Frac(q) - 1)
  IN  CASE IsZero(q.a) -> [transfer |-> <<q.a.sign, 0, 0>>]
        [] IsInfinity(q.a) -> [transfer |-> <<q.a.sign, top, 0>>]
        [] IsNan(q.a) -> [transfer |-> <<q.a.sign, top, quiet + payload>>,
                          invalid |-> Signaling(q.a)]
        [] OTHER -> [transfer |-> <<TRUE, top, quiet>>]

PackDivSqrt(q, r) ==
  LET carry == Bit(r.work, (IF q.single THEN PS ELSE P) + 1)
      exp == r.div_exp + B(carry)
  IN  IF exp >= EXPMAX
      THEN [overflow |-> TRUE, inexact |-> TRUE,
            result |-> IF ToInfinity(r.div_sign, q.rc) THEN Infinity(r.div_sign)
                       ELSE Reg("NORMAL", r.div_sign, EXPMAX - 1, 2 ^ (P + 1) - 1)]
      ELSE IF exp <= 0
      THEN [result |-> Zero(r.div_sign), underflow |-> TRUE, inexact |-> TRUE]
      ELSE [inexact |-> r.guard \/ r.sticky,
            result |-> Packed(q, r.work, r.div_sign, r.div_exp)]

PackLane(q, r, u) ==
  CASE u.pack = "PACK_INTERNAL" ->
         [result |-> Packed([q EXCEPT !.single = FALSE], r.work, q.a.sign, q.a.exp)]
    [] u.pack = "COPY_A" -> [result |-> q.a]
    [] u.pack = "ROUNDINT_SPECIAL" -> RoundintSpecial(q)
    [] u.pack = "ROUNDINT_SUBUNIT" -> RoundintSubunit(q, r)
    [] u.pack = "PACK_FIST" ->
         [transfer |-> << Low(IF q.a.sign THEN -r.work ELSE r.work, IW[q.size]) >>]
    [] u.pack = "FIST_INVALID" -> FistInvalid(q)
    [] u.pack = "ROUND_PACK_FST" -> RoundPackFst(q, r)
    [] u.pack = "PACK_FST_SPECIAL" -> PackFstSpecial(q)
    [] u.pack = "PACK_FLD_DENORMAL" ->
         [result |-> Reg("DENORMAL", q.raw[1], Low(r.format_exp, EW), Low(r.work, P + 1))]
    [] u.pack = "PACK_FILD" ->
         [result |-> [Reg("NORMAL", r.input_sign, Low(r.format_exp, EW), Low(r.work, P + 1))
                      EXCEPT !.grs = 4 * B(r.guard) + 2 * B(r.round) + B(r.sticky)]]
    [] u.pack = "PACK_ADDSUB" -> [result |-> Packed(q, r.work, r.add_sign, r.add_exp)]
    [] u.pack = "PACK_MUL" -> [result |-> Packed(q, r.work, r.mul_sign, r.mul_exp)]
    [] u.pack = "PACK_DIVSQRT" -> PackDivSqrt(q, r)
    [] OTHER -> Nothing

-----------------------------------------------------------------------------
(* prepare: the operands enter the working registers. *)

PrepareFist(q, r) ==
  LET sc == AtMost(P - r.unbiased, P + 2)
  IN  IF r.unbiased > P
      THEN [work |-> q.a.sig, count |-> AtMost(r.unbiased - P, IW[3] - 1),
            guard |-> q.a.grs >= 4, sticky |-> Low(q.a.grs, 2) # 0]
      ELSE [work |-> High(q.a.sig, sc), count |-> 0,
            guard |-> sc # 0 /\ Bit(q.a.sig, sc - 1),
            sticky |-> q.a.grs # 0 \/ (sc # 0 /\ Low(q.a.sig, sc - 1) # 0)]

PrepareFst(q) ==
  LET exp == q.a.exp - Rebias(q)
      drop == P - Frac(q)
      cut == Low(Extended(q.a), drop + 3)       \* the bits a normal store discards
  IN  [format_exp |-> exp, special |-> ~IsFinite(q.a), round |-> FALSE] ++
      IF exp > 0
      THEN [work |-> High(q.a.sig, drop), count |-> 0, guard |-> Bit(cut, drop + 2),
            sticky |-> Low(cut, drop + 2) # 0]
      ELSE [work |-> q.a.sig, count |-> AtMost(drop + 1 - exp, P + 2), guard |-> FALSE,
            sticky |-> q.a.grs # 0]

\* A NaN is loaded as a quiet one, and a signaling one raises the exception.
PrepareFld(q) ==
  LET f == Frac(q)  sign == q.raw[1]  exp == q.raw[2]  frac == q.raw[3]
      sig == (2 ^ f + frac) * 2 ^ (P - f)
  IN  CASE exp = 0 /\ frac = 0 -> Direct([result |-> Zero(sign)])
        [] exp = 0 /\ frac # 0 ->
             [result |-> Reg("EMPTY", sign, 0, 0), work |-> frac, direct |-> FALSE,
              format_exp |-> Rebias(q) + 1 + P - f]
        [] exp = 2 ^ Wide(q) - 1 ->
             Direct([invalid |-> frac # 0 /\ ~Bit(frac, f - 1),
                     result |-> IF frac = 0 THEN Infinity(sign)
                                ELSE QuietNan(Reg("NAN", sign, EXPMAX, sig))])
        [] OTHER -> Direct([result |-> Reg("NORMAL", sign, exp + Rebias(q), sig)])

LoadFild(q) ==
  LET n == SizedInteger(q.raw[1], IW[q.size])
      m == Abs(n)
      lead == IF n # 0 /\ High(m, P) = 0 THEN P - Lead(m) ELSE 0
  IN  [result |-> Zero(FALSE), direct |-> n = 0, shift_right |-> High(m, P + 1) # 0,
       shift_left |-> FALSE, work |-> m * 2 ^ lead, format_exp |-> BIAS + P - lead,
       zero |-> n = 0, input_sign |-> n < 0]

\* Mutant: the bits that the operation before shifted out stay.
PrepareFildStale(q) == LoadFild(q)

PrepareFild(q) == LoadFild(q) ++ [guard |-> FALSE, round |-> FALSE, sticky |-> FALSE]

\* A smaller operand too far below the larger one leaves a sticky bit alone.
PrepareAddSub(q) ==
  LET b == [q.b EXCEPT !.sign = EffectiveSign(q)]
      swap == Magnitude(q.a, q.b) = "less"
      large == IF swap THEN b ELSE q.a
      small == IF swap THEN q.a ELSE b
      delta == Low(large.exp - small.exp, EW)
      far == delta >= P + 4
  IN  [work |-> Extended(large), small |-> IF far THEN 1 ELSE Extended(small),
       count |-> IF far THEN 0 ELSE delta, add_sign |-> large.sign,
       small_sign |-> small.sign, add_exp |-> large.exp]

PrepareDiv(q) ==
  LET fits == q.a.sig >= q.b.sig
  IN  [divisor |-> q.b.sig, bits |-> 1, count |-> P + 3,
       div_exp |-> q.a.exp - q.b.exp + BIAS - B(~fits),
       remainder |-> (IF fits THEN q.a.sig ELSE 2 * q.a.sig) - q.b.sig]

PrepareSqrt(q) ==
  LET above == q.a.exp >= BIAS
      distance == Abs(q.a.exp - BIAS)
  IN  [div_sign |-> q.a.sign, remainder |-> 0, bits |-> 0, count |-> P + 4,
       div_exp |-> IF above THEN BIAS + distance \div 2 ELSE BIAS - (distance + 1) \div 2,
       source |-> IF q.a.exp % 2 = 1 THEN q.a.sig ELSE 2 * q.a.sig]

PrepareLane(q, r, u) ==
  CASE u.prepare = "LOAD_ROUNDINT" ->
         [count |-> P - r.unbiased, restore |-> P - r.unbiased, work |-> q.a.sig,
          guard |-> FALSE, sticky |-> q.a.grs # 0]
    [] u.prepare = "LOAD_FIST" -> PrepareFist(q, r)
    [] u.prepare = "FST" -> PrepareFst(q)
    [] u.prepare = "FLD" -> PrepareFld(q)
    [] u.prepare = "FILD" -> PrepareFild(q)
    [] u.prepare = "ADDSUB" -> PrepareAddSub(q)
    [] u.prepare = "MUL" -> [count |-> 2, limb1 |-> MulLimb1(q),
                             mul_exp |-> Low(q.a.exp + q.b.exp - BIAS, EW)]
    [] u.prepare = "DIV" -> PrepareDiv(q)
    [] u.prepare = "SQRT" -> PrepareSqrt(q)
    [] OTHER -> Nothing

-----------------------------------------------------------------------------
(* engine and state: alignment, one quotient or root bit, the exponents of formats. *)

\* Mutant: what leaves the significand leaves no trace.
AlignSmallLossy(r, u) ==
  IF r.count = 0 THEN Nothing
  ELSE [small |-> High(r.small, IF AddFour(r, u) THEN 4 ELSE 1)]

\* Mutant: the engine counts what it shifts, which the count lane does as well.
AlignSmallCounting(r, u) ==
  LET n == IF AddFour(r, u) THEN 4 ELSE 1
  IN  IF r.count = 0 THEN Nothing
      ELSE [count |-> r.count - n, small |-> 2 * High(r.small, n + 1) + B(Low(r.small, n + 1) # 0)]

AlignSmall(r, u) ==
  LET n == IF AddFour(r, u) THEN 4 ELSE 1
  IN  IF r.count = 0 THEN Nothing
      ELSE [small |-> 2 * High(r.small, n + 1) + B(Low(r.small, n + 1) # 0)]

Restoring(r, shifted, trial) ==
  [bits |-> Low(2 * r.bits + B(shifted >= trial), P + 4),
   remainder |-> IF shifted >= trial THEN shifted - trial ELSE shifted]

SqrtIterate(r) ==
  Restoring(r, 4 * r.remainder + High(r.source, P), 4 * r.bits + 1)
  ++ [source |-> Low(4 * r.source, P + 2)]

EngineLane(q, r, u) ==
  CASE u.engine = "ADDSUB_ALIGN" -> AlignSmall(r, u)
    [] u.engine = "DIV_ITERATE" -> Restoring(r, Low(2 * r.remainder, P + 2), r.divisor)
    [] u.engine = "SQRT_ITERATE" -> SqrtIterate(r)
    [] u.engine = "MUL_ACCUMULATE" -> [limb2 |-> MulLimb2(q, r)]
    [] OTHER -> Nothing

StateLane(q, r, u) ==
  CASE u.state = "RESTORE_COUNT" -> [count |-> r.restore]
    [] u.state = "FORMAT_EXP_DEC" ->
         [format_exp |-> r.format_exp - (IF FildFour(q, r, u) THEN 4 ELSE 1)]
    [] u.state = "FORMAT_EXP_INC" -> [format_exp |-> r.format_exp + 1]
    [] OTHER -> Nothing
=============================================================================
