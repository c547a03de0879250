----------------------------- MODULE X87Reference -----------------------------
(***************************************************************************)
(* What the operations of the x87 executor promise, by exact arithmetic:   *)
(* the exact value is a ratio of integers, and one rounding of it, in the  *)
(* direction and at the precision asked for, gives the result and the      *)
(* flags.  Nothing here is a register, a limb or a loop of the code.       *)
(***************************************************************************)
EXTENDS X87Cordic

\* A flag an operation does not name stays clear.
Quiescent == [invalid |-> FALSE, inexact |-> FALSE, divide_by_zero |-> FALSE,
              overflow |-> FALSE, underflow |-> FALSE, rounded_up |-> FALSE]
Expect(f) == f @@ Quiescent
InvalidOperation == Expect([result |-> Indefinite, invalid |-> TRUE])

Pow(n) == 2 ^ (IF n > 0 THEN n ELSE 0)

\* n / d rounded to an integer.
RoundRatio(n, d, rc, sign) ==
  LET low == n \div d
      rest == n % d
      up == CASE rc = "NEAREST" -> 2 * rest > d \/ (2 * rest = d /\ low % 2 = 1)
              [] rc = "DOWN" -> sign /\ rest # 0
              [] rc = "UP" -> ~sign /\ rest # 0
              [] OTHER -> FALSE
  IN  [n |-> low + B(up), inexact |-> rest # 0, up |-> up]

\* The exponent of n / d.
Exponent(n, d) ==
  LET top(k) == CHOOSE i \in 0..30 : High(k, i) = 1
      e == top(n) - top(d)
  IN  IF d * Pow(e) <= n * Pow(-e) THEN e ELSE e - 1
Precision(q) == IF q.single THEN PS ELSE P

\* A significand rounded to p bits, as a value: a carry out of it is one more exponent, and
\* the exponents of a register end.
Delivered(sign, exp, p, m) ==
  LET carry == m.n = 2 ^ (p + 1)
      e == exp + B(carry)
  IN  CASE e \in 1..EXPMAX - 1 ->
             Expect([result |-> Reg("NORMAL", sign, e, IF carry THEN 2 ^ P ELSE m.n * 2 ^ (P - p)),
                     inexact |-> m.inexact, rounded_up |-> m.up])
        [] e >= EXPMAX ->
             Expect([overflow |-> TRUE, inexact |-> TRUE, rounded_up |-> m.up,
                     result |-> IF m.infinite THEN Infinity(sign)
                                ELSE Reg("NORMAL", sign, EXPMAX - 1, 2 ^ (P + 1) - 1)])
        [] e <= 0 ->
             Expect([underflow |-> TRUE, inexact |-> TRUE, rounded_up |-> m.up,
                     result |-> Zero(sign)])

\* n / d * 2^scale, whose leading bit is that of 2^e, rounded to p bits.
RoundAt(q, sign, n, d, scale, e, p) ==
  Delivered(sign, BIAS + scale + e, p,
            RoundRatio(n * Pow(p - e), d * Pow(e - p), q.rc, sign)
              @@ [infinite |-> ToInfinity(sign, q.rc)])

\* The register value nearest to n / d * 2^scale.
RoundValue(q, sign, n, d, scale) ==
  RoundAt(q, sign, n, d, scale, Exponent(n, d), Precision(q))

\* A NaN operand is the result, made quiet, the first one first.
NanResult(nans) ==
  Expect([result |-> QuietNan(nans[1]), invalid |-> \E i \in DOMAIN nans : Signaling(nans[i])])

AddResultOf(q) ==
  LET a == q.a
      b == [q.b EXCEPT !.sign = EffectiveSign(q)]
      scale == IF a.exp < b.exp THEN a.exp ELSE b.exp
      units(v) == (IF v.sign THEN -v.sig ELSE v.sig) * 2 ^ (v.exp - scale)
      sum == units(a) + units(b)
  IN  IF IsInfinity(a) /\ IsInfinity(b) /\ a.sign # b.sign THEN InvalidOperation
      ELSE IF IsInfinity(a) \/ (IsZero(b) /\ ~IsZero(a) /\ ~IsInfinity(b)) THEN Expect([result |-> a])
      ELSE IF IsInfinity(b) \/ (IsZero(a) /\ ~IsZero(b)) THEN Expect([result |-> b])
      ELSE IF IsZero(a) /\ a.sign = b.sign THEN Expect([result |-> a])
      ELSE IF IsZero(a) \/ sum = 0 THEN Expect([result |-> Zero(q.rc = "DOWN")])
      ELSE RoundValue(q, sum < 0, Abs(sum), 1, scale - BIAS - P)

MulResultOf(q) ==
  LET a == q.a  b == q.b  sign == a.sign # b.sign  classes == {a.class, b.class}
  IN  IF {"INFINITY", "ZERO"} = classes THEN InvalidOperation
      ELSE IF "INFINITY" \in classes THEN Expect([result |-> Infinity(sign)])
      ELSE IF "ZERO" \in classes THEN Expect([result |-> Zero(sign)])
      ELSE RoundValue(q, sign, a.sig * b.sig, 1, a.exp + b.exp - 2 * (BIAS + P))

DivResultOf(q) ==
  LET a == q.a  b == q.b  sign == a.sign # b.sign
  IN  IF a.class = b.class /\ a.class \in {"ZERO", "INFINITY"} THEN InvalidOperation
      ELSE IF IsZero(b) THEN Expect([result |-> Infinity(sign), divide_by_zero |-> IsFinite(a)])
      ELSE IF IsInfinity(a) THEN Expect([result |-> Infinity(sign)])
      ELSE IF IsZero(a) \/ IsInfinity(b) THEN Expect([result |-> Zero(sign)])
      ELSE RoundValue(q, sign, a.sig, b.sig, a.exp - b.exp)

\* The root of an even power of two times an integer, squared to be compared.
SqrtResultOf(q) ==
  LET a == q.a  p == Precision(q)
      odd == (a.exp - BIAS) % 2
      exp == (a.exp - BIAS - odd) \div 2
      n == a.sig * 2 ^ odd * 4 ^ p        \* (root / ulp) ^ 2 times 2 ^ P
      root == CHOOSE m \in 2 ^ p .. 2 ^ (p + 1) : m * m * 2 ^ P <= n /\ n < (m + 1) * (m + 1) * 2 ^ P
      exact == root * root * 2 ^ P = n
      up == CASE q.rc = "NEAREST" -> n * 4 > (2 * root + 1) * (2 * root + 1) * 2 ^ P
              [] q.rc = "UP" -> ~exact
              [] OTHER -> FALSE
      m == root + B(up)
      carry == m = 2 ^ (p + 1)
  IN  IF a.sign /\ ~IsZero(a) THEN InvalidOperation
      ELSE IF ~IsFinite(a) THEN Expect([result |-> a])
      ELSE Expect([result |-> Reg("NORMAL", FALSE, BIAS + exp + B(carry),
                                  IF carry THEN 2 ^ P ELSE m * 2 ^ (P - p)),
                   inexact |-> ~exact, rounded_up |-> up])

\* The order of two numbers is that of their values.
CompareOf(q) ==
  LET scale == IF q.a.exp < q.b.exp THEN q.a.exp ELSE q.b.exp
      rank(v) == CASE IsZero(v) -> 0
                   [] IsInfinity(v) -> IF v.sign THEN -2 ^ 30 ELSE 2 ^ 30
                   [] OTHER -> (IF v.sign THEN -v.sig ELSE v.sig) * 2 ^ (v.exp - scale)
      unordered == {q.a.class, q.b.class} \cap {"NAN", "EMPTY"} # {}
      quietly == q.quiet /\ ~Signaling(q.a) /\ ~Signaling(q.b)
  IN  Expect([unordered |-> unordered, invalid |-> unordered /\ ~quietly,
              less |-> ~unordered /\ rank(q.a) < rank(q.b),
              equal |-> ~unordered /\ rank(q.a) = rank(q.b)])

-----------------------------------------------------------------------------
(* Conversions *)

\* |v| as a ratio, rounded to an integer.
RoundInteger(q) ==
  LET k == q.a.exp - BIAS - P
  IN  RoundRatio(q.a.sig * Pow(k), Pow(-k), q.rc, q.a.sign)

RoundintOf(q) ==
  LET m == RoundInteger(q)
  IN  CASE IsInfinity(q.a) \/ IsZero(q.a) -> Expect([result |-> q.a])
        [] q.a.class = "EMPTY" -> InvalidOperation
        [] OTHER ->
             IF q.a.exp - BIAS >= P THEN Expect([result |-> q.a])
             ELSE Expect([inexact |-> m.inexact, rounded_up |-> m.up,
                     result |-> IF m.n = 0 THEN Zero(q.a.sign)
                                ELSE LET e == Lead(m.n)
                                     IN  Reg("NORMAL", q.a.sign, BIAS + e, m.n * 2 ^ (P - e))])

\* The integer of the width asked for, or the one that stands for no integer.
FistOf(q) ==
  LET w == IW[q.size]
      m == RoundInteger(q)
      n == IF q.a.sign THEN -m.n ELSE m.n
  IN  IF IsZero(q.a) THEN Expect([transfer |-> <<0>>])
      ELSE IF ~IsFinite(q.a) \/ n < -(2 ^ (w - 1)) \/ n >= 2 ^ (w - 1)
      THEN Expect([transfer |-> << 2 ^ (w - 1) >>, invalid |-> TRUE])
      ELSE Expect([transfer |-> << n % 2 ^ w >>, inexact |-> m.inexact, rounded_up |-> m.up])

\* Below the least exponent of a format the last place stops moving.  An empty register is
\* stored as the indefinite: its fault is the control unit's.
FstOf(q) ==
  LET f == Frac(q)  top == 2 ^ Wide(q) - 1
      e == q.a.exp - Rebias(q)
      tiny == e <= 0
      drop == P - f + (IF tiny THEN 1 - e ELSE 0)
      m == RoundRatio(q.a.sig, 2 ^ drop, q.rc, q.a.sign)
      carry == m.n = 2 ^ (f + 1)
      exp == IF tiny THEN B(m.n = 2 ^ f) ELSE e + B(carry)
  IN  IF IsZero(q.a) THEN Expect([transfer |-> <<q.a.sign, 0, 0>>])
      ELSE IF IsInfinity(q.a) THEN Expect([transfer |-> <<q.a.sign, top, 0>>])
      ELSE IF IsNan(q.a)
      THEN Expect([transfer |-> <<q.a.sign, top,
                                  2 ^ (f - 1) + ((q.a.sig \div 2 ^ (P - f)) % 2 ^ (f - 1))>>,
                   invalid |-> Signaling(q.a)])
      ELSE IF q.a.class = "EMPTY" THEN Expect([transfer |-> <<TRUE, top, 2 ^ (f - 1)>>])
      ELSE IF exp >= top
      THEN Expect([overflow |-> TRUE, inexact |-> TRUE,
                   transfer |-> IF ToInfinity(q.a.sign, q.rc) THEN <<q.a.sign, top, 0>>
                                ELSE <<q.a.sign, top - 1, 2 ^ f - 1>>])
      ELSE Expect([transfer |-> <<q.a.sign, exp, m.n % 2 ^ f>>, inexact |-> m.inexact,
                   underflow |-> tiny /\ m.inexact])

FldOf(q) ==
  LET f == Frac(q)  top == 2 ^ Wide(q) - 1
      sign == q.raw[1]  exp == q.raw[2]  frac == q.raw[3]
      e == Lead(frac)
      whole == (2 ^ f + frac) * 2 ^ (P - f)
  IN  CASE exp = 0 /\ frac = 0 -> Expect([result |-> Zero(sign)])
        [] exp = 0 /\ frac # 0 ->
             Expect([result |-> Reg("DENORMAL", sign, Rebias(q) + 1 + e - f, frac * 2 ^ (P - e))])
        [] exp = top /\ frac = 0 -> Expect([result |-> Infinity(sign)])
        [] exp = top /\ frac # 0 ->
             Expect([result |-> QuietNan(Reg("NAN", sign, EXPMAX, whole)),
                     invalid |-> frac < 2 ^ (f - 1)])
        [] OTHER -> Expect([result |-> Reg("NORMAL", sign, exp + Rebias(q), whole)])

\* What does not fit the significand is in its three last bits, the lowest one jammed.
FildOf(q) ==
  LET n == SizedInteger(q.raw[1], IW[q.size])
      e == Lead(Abs(n))
      drop == IF e > P + 3 THEN e - P - 3 ELSE 0
      low == (Abs(n) * Pow(P + 3 - e)) \div Pow(drop)
      jam == B(Abs(n) % Pow(drop) # 0 /\ low % 2 = 0)
  IN  IF n = 0 THEN Expect([result |-> Zero(FALSE)])
      ELSE Expect([result |-> [Reg("NORMAL", n < 0, BIAS + e, (low + jam) \div 8)
                               EXCEPT !.grs = (low + jam) % 8]])

-----------------------------------------------------------------------------
(* Rotations: whole vectors, whole angles. *)

\* F rotations of <<x, y, z>>, driving y to zero or else z.
Rotated(x, y, z, vectoring) ==
  LET step[i \in 0..F] ==
        IF i = 0 THEN <<x, y, z>>
        ELSE LET v == step[i - 1]
                 down == IF vectoring THEN v[2] < 0 ELSE v[3] >= 0
                 d == IF down THEN -1 ELSE 1
             IN  <<v[1] + d * (v[2] \div 2 ^ (i - 1)), v[2] - d * (v[1] \div 2 ^ (i - 1)),
                   v[3] + d * AtanTable[i - 1]>>
  IN  step[F]

\* The angle less the multiples of pi/2 nearest to it, and their number.
Reduced(q) ==
  LET value == q.a.sig * 2 ^ (q.a.exp - BIAS + QR - P)
      n == value \div PIO2
      rest == value % PIO2
  IN  IF rest > PIO4 THEN <<n + 1, rest - PIO2>> ELSE <<n, rest>>

\* The sine and the cosine of an angle n quarter turns on from that of the vector v.
Turned(n, v) ==
  CASE n % 4 = 0 -> <<v[2], v[1]>> [] n % 4 = 1 -> <<v[1], -v[2]>>
    [] n % 4 = 2 -> <<-v[2], -v[1]>> [] n % 4 = 3 -> <<-v[1], v[2]>>
Mirrored(sign, pair) == <<IF sign THEN -pair[1] ELSE pair[1], pair[2]>>
OfReduced(q, red) ==
  Mirrored(q.a.sign, Turned(red[1], Rotated(GainQ, 0, red[2] \div 2 ^ (QR - F), FALSE)))
SineCosine(q) == OfReduced(q, Reduced(q))

Atan2(q) ==
  LET drop(v, w) == AtMost(IF w.exp > v.exp THEN w.exp - v.exp ELSE 0, F + 2)
      wide(v, w) == (v.sig * 2 ^ (F - P)) \div 2 ^ drop(v, w)
      z == Rotated(wide(q.b, q.a), wide(q.a, q.b), 0, TRUE)[3]
      half == IF q.b.sign THEN Pi(F) - z ELSE z
  IN  IF q.a.sign THEN -half ELSE half

Fixed(q, n) == RoundValue(q, n < 0, Abs(n), 1, -F)

\* With a cosine beside it, the flags are those of the value rounded last.
WithCosine(first, last) == [last EXCEPT !.result = first.result] @@ [aux |-> last.result]
SineOrCosine(q, pair) ==
  IF q.tangent THEN WithCosine(Fixed(q, pair[IF q.cosine THEN 2 ELSE 1]), Fixed(q, pair[2]))
  ELSE Fixed(q, pair[IF q.cosine THEN 2 ELSE 1])
SineResultOf(q) == SineOrCosine(q, SineCosine(q))

AngleResultOf(q) ==
  LET a == q.a  unbiased == q.a.exp - BIAS
      both(v) == [result |-> v] @@ IF q.tangent THEN [aux |-> One] ELSE Nothing
      small == both(IF q.cosine THEN One ELSE a)
  IN  IF IsInfinity(a) \/ a.class = "EMPTY" THEN InvalidOperation
      ELSE IF IsZero(a) THEN Expect(small)
      ELSE IF unbiased >= MaxExp THEN Expect([result |-> a, range_incomplete |-> TRUE])
      ELSE IF unbiased <= MinExp THEN Expect(small @@ [inexact |-> TRUE])
      ELSE SineResultOf(q)

\* The axes of the plane, and its diagonals at infinity, have angles of their own.
Atan2ResultOf(q) ==
  LET a == q.a  b == q.b
      angle(n) == Fixed(q, IF a.sign THEN -n ELSE n)
      onAxis == IF b.sign THEN angle(Pi(F)) ELSE Expect([result |-> Zero(a.sign)])
  IN  IF a.class = "EMPTY" \/ b.class = "EMPTY" THEN InvalidOperation
      ELSE IF IsZero(a) THEN onAxis
      ELSE IF IsInfinity(a) /\ IsInfinity(b)
      THEN angle(IF b.sign THEN Pi(F) - Pi(F - 2) ELSE Pi(F - 2))
      ELSE IF IsZero(b) \/ IsInfinity(a) THEN angle(Pi(F - 1))
      ELSE IF IsInfinity(b) THEN onAxis
      ELSE Fixed(q, Atan2(q))

-----------------------------------------------------------------------------
\* The operands a NaN reaches the result of, in the order of precedence.
Nans(q) ==
  LET operands == CASE q.op \in {"ADD", "SUB", "MUL", "DIV"} -> <<q.a, q.b>>
                    [] q.op = "TRANS" /\ q.atan2 -> <<q.a, q.b>>
                    [] q.op \in {"SQRT", "TRANS", "ROUNDINT"} -> <<q.a>>
                    [] OTHER -> << >>
  IN  SelectSeq(operands, IsNan)

Expected(q) ==
  IF Nans(q) # << >> THEN NanResult(Nans(q))
  ELSE CASE q.op \in {"ADD", "SUB"} -> AddResultOf(q)
         [] q.op = "MUL" -> MulResultOf(q)
         [] q.op = "DIV" -> DivResultOf(q)
         [] q.op = "SQRT" -> SqrtResultOf(q)
         [] q.op = "COMPARE" -> CompareOf(q)
         [] q.op = "ROUNDINT" -> RoundintOf(q)
         [] q.op \in {"FLD_M32", "FLD_M64"} -> FldOf(q)
         [] q.op \in {"FST_M32", "FST_M64"} -> FstOf(q)
         [] q.op = "FILD" -> FildOf(q)
         [] q.op = "FIST" -> FistOf(q)
         [] q.op = "TRANS" -> IF q.atan2 THEN Atan2ResultOf(q) ELSE AngleResultOf(q)

\* How the answer retires: what the stack or the transfer takes.
Retirement(q) ==
  CASE q.op \in {"FLD_M32", "FLD_M64", "FILD"} -> "PUSH"
    [] q.op \in {"FST_M32", "FST_M64", "FIST"} -> "TRANSFER"
    [] q.op = "COMPARE" -> "NONE"
    [] OTHER -> "REPLACE_ST0"
=============================================================================
