--------------------------------- MODULE X87MC ---------------------------------
EXTENDS X87Executor

IWMC == <<3, 5, 10>>
MinExpMC == -3

\* A request; the fields an operation does not read keep a fixed value.
Ask(op, f) ==
  f @@ [op |-> op, size |-> 1, single |-> FALSE, rc |-> "NEAREST", quiet |-> FALSE,
        cosine |-> FALSE, tangent |-> FALSE, atan2 |-> FALSE, a |-> One, b |-> One,
        raw |-> <<FALSE, 0, 0>>]

RCs == {"NEAREST", "DOWN", "UP", "ZERO"}
Normal(sign, exp, sig) == Reg("NORMAL", sign, exp, sig)
Nan(sig) == Reg("NAN", FALSE, EXPMAX, sig)
Specials == {Zero(FALSE), Zero(TRUE), Infinity(FALSE), Infinity(TRUE), Empty,
             Nan(2 ^ P + 1), Nan(3 * 2 ^ (P - 1) + 2)}
Sigs == {16, 17, 21, 26, 31}
Modes == [rc : RCs, single : BOOLEAN]

\* Pairs near to each other, far from each other and special, in every mode.
AddPairs ==
  {[a |-> Normal(FALSE, 14, m), b |-> Normal(s, e, n)] :
     m \in Sigs, n \in Sigs, s \in BOOLEAN, e \in {9, 12, 14, 15, 19, 22}}
SpecialPairs == {[a |-> v, b |-> w] : v \in Specials \cup {Normal(TRUE, 15, 21)},
                                      w \in Specials \cup {Normal(FALSE, 14, 26)}}
                \ {[a |-> Normal(TRUE, 15, 21), b |-> Normal(FALSE, 14, 26)]}
Arithmetic ==
  {Ask(op, pair @@ mode) : op \in {"ADD", "SUB"}, pair \in AddPairs, mode \in Modes}
  \cup {Ask(op, [a |-> Normal(s, e, m), b |-> Normal(FALSE, 15, n)] @@ mode) :
          op \in {"MUL", "DIV"}, s \in BOOLEAN, e \in {14}, m \in Sigs, n \in Sigs, mode \in Modes}
  \cup {Ask(op, pair @@ [rc |-> rc]) : op \in {"ADD", "SUB", "MUL", "DIV"},
          pair \in {p \in SpecialPairs : Empty \notin {p.a, p.b}}, rc \in RCs}
  \cup {Ask("DIV", [a |-> Normal(s, e, m), b |-> Normal(FALSE, 31 - e, n), rc |-> rc]) :
          s \in BOOLEAN, e \in {1, 7, 24, 30}, m \in {16, 21}, n \in {16, 31}, rc \in RCs}
  \cup {Ask("SQRT", [a |-> v] @@ mode) :
          v \in {Normal(FALSE, e, m) : e \in {11, 14, 15, 18}, m \in 16..31}
                \cup {Normal(TRUE, 15, 17)} \cup (Specials \ {Empty}), mode \in Modes}
  \cup {Ask("COMPARE", pair @@ [quiet |-> qt]) : qt \in BOOLEAN,
          pair \in SpecialPairs \cup {[a |-> Normal(s, e, m), b |-> Normal(t, 15, 21)] :
            s \in BOOLEAN, t \in BOOLEAN, e \in 14..16, m \in {17, 21, 26}}}

\* Every command on two operands, with equal ones, others and a quiet NaN.  FUCOMPP is decoded
\* as a signalling compare and is given numbers only.
OneForm(f) == f.mod \in {0, 3} /\ (f.rm = 1 \/ IsTest(f))
ByCommand ==
  {Ask("ADD", [fop |-> f, st0 |-> v[1], other |-> v[2], rc |-> "UP"]) :
     f \in {g \in Commands : OneForm(g) /\ Decode(g).action \in {"ARITH", "MEMORY_MATH"}},
     v \in {<<Normal(FALSE, 15, 21), Normal(TRUE, 14, 26)>>, <<Normal(FALSE, 14, 17), Normal(FALSE, 16, 17)>>,
            <<Normal(TRUE, 15, 29), Normal(TRUE, 15, 29)>>}}
  \cup {Ask("ADD", [fop |-> f, st0 |-> Nan(3 * 2 ^ (P - 1) + 2), other |-> One]) :
          f \in {g \in Commands : OneForm(g) /\ IsCompare(g) /\ ~Is(g, 2, 5)}}

Grades == {Normal(s, e, m) : s \in BOOLEAN, e \in 7..25, m \in {16, 17, 20, 24, 25, 29, 31}}
Conversions ==
  {Ask(op, [a |-> v, rc |-> rc]) : op \in {"FST_M32", "FST_M64"}, v \in Grades \cup Specials,
                                   rc \in RCs}
  \cup {Ask("ROUNDINT", [a |-> v, rc |-> rc]) : v \in Grades \cup Specials, rc \in RCs}
  \cup {Ask("FIST", [a |-> v, rc |-> rc, size |-> i]) : v \in Grades \cup Specials, rc \in RCs,
                                                       i \in 1..3}
  \cup {Ask("FILD", [raw |-> <<n>>, size |-> 3]) : n \in 0..2 ^ IW[3] - 1}
  \cup {Ask("FILD", [raw |-> <<n>>, size |-> i]) : n \in 0..40, i \in 1..2}
  \cup {Ask("FLD_M32", [raw |-> <<s, e, m>>]) : s \in BOOLEAN, e \in 0..2 ^ W32 - 1,
                                               m \in 0..2 ^ PS - 1}
  \cup {Ask("FLD_M64", [raw |-> <<s, e, m>>]) : s \in BOOLEAN, e \in 0..2 ^ W64 - 1,
                                               m \in 0..2 ^ P - 1}

Angles ==
  {Ask("TRANS", [a |-> Normal(s, e, m[1]), rc |-> m[2], cosine |-> c, tangent |-> t]) :
     s \in BOOLEAN, e \in {13, 15, 17}, c \in BOOLEAN, t \in BOOLEAN,
     m \in {<<16, "UP">>, <<19, "NEAREST">>, <<25, "DOWN">>, <<30, "NEAREST">>}}
  \cup {Ask("TRANS", [a |-> Normal(s, e, 21), b |-> Normal(t, 15, m[1]), atan2 |-> TRUE,
                      single |-> m[2]]) :
          s \in BOOLEAN, t \in BOOLEAN, e \in {2, 10, 15, 16, 20, 29},
          m \in {<<17, TRUE>>, <<30, FALSE>>}}
  \cup {Ask("TRANS", [a |-> v, cosine |-> c, tangent |-> t]) : c \in BOOLEAN, t \in BOOLEAN,
          v \in Specials \cup {Normal(FALSE, 18, 17), Normal(FALSE, 12, 17)}}
  \cup {Ask("TRANS", pair @@ [atan2 |-> TRUE, rc |-> rc]) : pair \in SpecialPairs,
          rc \in {"NEAREST", "DOWN"}}

\* What may have run before: long shifts, a remainder, an angle, nothing exact.
WarmupsMC ==
  {Ask("FST_M32", [a |-> Normal(TRUE, 11, 31), rc |-> "UP"]),
   Ask("DIV", [a |-> Normal(TRUE, 15, 25), b |-> Normal(FALSE, 14, 19)])}
RequestsMC == Arithmetic \cup ByCommand \cup Conversions \cup Angles

\* The words of the control store ask for lanes that may work together.
ASSUME ControlStoreIsSound == StoreIsSound
=============================================================================
