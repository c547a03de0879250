----------------------------- MODULE X87Executor -----------------------------
(***************************************************************************)
(* The x87 executor: the microsequencer (x87_sequencer.sv) steps through   *)
(* the words build_x87_microcode.py assembled, each word moving all its    *)
(* lanes at once, and the answer of an operation stands when done pulses.  *)
(* The registers are not cleared between operations: what one leaves in    *)
(* them is what the next one starts from.                                  *)
(***************************************************************************)
EXTENDS X87Reference, X87Command

CONSTANTS Warmups,   \* operations that may run first
          Requests,  \* operations that may run after one of them
          Budget     \* the words an operation may take

VARIABLES req,      \* the request the executor works on
          runs,     \* operations started, at most two
          active,   \* the sequencer runs
          uaddr,    \* the address of the current word
          done,     \* the pulse of the FINISH word
          spent,    \* words of the operation so far
          r         \* the registers of the executor
vars == <<req, runs, active, uaddr, done, spent, r>>

\* The ROM holds a word of zeros above the program.
Blank == [f \in DOMAIN Fields |-> 0] @@ [target |-> 0]
Decoded(w) == [f \in DOMAIN Fields |-> Fields[f][1][w[f] + 1]] @@ [target |-> w.target]
RomOf(words) == [a \in DOMAIN words |-> Decoded(words[a])]
                @@ [a \in 0..MaxWords - 1 |-> Decoded(Blank)]
Rom == RomOf(Words)
uop == Rom[uaddr]

EntryLabel(op) ==
  CASE op = "FLD_M32" -> "entry_fld_m32"
    [] op = "FLD_M64" -> "entry_fld_m64"
    [] op = "FILD" -> "entry_fild"
    [] op = "FST_M32" -> "entry_fst_m32"
    [] op = "FST_M64" -> "entry_fst_m64"
    [] op = "FIST" -> "entry_fist"
    [] op \in {"ADD", "SUB"} -> "entry_addsub"
    [] op = "COMPARE" -> "entry_compare"
    [] op = "MUL" -> "entry_mul"
    [] op = "DIV" -> "entry_div"
    [] op = "SQRT" -> "entry_sqrt"
    [] op = "TRANS" -> "entry_trans"
    [] OTHER -> "entry_frndint"
EntryOf(op) == Entry(EntryLabel(op))

-----------------------------------------------------------------------------
(* Registers *)

\* What start clears, and with it the flags of the answer.
Cleared ==
  [f \in {"invalid", "inexact", "divide_by_zero", "overflow", "underflow", "denormal",
          "range_incomplete", "rounded_up", "round", "special", "integral", "subunit", "zero",
          "shift_left", "invalid_r", "direct", "shift_right", "unordered", "less", "equal",
          "rounding_aux"} |-> FALSE]
  @@ [aux |-> Empty, commit |-> "NONE"]

Numbers == {"work", "count", "restore", "unbiased", "format_exp", "small", "add_exp",
            "divisor", "remainder", "bits", "source", "div_exp", "limb1", "limb2", "mul_exp",
            "bitpos", "trans_count", "quadrant", "range_limb", "iteration", "load_index", "limb",
            "shift_word", "shift_bits", "lhs", "rhs_low", "output_base", "abs_base",
            "magnitude", "trans_exp", "data_a", "data_b", "atan"}
Marks == {"guard", "sticky", "input_sign", "add_sign", "small_sign", "div_sign", "mul_sign",
          "bitvalid", "neg", "range_shift", "first", "nonzero", "greater", "sub", "shift_x",
          "bank", "carry", "low_fill", "high_fill", "z_sign", "trans_sign"}

Reset ==
  Cleared @@ [f \in Numbers |-> 0] @@ [f \in Marks |-> FALSE]
  @@ [result |-> Empty, transfer |-> <<0>>, mode |-> "STEP", output_mode |-> "COPY",
      x_sign |-> [b \in BOOLEAN |-> FALSE], y_sign |-> [b \in BOOLEAN |-> FALSE],
      mem |-> [a \in 0..15 |-> 0]]

\* The denormal operand a division, a root or a transcendental starts with.
DenormalOperand(q) ==
  /\ q.op \in {"DIV", "SQRT", "TRANS"}
  /\ \/ q.a.class = "DENORMAL"
     \/ q.b.class = "DENORMAL" /\ (q.op = "DIV" \/ (q.op = "TRANS" /\ q.atan2))

\* The condition a word tests, of the registers as they are before it.
Condition(q, u) ==
  LET trans == q.op = "TRANS"
      four == FistFour(q, r) \/ AddFour(r, u)
  IN  CASE u.condition = "TRUE" -> TRUE
        [] u.condition = "SPECIAL" -> r.special
        [] u.condition = "INTEGRAL" -> IF trans THEN NeedsAux(q, r) ELSE r.integral
        [] u.condition = "SUBUNIT" -> r.subunit
        [] u.condition = "COUNT_MORE" -> IF trans THEN r.trans_count > 1
                                         ELSE r.count > (IF four THEN 4 ELSE 1)
        [] u.condition = "TRANSFER_READY" -> TRUE
        [] u.condition = "ZERO" -> IF trans THEN r.magnitude = 0 ELSE r.zero
        [] u.condition = "SHIFT_LEFT" -> IF trans THEN q.atan2 ELSE r.shift_left
        [] u.condition = "COUNT_ZERO" -> (IF trans THEN r.trans_count ELSE r.count) = 0
        [] u.condition = "INVALID" -> r.invalid_r
        [] u.condition = "DIRECT_READY" -> r.direct
        [] u.condition = "NORMALIZE_MORE" -> IF trans THEN TransNormalizeMore(r)
                                             ELSE ~Bit(r.work, P - 1)
        [] u.condition = "SHIFT_RIGHT" -> r.shift_right
        [] u.condition = "SHIFT_RIGHT_MORE" -> High(Low(r.work, IW[3]), P + 2) # 0
        [] u.condition = "ADDSUB_NORMALIZE_MORE" -> AddNormalizeMore(r)
        [] u.condition \in {"CORDIC_LIMB_MORE", "CORDIC_ALIGN_MORE"} -> r.limb # 2
        [] u.condition = "CORDIC_LOAD_MORE" -> r.load_index # 8
        [] u.condition = "RANGE_LIMB_MORE" -> r.range_limb # 4
        [] u.condition = "RANGE_NONNEG" -> ~r.neg
        [] u.condition = "RANGE_NOT_GREATER" -> ~r.greater
        [] u.condition = "ARITH_DIRECT" ->
             \E v \in {q.a, q.b} : IsNan(v) \/ IsInfinity(v) \/ IsZero(v)
        [] OTHER -> FALSE

\* What each lane of a word writes, in the order of the code.
Lanes(q, u) ==
  << IF u.flow = "FINISH" THEN [commit |-> u.commit] ELSE Nothing,
     ShiftLane(q, r, u), CountLane(q, r, u), GrsLane(q, r, u), ClassifyLane(q, r, u),
     AluLane(q, r, u), PackLane(q, r, u), PrepareLane(q, r, u), StateLane(q, r, u),
     EngineLane(q, r, u) >>
  \o TransLanes(q, r, u)

Merged(lanes) ==
  LET from[i \in 1..Len(lanes) + 1] ==
        IF i > Len(lanes) THEN Nothing ELSE from[i + 1] @@ lanes[i]
  IN  from[1]

-----------------------------------------------------------------------------
\* No ROM is written of a program the assembler refuses.
Init ==
  /\ Assembles(PROGRAM) = TRUE
  /\ req \in Warmups
  /\ runs = 0 /\ active = FALSE /\ done = FALSE
  /\ uaddr = 0 /\ spent = 0
  /\ r = Reset

\* What the control unit makes of a request that is a command.
Accepted(q) ==
  IF "fop" \in DOMAIN q THEN Started(q.fop, q.st0, q.other, Zero(FALSE)) @@ q ELSE q

\* The control unit starts an operation when the executor is idle.
Start ==
  /\ ~active
  /\ runs < 2
  /\ \E q \in {Accepted(p) : p \in IF runs = 0 THEN Warmups ELSE Requests} :
       /\ req' = q
       /\ uaddr' = EntryOf(q.op)
       /\ r' = [denormal |-> DenormalOperand(q)] @@ Cleared @@ r
  /\ runs' = runs + 1
  /\ active' = TRUE /\ done' = FALSE /\ spent' = 0

NextAddress(u) ==
  CASE u.flow = "JUMP" -> u.target
    [] u.flow \in {"BRANCH", "LOOP"} -> IF Condition(req, u) THEN u.target ELSE uaddr + 1
    [] u.flow = "WAIT" -> IF Condition(req, u) THEN uaddr + 1 ELSE uaddr
    [] OTHER -> uaddr + 1

\* The lanes and the next address of a word take effect together.
Execute(u) ==
  /\ active' = (u.flow # "FINISH")
  /\ done' = (u.flow = "FINISH")
  /\ uaddr' = IF u.flow = "FINISH" THEN uaddr ELSE NextAddress(u) % MaxWords
  /\ r' = Merged(Lanes(req, u)) @@ r

Step ==
  /\ active
  /\ Execute(uop)
  /\ spent' = spent + 1
  /\ UNCHANGED <<req, runs>>

\* A clock without an operation.
Idle ==
  /\ ~active
  /\ done' = FALSE
  /\ UNCHANGED <<req, runs, active, uaddr, spent, r>>

Next == Start \/ Step \/ Idle
Spec == Init /\ [][Next]_vars

-----------------------------------------------------------------------------
(* Properties *)

\* What was asked for: of a command, what its name says.
Meant(q) ==
  IF "fop" \in DOMAIN q THEN Meaning(q.fop, q.st0, q.other, Zero(FALSE)) @@ q ELSE q

\* The answer has the fields the reference names, and retires where its operation belongs: a
\* compare nowhere, a store to the transfer, a load onto the stack.
Holds(expected) == \A f \in DOMAIN expected : r[f] = expected[f]
Answers(q) == r.commit = Retirement(q) /\ Holds(Expected(q))

\* Every conversion answers with its exactly rounded value and its flags, whatever operation
\* left its shifts, counts and sticky bits in the shared registers before it.
ConversionsExact ==
  done /\ req.op \in {"FLD_M32", "FLD_M64", "FILD", "FST_M32", "FST_M64", "FIST", "ROUNDINT"}
    => Answers(Meant(req))

\* So does every sum, product, quotient, root and comparison: alignment in steps of four and
\* of one, three limbs of a product and one bit of a quotient per word round as one division.
\* A command is answered as its name asks, however the decode ROM codes its reversed forms.
ArithmeticExact ==
  done /\ req.op \in {"ADD", "SUB", "MUL", "DIV", "SQRT", "COMPARE"} => Answers(Meant(req))

\* The limb-serial reduction and rotations leave what rotations of whole vectors leave.
TranscendentalsExact == done /\ req.op = "TRANS" => Answers(Meant(req))

Disjoint(lanes) ==
  LET writing == {i \in DOMAIN lanes : DOMAIN lanes[i] # {}}
  IN  \A i, j \in writing : i < j => DOMAIN lanes[i] \cap DOMAIN lanes[j] = {}

\* "The generator guarantees that no operation selected in the same word also writes this
\* state" (x87_executor.sv): no two lanes of a word the executor reaches write one register.
LanesDisjoint == active => Disjoint(Lanes(req, uop))

\* Every operation ends, and within its budget: each loop of its microprogram runs out of what
\* it counts, whatever the counters held before.
OperationsEnd == active => spent < Budget

-----------------------------------------------------------------------------
(* What the control store keeps, a closed statement about its words. *)

\* Beyond what the generator checks: no shift and no decrement in a word that classifies or
\* loads operands, and no engine in a word that accesses the scratch memory.
Spaced(u) ==
  /\ u.shift_route \in {"LEFT", "RIGHT"} \/ u.count = "DEC"
       => u.prepare = "HOLD" /\ u.classify = "HOLD"
  /\ u.scratch_read # "HOLD" \/ u.scratch_write # "HOLD" => u.engine = "HOLD"

Operations == {"FLD_M32", "FLD_M64", "FILD", "FST_M32", "FST_M64", "FIST", "ADD", "SUB",
               "COMPARE", "MUL", "DIV", "SQRT", "TRANS", "ROUNDINT"}
StoreIsSound ==
  /\ \A op \in Operations : EntryOf(op) \in 0..MaxWords - 1
  /\ \A a \in 0..MaxWords - 1 :
       Compatible(Rom[a]) /\ Spaced(Rom[a]) /\ Rom[a].target \in 0..MaxWords - 1
=============================================================================
