----------------------------- MODULE X87_proofs -----------------------------
(***************************************************************************)
(* The x87 for every command, operand and width.  First the decode ROM:    *)
(* what the control unit relies on when it obeys a word, and that the      *)
(* operation started for an arithmetic command is the one its name asks    *)
(* for.  Then the lanes of a micro-operation: which registers each of them *)
(* may write, and that no two lanes of a word of the control store write   *)
(* the same one, from what the fields of the word say and nothing else.    *)
(***************************************************************************)
EXTENDS X87Executor, FiniteSetTheorems, TLAPS

\* What a command known by its whole code may be.
LEMMA ExactActions ==
  ASSUME NEW f
  PROVE  Exact(f) \in {"NONE", "FNINIT", "FNCLEX", "FCHS", "FABS", "FXAM", "FSQRT", "FPTAN",
                       "FPATAN", "FRNDINT", "FDECSTP", "FINCSTP", "FYL2X", "F2XM1", "FSCALE",
                       "FPREM", "TX_ENV", "TX_STATE", "RX_ENV", "RX_STATE"}
  BY Zenon DEF Exact

\* What a command on the register stack alone may be.
LEMMA RegisterActions ==
  ASSUME NEW f
  PROVE  RegisterAction(f) \in {"NONE", "FLD_ST", "FXCH", "FFREE", "FSTP_ST"}
  BY Zenon DEF RegisterAction

-----------------------------------------------------------------------------
\* "Register-form ESC instructions must never open a memory-transfer stream"
\* (build_x87_command_decode.py): a load, a store or a command on a memory operand has one.
THEOREM RegisterFormsOpenNoStream ==
  ASSUME NEW f \in Commands, RegisterForm(f)
  PROVE  Decode(f).action \notin {"LOAD", "STORE", "MEMORY_MATH"}
<1>1. CASE Exact(DecodeKey(f)) # "NONE"
  <2>1. Decode(f).action = Exact(DecodeKey(f))
    BY <1>1 DEF Decode, ExactWord, Plain
  <2>. QED
    BY <2>1, ExactActions
<1>2. CASE Exact(DecodeKey(f)) = "NONE"
  <2>1. Decode(f).action \in {"PUSH_CONST", "TRIG", "ARITH", RegisterAction(f)}
    BY <1>2 DEF Decode, Plain, Acts, ArithWord
  <2>. QED
    BY <2>1, RegisterActions
<1>. QED
  BY <1>1, <1>2

\* decode_key drops the addressing of a memory form but half of the tests of fields read the
\* whole code: the word of a memory form still depends on its group and operation alone, so
\* that every address reaches the same command.
THEOREM MemoryFormsIgnoreAddressing ==
  ASSUME NEW f \in Commands, NEW g \in Commands, ~RegisterForm(f), ~RegisterForm(g),
         f.group = g.group, f.op = g.op
  PROVE  Decode(f) = Decode(g)
<1>1. DecodeKey(f) = DecodeKey(g)
  BY DEF DecodeKey, Commands
<1>2. ~RegisterForm(DecodeKey(f)) /\ ~RegisterForm(DecodeKey(g))
  BY DEF DecodeKey, RegisterForm, Commands
<1>3. ~PushesConstant(DecodeKey(f)) /\ ~IsTrig(DecodeKey(f)) /\ ~IsArith(f)
      /\ ~PushesConstant(DecodeKey(g)) /\ ~IsTrig(DecodeKey(g)) /\ ~IsArith(g)
  BY <1>2 DEF PushesConstant, IsTrig, IsArith, IsAddSub, IsCompare, IsMul, IsDiv, OnRegisters,
              IsComparePop2, IsTest, Reg1
<1>4. IsMemoryMath(f) = IsMemoryMath(g) /\ \A group, op : Mem(f, group, op) = Mem(g, group, op)
  BY DEF IsMemoryMath, Mem, Is
<1>5. Exact(f) = Exact(g)
  BY <1>4 DEF Exact, Reg1
<1>6. IsArithmetic(f) = IsArithmetic(g)
  BY <1>3, <1>4, <1>5 DEF IsArithmetic, IsTrig, Reg1
<1>7. Status(f) = Status(g)
  BY <1>1, <1>4 DEF Status, ReadsStatus, Reg1
<1>8. LoadFormat(f) = LoadFormat(g) /\ StoreParameter(f) = StoreParameter(g)
  BY <1>4 DEF LoadFormat, StoreParameter
<1>. QED
  BY <1>1, <1>3, <1>4, <1>6, <1>7, <1>8 DEF Decode, ExactWord, MemoryMathWord, Acts, Plain

-----------------------------------------------------------------------------
(* Commands that compute *)

\* The arithmetic commands on registers, and those on memory.
LEMMA ArithCommands ==
  ASSUME NEW f \in Commands
  PROVE  /\ Decode(f).action = "ARITH" => RegisterForm(f) /\ IsArith(f) /\ Decode(f) = ArithWord(f)
         /\ Decode(f).action = "MEMORY_MATH" =>
              ~RegisterForm(f) /\ IsMemoryMath(f) /\ Decode(f) = MemoryMathWord(f)
<1>1. CASE Exact(DecodeKey(f)) # "NONE"
  <2>1. Decode(f).action = Exact(DecodeKey(f))
    BY <1>1 DEF Decode, ExactWord, Plain
  <2>. QED
    BY <2>1, ExactActions
<1>2. CASE Exact(DecodeKey(f)) = "NONE"
  <2>1. IsArith(f) => RegisterForm(f)
    BY DEF IsArith, IsAddSub, IsCompare, IsMul, IsDiv, OnRegisters, IsComparePop2, IsTest, Reg1
  <2>2. CASE PushesConstant(DecodeKey(f)) \/ IsTrig(DecodeKey(f))
    BY <1>2, <2>2 DEF Decode, Plain, Acts
  <2>3. CASE ~PushesConstant(DecodeKey(f)) /\ ~IsTrig(DecodeKey(f)) /\ IsArith(f)
    BY <1>2, <2>1, <2>3 DEF Decode, ArithWord
  <2>4. CASE /\ ~PushesConstant(DecodeKey(f)) /\ ~IsTrig(DecodeKey(f)) /\ ~IsArith(f)
             /\ RegisterForm(f)
    <3>1. Decode(f).action = RegisterAction(f)
      BY <1>2, <2>4 DEF Decode, Acts, Plain
    <3>. QED
      BY <3>1, RegisterActions
  <2>5. CASE /\ ~PushesConstant(DecodeKey(f)) /\ ~IsTrig(DecodeKey(f)) /\ ~IsArith(f)
             /\ ~RegisterForm(f)
    BY <1>2, <2>5 DEF Decode, Acts, Plain, MemoryMathWord
  <2>. QED
    BY <2>2, <2>3, <2>4, <2>5
<1>. QED
  BY <1>1, <1>2

\* The classes of register arithmetic do not overlap, and each has its forms.
LEMMA ArithForms ==
  ASSUME NEW f \in Commands, IsArith(f)
  PROVE  \/ f.group \in {0, 4, 6} /\ f.op \in {0, 1, 4, 5, 6, 7} /\ Writes(f) /\ ~IsCompare(f)
         \/ f.group \in {0, 5} /\ IsCompare(f) /\ ~Writes(f) /\ ~IsComparePop2(f) /\ ~IsTest(f)
            /\ f.op \in {2, 3, 4, 5}
         \/ IsComparePop2(f) /\ IsCompare(f) /\ ~Writes(f) /\ ~IsTest(f)
         \/ IsTest(f) /\ IsCompare(f) /\ ~Writes(f) /\ ~IsComparePop2(f)
  BY DEF Commands, IsArith, Writes, IsAddSub, IsMul, IsDiv, OnRegisters, IsCompare,
         IsComparePop2, IsTest, Reg1, Is, RegisterForm

\* A result that is written is not popped away with ST(0): a command that writes and pops
\* writes another register, and one that pops twice writes none.
THEOREM ResultsOutlivePops ==
  ASSUME NEW f \in Commands
  PROVE  /\ Decode(f).action = "ARITH" => (Decode(f).write <=> ~Decode(f).compare)
         /\ Decode(f).write /\ Decode(f).pop # 0 => Decode(f).dest_sti /\ Decode(f).pop = 1
<1>1. CASE Decode(f).action = "ARITH"
  <2>1. IsArith(f) /\ Decode(f) = ArithWord(f)
    BY <1>1, ArithCommands
  <2>2. /\ Decode(f).write = Writes(f)
        /\ Decode(f).compare = IsCompare(f)
        /\ Decode(f).dest_sti = (f.group # 0)
    BY <2>1 DEF ArithWord
  <2>3. Writes(f) <=> ~IsCompare(f)
    BY <2>1, ArithForms
  <2>4. Writes(f) => ~IsComparePop2(f) /\ ~Is(f, 0, 3) /\ ~Is(f, 5, 5)
    BY DEF Writes, IsAddSub, IsMul, IsDiv, OnRegisters, IsComparePop2, Reg1, Is
  <2>5. Writes(f) => Decode(f).pop = IF f.group = 6 THEN 1 ELSE 0
    BY <2>1, <2>4 DEF ArithWord
  <2>6. Decode(f).write <=> ~Decode(f).compare
    BY <2>2, <2>3, Zenon
  <2>7. ASSUME Decode(f).write, Decode(f).pop # 0
        PROVE  Decode(f).dest_sti /\ Decode(f).pop = 1
    <3>1. Writes(f)
      BY <2>2, <2>7, Zenon
    <3>2. f.group = 6 /\ Decode(f).pop = 1
      BY <2>5, <2>7, <3>1
    <3>3. f.group # 0
      BY <3>2
    <3>. QED
      BY <2>2, <3>2, <3>3, Zenon
  <2>. QED
    BY <2>6, <2>7, Zenon
<1>2. CASE Decode(f).action # "ARITH"
  <2>1. ~Decode(f).write
    BY <1>2 DEF Decode, ExactWord, ArithWord, MemoryMathWord, Acts, Plain
  <2>. QED
    BY <1>2, <2>1
<1>. QED
  BY <1>1, <1>2

\* The word says arithmetic of exactly the commands whose action computes on the stack: the
\* control unit reports busy from the moment such a command waits (busy_n of x87_control.sv),
\* and the list the generator keeps for it is not the one it takes the actions from.
THEOREM ArithmeticMarksExecution ==
  ASSUME NEW f \in Commands
  PROVE  Decode(f).arithmetic <=>
           Decode(f).action \in {"ARITH", "MEMORY_MATH", "TRIG", "FSQRT", "FPTAN", "FPATAN",
                                 "FRNDINT"}
<1>1. Decode(f).arithmetic = IsArithmetic(f)
  BY DEF Decode, ExactWord, ArithWord, MemoryMathWord, Acts, Plain
<1>2. Exact(DecodeKey(f)) = Exact(f) /\ PushesConstant(DecodeKey(f)) = PushesConstant(f)
      /\ IsTrig(DecodeKey(f)) = IsTrig(f)
  BY DEF DecodeKey, Exact, PushesConstant, IsTrig, Reg1, Mem, Is, RegisterForm, Commands
<1>3. CASE Exact(f) # "NONE"
  <2>1. ~IsArith(f) /\ ~IsMemoryMath(f) /\ ~IsTrig(f)
    BY <1>3 DEF Exact, IsArith, IsAddSub, IsCompare, IsMul, IsDiv, OnRegisters, IsComparePop2,
                IsTest, Reg1, IsTrig, IsMemoryMath, Mem, Is, RegisterForm, Commands
  <2>2. Decode(f).action = Exact(f)
    BY <1>2, <1>3 DEF Decode, ExactWord, Plain
  <2>3. IsArithmetic(f) <=> Exact(f) \in {"FSQRT", "FPTAN", "FPATAN", "FRNDINT"}
    BY <2>1, Zenon DEF IsArithmetic
  <2>4. Exact(f) \notin {"ARITH", "MEMORY_MATH", "TRIG"}
    BY ExactActions
  <2>. QED
    BY <1>1, <2>2, <2>3, <2>4, Zenon
<1>4. CASE Exact(f) = "NONE"
  <2>1. IsArithmetic(f) <=> IsArith(f) \/ IsMemoryMath(f) \/ IsTrig(f)
    BY <1>4 DEF IsArithmetic
  <2>2. PushesConstant(f) => ~IsArith(f) /\ ~IsMemoryMath(f) /\ ~IsTrig(f)
    BY DEF PushesConstant, IsArith, IsAddSub, IsCompare, IsMul, IsDiv, OnRegisters,
           IsComparePop2, IsTest, Reg1, IsTrig, IsMemoryMath, Is, RegisterForm, Commands
  <2>3. CASE PushesConstant(f)
    <3>1. Decode(f).action = "PUSH_CONST"
      BY <1>2, <1>4, <2>3 DEF Decode, Acts, Plain
    <3>2. ~IsArithmetic(f)
      BY <2>1, <2>2, <2>3
    <3>. QED
      BY <1>1, <3>1, <3>2
  <2>4. CASE ~PushesConstant(f) /\ (IsTrig(f) \/ IsArith(f))
    <3>1. Decode(f).action \in {"TRIG", "ARITH"}
      BY <1>2, <1>4, <2>4 DEF Decode, Plain, ArithWord
    <3>2. IsArithmetic(f)
      BY <2>1, <2>4
    <3>. QED
      BY <1>1, <3>1, <3>2
  <2>5. CASE ~PushesConstant(f) /\ ~IsTrig(f) /\ ~IsArith(f) /\ IsMemoryMath(f)
    <3>1. Decode(f).action = "MEMORY_MATH"
      BY <1>2, <1>4, <2>5 DEF Decode, MemoryMathWord, IsMemoryMath
    <3>2. IsArithmetic(f)
      BY <2>1, <2>5
    <3>. QED
      BY <1>1, <3>1, <3>2
  <2>6. CASE ~PushesConstant(f) /\ ~IsTrig(f) /\ ~IsArith(f) /\ ~IsMemoryMath(f)
    <3>1. Decode(f).action \in {RegisterAction(f), "LOAD", "STORE", "STORE_BCD", "NONE"}
      BY <1>2, <1>4, <2>6 DEF Decode, Acts, Plain
    <3>2. ~IsArithmetic(f)
      BY <2>1, <2>6
    <3>. QED
      BY <1>1, <3>1, <3>2, RegisterActions
  <2>. QED
    BY <2>3, <2>4, <2>5, <2>6
<1>. QED
  BY <1>3, <1>4

\* The operation of a command on registers, field by field.
LEMMA StartedOnRegisters ==
  ASSUME NEW f \in Commands, Decode(f).action = "ARITH", NEW st0, NEW other, NEW zero
  PROVE  Started(f, st0, other, zero) =
           IF IsTest(f) THEN Operation(ArithExec(f), st0, zero, f.group = 5)
           ELSE IF (IsAddSub(f) \/ IsDiv(f)) /\ f.op \in {5, 7}
                THEN Operation(ArithExec(f), other, st0, f.group = 5)
           ELSE Operation(ArithExec(f), st0, other, f.group = 5)
<1>1. RegisterForm(f) /\ Decode(f) = ArithWord(f)
  BY ArithCommands
<1>2. /\ ArithWord(f).exec = ArithExec(f)
      /\ ArithWord(f).quiet = (f.group = 5)
      /\ ArithWord(f).needs_sti <=> ~IsTest(f)
      /\ ArithWord(f).reverse <=> (IsAddSub(f) \/ IsDiv(f)) /\ f.op \in {5, 7}
  BY Zenon DEF ArithWord
<1>. QED
  BY <1>1, <1>2, Zenon DEF Started, ArithOperation

\* The operation of a command on memory: SUB, DIV and their reversed forms.
LEMMA StartedOnMemory ==
  ASSUME NEW f \in Commands, Decode(f).action = "MEMORY_MATH", NEW st0, NEW other, NEW zero
  PROVE  Started(f, st0, other, zero) =
           IF f.op \in {5, 7} THEN Operation(MemoryExec(f.op), other, st0, FALSE)
           ELSE Operation(MemoryExec(f.op), st0, other, FALSE)
<1>1. ~RegisterForm(f) /\ Decode(f) = MemoryMathWord(f)
  BY ArithCommands
<1>2. /\ MemoryMathWord(f).exec = MemoryExec(f.op)
      /\ MemoryMathWord(f).compare <=> f.op \in {2, 3}
      /\ MemoryMathWord(f).reverse <=> f.op \in {5, 7}
  BY Zenon DEF MemoryMathWord
<1>3. MemoryExec(f.op) = "COMPARE" <=> f.op \in {2, 3}
  BY DEF MemoryExec, Commands
<1>4. MemoryExec(f.op) \in {"DIV", "MUL", "COMPARE", "SUB", "ADD"}
  BY DEF MemoryExec, Commands
<1>5. MemoryOp(MemoryMathWord(f)) = MemoryExec(f.op)
  BY <1>2, <1>3, <1>4 DEF MemoryOp
<1>. QED
  BY <1>1, <1>2, <1>5, Zenon DEF Started, MemoryOperation

\* The names of the commands on ST(0) and those of the commands on ST(i).
LEMMA NamesOfEight ==
  /\ ArithNames[1] = "FADD" /\ ArithNames[2] = "FMUL" /\ ArithNames[3] = "FCOM"
  /\ ArithNames[4] = "FCOMP" /\ ArithNames[5] = "FSUB" /\ ArithNames[6] = "FSUBR"
  /\ ArithNames[7] = "FDIV" /\ ArithNames[8] = "FDIVR"
  /\ ToStiNames[1] = "FADD" /\ ToStiNames[2] = "FMUL" /\ ToStiNames[5] = "FSUBR"
  /\ ToStiNames[6] = "FSUB" /\ ToStiNames[7] = "FDIVR" /\ ToStiNames[8] = "FDIV"
  BY DEF ArithNames, ToStiNames

\* What each name asks for.
LEMMA NamedOperations ==
  ASSUME NEW d, NEW s
  PROVE  /\ NamedOperation("FADD", d, s) = Operation("ADD", d, s, FALSE)
         /\ NamedOperation("FMUL", d, s) = Operation("MUL", d, s, FALSE)
         /\ NamedOperation("FSUB", d, s) = Operation("SUB", d, s, FALSE)
         /\ NamedOperation("FSUBR", d, s) = Operation("SUB", s, d, FALSE)
         /\ NamedOperation("FDIV", d, s) = Operation("DIV", d, s, FALSE)
         /\ NamedOperation("FDIVR", d, s) = Operation("DIV", s, d, FALSE)
         /\ NamedOperation("FCOM", d, s) = Operation("COMPARE", d, s, FALSE)
         /\ NamedOperation("FCOMP", d, s) = Operation("COMPARE", d, s, FALSE)
         /\ NamedOperation("FCOMPP", d, s) = Operation("COMPARE", d, s, FALSE)
         /\ NamedOperation("FTST", d, s) = Operation("COMPARE", d, s, FALSE)
         /\ NamedOperation("FUCOM", d, s) = Operation("COMPARE", d, s, TRUE)
         /\ NamedOperation("FUCOMP", d, s) = Operation("COMPARE", d, s, TRUE)
<1>1. NamedOperation("FADD", d, s) = Operation("ADD", d, s, FALSE)
  BY DEF NamedOperation
<1>2. NamedOperation("FMUL", d, s) = Operation("MUL", d, s, FALSE)
  BY DEF NamedOperation
<1>3. NamedOperation("FSUB", d, s) = Operation("SUB", d, s, FALSE)
  BY DEF NamedOperation
<1>4. NamedOperation("FSUBR", d, s) = Operation("SUB", s, d, FALSE)
  BY DEF NamedOperation
<1>5. NamedOperation("FDIV", d, s) = Operation("DIV", d, s, FALSE)
  BY DEF NamedOperation
<1>6. NamedOperation("FDIVR", d, s) = Operation("DIV", s, d, FALSE)
  BY DEF NamedOperation
<1>7. /\ NamedOperation("FCOM", d, s) = Operation("COMPARE", d, s, FALSE)
      /\ NamedOperation("FCOMP", d, s) = Operation("COMPARE", d, s, FALSE)
  BY DEF NamedOperation
<1>8. /\ NamedOperation("FCOMPP", d, s) = Operation("COMPARE", d, s, FALSE)
      /\ NamedOperation("FTST", d, s) = Operation("COMPARE", d, s, FALSE)
  BY DEF NamedOperation
<1>9. /\ NamedOperation("FUCOM", d, s) = Operation("COMPARE", d, s, TRUE)
      /\ NamedOperation("FUCOMP", d, s) = Operation("COMPARE", d, s, TRUE)
  BY DEF NamedOperation
<1>. QED
  BY <1>1, <1>2, <1>3, <1>4, <1>5, <1>6, <1>7, <1>8, <1>9

\* The operation of a command on memory, by the middle bits of its ModR/M byte.
LEMMA MemoryExecs ==
  /\ MemoryExec(0) = "ADD" /\ MemoryExec(1) = "MUL" /\ MemoryExec(2) = "COMPARE"
  /\ MemoryExec(3) = "COMPARE" /\ MemoryExec(4) = "SUB" /\ MemoryExec(5) = "SUB"
  /\ MemoryExec(6) = "DIV" /\ MemoryExec(7) = "DIV"
  BY DEF MemoryExec

\* The same, by the names of the commands on ST(0).
LEMMA NamesOnTheTop ==
  ASSUME NEW op \in 0..7, NEW st0, NEW other
  PROVE  NamedOperation(ArithNames[op + 1], st0, other) =
           IF op \in {5, 7} THEN Operation(MemoryExec(op), other, st0, FALSE)
           ELSE Operation(MemoryExec(op), st0, other, FALSE)
<1>1. CASE op = 0
  <2>1. ArithNames[op + 1] = "FADD" /\ MemoryExec(op) = "ADD" /\ op \notin {5, 7}
    BY <1>1, NamesOfEight, MemoryExecs
  <2>. QED
    BY <2>1, NamedOperations, Zenon
<1>2. CASE op = 1
  <2>1. ArithNames[op + 1] = "FMUL" /\ MemoryExec(op) = "MUL" /\ op \notin {5, 7}
    BY <1>2, NamesOfEight, MemoryExecs
  <2>. QED
    BY <2>1, NamedOperations, Zenon
<1>3. CASE op = 2
  <2>1. ArithNames[op + 1] = "FCOM" /\ MemoryExec(op) = "COMPARE" /\ op \notin {5, 7}
    BY <1>3, NamesOfEight, MemoryExecs
  <2>. QED
    BY <2>1, NamedOperations, Zenon
<1>4. CASE op = 3
  <2>1. ArithNames[op + 1] = "FCOMP" /\ MemoryExec(op) = "COMPARE" /\ op \notin {5, 7}
    BY <1>4, NamesOfEight, MemoryExecs
  <2>. QED
    BY <2>1, NamedOperations, Zenon
<1>5. CASE op = 4
  <2>1. ArithNames[op + 1] = "FSUB" /\ MemoryExec(op) = "SUB" /\ op \notin {5, 7}
    BY <1>5, NamesOfEight, MemoryExecs
  <2>. QED
    BY <2>1, NamedOperations, Zenon
<1>6. CASE op = 5
  <2>1. ArithNames[op + 1] = "FSUBR" /\ MemoryExec(op) = "SUB" /\ op \in {5, 7}
    BY <1>6, NamesOfEight, MemoryExecs
  <2>2. NamedOperation("FSUBR", st0, other) = Operation("SUB", other, st0, FALSE)
    BY NamedOperations
  <2>3. NamedOperation(ArithNames[op + 1], st0, other) = Operation(MemoryExec(op), other, st0, FALSE)
    BY <2>1, <2>2, Zenon
  <2>. QED
    BY <2>1, <2>3, Zenon
<1>7. CASE op = 6
  <2>1. ArithNames[op + 1] = "FDIV" /\ MemoryExec(op) = "DIV" /\ op \notin {5, 7}
    BY <1>7, NamesOfEight, MemoryExecs
  <2>. QED
    BY <2>1, NamedOperations, Zenon
<1>8. CASE op = 7
  <2>1. ArithNames[op + 1] = "FDIVR" /\ MemoryExec(op) = "DIV" /\ op \in {5, 7}
    BY <1>8, NamesOfEight, MemoryExecs
  <2>2. NamedOperation("FDIVR", st0, other) = Operation("DIV", other, st0, FALSE)
    BY NamedOperations
  <2>3. NamedOperation(ArithNames[op + 1], st0, other) = Operation(MemoryExec(op), other, st0, FALSE)
    BY <2>1, <2>2, Zenon
  <2>. QED
    BY <2>1, <2>3, Zenon
<1>9. op = 0 \/ op = 1 \/ op = 2 \/ op = 3 \/ op = 4 \/ op = 5 \/ op = 6 \/ op = 7
  OBVIOUS
<1>. QED
  BY <1>1, <1>2, <1>3, <1>4, <1>5, <1>6, <1>7, <1>8, <1>9, Zenon

\* By the names of the commands on ST(i), whose destination is ST(i): the names of the
\* reversed forms have changed places, and the code's reverse has not.
LEMMA NamesOnARegister ==
  ASSUME NEW op \in {0, 1, 4, 5, 6, 7}, NEW st0, NEW other
  PROVE  NamedOperation(ToStiNames[op + 1], other, st0) =
           IF op \in {4, 6} THEN Operation(MemoryExec(op), st0, other, FALSE)
           ELSE Operation(MemoryExec(op), other, st0, FALSE)
<1>1. CASE op = 0
  <2>1. ToStiNames[op + 1] = "FADD" /\ MemoryExec(op) = "ADD" /\ op \notin {4, 6}
    BY <1>1, NamesOfEight, MemoryExecs
  <2>. QED
    BY <2>1, NamedOperations, Zenon
<1>2. CASE op = 1
  <2>1. ToStiNames[op + 1] = "FMUL" /\ MemoryExec(op) = "MUL" /\ op \notin {4, 6}
    BY <1>2, NamesOfEight, MemoryExecs
  <2>. QED
    BY <2>1, NamedOperations, Zenon
<1>3. CASE op = 4
  <2>1. ToStiNames[op + 1] = "FSUBR" /\ MemoryExec(op) = "SUB" /\ op \in {4, 6}
    BY <1>3, NamesOfEight, MemoryExecs
  <2>2. NamedOperation("FSUBR", other, st0) = Operation("SUB", st0, other, FALSE)
    BY NamedOperations
  <2>3. NamedOperation(ToStiNames[op + 1], other, st0) = Operation(MemoryExec(op), st0, other, FALSE)
    BY <2>1, <2>2, Zenon
  <2>. QED
    BY <2>1, <2>3, Zenon
<1>4. CASE op = 5
  <2>1. ToStiNames[op + 1] = "FSUB" /\ MemoryExec(op) = "SUB" /\ op \notin {4, 6}
    BY <1>4, NamesOfEight, MemoryExecs
  <2>. QED
    BY <2>1, NamedOperations, Zenon
<1>5. CASE op = 6
  <2>1. ToStiNames[op + 1] = "FDIVR" /\ MemoryExec(op) = "DIV" /\ op \in {4, 6}
    BY <1>5, NamesOfEight, MemoryExecs
  <2>2. NamedOperation("FDIVR", other, st0) = Operation("DIV", st0, other, FALSE)
    BY NamedOperations
  <2>3. NamedOperation(ToStiNames[op + 1], other, st0) = Operation(MemoryExec(op), st0, other, FALSE)
    BY <2>1, <2>2, Zenon
  <2>. QED
    BY <2>1, <2>3, Zenon
<1>6. CASE op = 7
  <2>1. ToStiNames[op + 1] = "FDIV" /\ MemoryExec(op) = "DIV" /\ op \notin {4, 6}
    BY <1>6, NamesOfEight, MemoryExecs
  <2>. QED
    BY <2>1, NamedOperations, Zenon
<1>. QED
  BY <1>1, <1>2, <1>3, <1>4, <1>5, <1>6

\* A command on memory does what its name says.
LEMMA MemoryCommandsMeanTheirNames ==
  ASSUME NEW f \in Commands, Decode(f).action = "MEMORY_MATH", NEW st0, NEW other, NEW zero
  PROVE  Meaning(f, st0, other, zero) = Started(f, st0, other, zero)
<1>1. ~RegisterForm(f)
  BY ArithCommands
<1>2. ~IsTest(f)
  BY <1>1 DEF IsTest, Reg1
<1>3. Name(f) = ArithNames[f.op + 1]
  BY <1>1 DEF Name, IsComparePop2, IsTest, Reg1
<1>4. Meaning(f, st0, other, zero) = NamedOperation(ArithNames[f.op + 1], st0, other)
  BY <1>1, <1>2, <1>3, Zenon DEF Meaning
<1>5. f.op \in 0..7
  BY DEF Commands
<1>6. NamedOperation(ArithNames[f.op + 1], st0, other) =
        IF f.op \in {5, 7} THEN Operation(MemoryExec(f.op), other, st0, FALSE)
        ELSE Operation(MemoryExec(f.op), st0, other, FALSE)
  BY <1>5, NamesOnTheTop, Zenon
<1>7. Started(f, st0, other, zero) =
        IF f.op \in {5, 7} THEN Operation(MemoryExec(f.op), other, st0, FALSE)
        ELSE Operation(MemoryExec(f.op), st0, other, FALSE)
  BY StartedOnMemory, Zenon
<1>. QED
  BY <1>4, <1>6, <1>7, Zenon

\* A sum and a product have their operands in either order.
LEMMA Commuting ==
  ASSUME NEW op \in {"ADD", "MUL"}, NEW a, NEW b
  PROVE  Commutes(Operation(op, a, b, FALSE), Operation(op, b, a, FALSE))
<1> DEFINE o == Operation(op, a, b, FALSE)
<1>1. o.op = op /\ o.a = a /\ o.b = b /\ (o.quiet <=> FALSE)
  BY Zenon DEF Operation
<1>2. o.quiet = FALSE
  BY Zenon DEF Operation
<1>3. Operation(o.op, o.b, o.a, o.quiet) = Operation(op, b, a, FALSE)
  BY <1>1, <1>2, Zenon
<1>. QED
  BY <1>1, <1>3, Zenon DEF Commutes

\* A command that computes on registers does what its name says.
LEMMA ComputingCommandsMeanTheirNames ==
  ASSUME NEW f \in Commands, Decode(f).action = "ARITH", Writes(f),
         NEW st0, NEW other, NEW zero
  PROVE  Commutes(Meaning(f, st0, other, zero), Started(f, st0, other, zero))
<1>1. RegisterForm(f) /\ IsArith(f)
  BY ArithCommands
<1>2. ~IsCompare(f) /\ ~IsTest(f) /\ ~IsComparePop2(f) /\ f.group \in {0, 4, 6}
      /\ f.op \in {0, 1, 4, 5, 6, 7}
  BY <1>1, ArithForms DEF IsCompare
<1>3. ArithExec(f) = MemoryExec(f.op) /\ (IsAddSub(f) \/ IsDiv(f) <=> f.op # 1)
  BY <1>1, <1>2 DEF ArithExec, MemoryExec, IsAddSub, IsMul, IsDiv, OnRegisters
<1>4. Started(f, st0, other, zero) =
        IF f.op \in {5, 7} THEN Operation(MemoryExec(f.op), other, st0, FALSE)
        ELSE Operation(MemoryExec(f.op), st0, other, FALSE)
  <2>1. f.group # 5 /\ (f.op \in {5, 7} => f.op # 1)
    BY <1>2
  <2>2. (f.group = 5) = FALSE
    BY <2>1
  <2>3. (IsAddSub(f) \/ IsDiv(f)) /\ f.op \in {5, 7} <=> f.op \in {5, 7}
    BY <1>3, <2>1, Zenon
  <2>. QED
    BY <1>2, <1>3, <2>2, <2>3, StartedOnRegisters, Zenon
<1>5. CASE f.group = 0
  <2>1. Name(f) = ArithNames[f.op + 1]
    BY <1>1, <1>2, <1>5 DEF Name
  <2>2. Meaning(f, st0, other, zero) = NamedOperation(ArithNames[f.op + 1], st0, other)
    BY <1>2, <1>5, <2>1, Zenon DEF Meaning
  <2>3. f.op \in 0..7
    BY <1>2
  <2>4. NamedOperation(ArithNames[f.op + 1], st0, other) = Started(f, st0, other, zero)
    BY <1>4, <2>3, NamesOnTheTop, Zenon
  <2>. QED
    BY <2>2, <2>4, Zenon DEF Commutes
<1>6. CASE f.group # 0
  <2>1. Name(f) = ToStiNames[f.op + 1]
    BY <1>1, <1>2, <1>6 DEF Name
  <2>2. Meaning(f, st0, other, zero) = NamedOperation(ToStiNames[f.op + 1], other, st0)
    BY <1>1, <1>2, <1>6, <2>1, Zenon DEF Meaning
  <2>3. Meaning(f, st0, other, zero) =
          IF f.op \in {4, 6} THEN Operation(MemoryExec(f.op), st0, other, FALSE)
          ELSE Operation(MemoryExec(f.op), other, st0, FALSE)
    BY <1>2, <2>2, NamesOnARegister, Zenon
  <2>4. CASE f.op \in {0, 1}
    <3>1. f.op \notin {4, 6} /\ f.op \notin {5, 7} /\ MemoryExec(f.op) \in {"ADD", "MUL"}
      BY <2>4, MemoryExecs
    <3>. QED
      BY <1>4, <2>3, <3>1, Commuting, Zenon
  <2>5. CASE f.op \in {4, 5, 6, 7}
    <3>1. f.op \in {4, 6} <=> f.op \notin {5, 7}
      BY <2>5
    <3>2. Meaning(f, st0, other, zero) = Started(f, st0, other, zero)
      BY <1>4, <2>3, <3>1, Zenon
    <3>. QED
      BY <3>2, Zenon DEF Commutes
  <2>. QED
    BY <1>2, <2>4, <2>5
<1>. QED
  BY <1>5, <1>6

\* A comparison has ST(0) on its left, a zero on its right for FTST, and is quiet for FUCOM.
LEMMA ComparingCommandsMeanTheirNames ==
  ASSUME NEW f \in Commands, Decode(f).action = "ARITH", ~Writes(f), Name(f) # "FUCOMPP",
         NEW st0, NEW other, NEW zero
  PROVE  Meaning(f, st0, other, zero) = Started(f, st0, other, zero)
<1> DEFINE right == IF IsTest(f) THEN zero ELSE other
<1>1. RegisterForm(f) /\ IsArith(f)
  BY ArithCommands
<1>2. IsCompare(f) /\ ~IsAddSub(f) /\ ~IsMul(f) /\ ~IsDiv(f)
  BY <1>1, Zenon DEF IsArith, Writes
<1>3. ArithExec(f) = "COMPARE"
  BY <1>2 DEF ArithExec
<1>4. Started(f, st0, other, zero) = Operation("COMPARE", st0, right, f.group = 5)
  <2>1. CASE IsTest(f)
    <3>1. Started(f, st0, other, zero) = Operation(ArithExec(f), st0, zero, f.group = 5)
      BY <2>1, StartedOnRegisters, Zenon
    <3>2. right = zero
      BY <2>1, Zenon
    <3>. QED
      BY <1>3, <3>1, <3>2, Zenon
  <2>2. CASE ~IsTest(f)
    <3>1. Started(f, st0, other, zero) = Operation(ArithExec(f), st0, other, f.group = 5)
      BY <1>2, <2>2, StartedOnRegisters, Zenon
    <3>2. right = other
      BY <2>2, Zenon
    <3>. QED
      BY <1>3, <3>1, <3>2, Zenon
  <2>. QED
    BY <2>1, <2>2, Zenon
<1>5. Meaning(f, st0, other, zero) = NamedOperation(Name(f), st0, right)
  BY <1>2, Zenon DEF Meaning
<1>6. CASE f.group = 5
  <2>1. f.op \in {4, 5}
    BY <1>2, <1>6 DEF IsCompare, IsComparePop2, IsTest, Reg1, Is, Commands
  <2>2. Name(f) \in {"FUCOM", "FUCOMP"}
    BY <1>1, <1>6, <2>1 DEF Name, IsComparePop2, IsTest, Reg1, Is
  <2>3. NamedOperation(Name(f), st0, right) = Operation("COMPARE", st0, right, TRUE)
    <3> HIDE DEF right
    <3>. QED
      BY <2>2, NamedOperations, Zenon
  <2>4. (f.group = 5) = TRUE
    BY <1>6
  <2> HIDE DEF right
  <2>. QED
    BY <1>4, <1>5, <2>3, <2>4, Zenon
<1>7. CASE f.group # 5
  <2>1. Name(f) \in {"FCOM", "FCOMP", "FCOMPP", "FTST"}
    <3>1. CASE f.group = 0
      <4>1. f.op \in {2, 3}
        BY <1>2, <3>1 DEF IsCompare, IsComparePop2, IsTest, Reg1, Is, Commands
      <4>. QED
        BY <3>1, <4>1, NamesOfEight DEF Name
    <3>2. CASE f.group # 0
      BY <1>1, <1>2, <1>7, <3>2 DEF Name, IsCompare
    <3>. QED
      BY <3>1, <3>2
  <2>2. NamedOperation(Name(f), st0, right) = Operation("COMPARE", st0, right, FALSE)
    <3> HIDE DEF right
    <3>. QED
      BY <2>1, NamedOperations, Zenon
  <2>3. (f.group = 5) = FALSE
    BY <1>7
  <2> HIDE DEF right
  <2>. QED
    BY <1>4, <1>5, <2>2, <2>3, Zenon
<1>. QED
  BY <1>6, <1>7

\* The operation the control unit starts for a command, on whatever operands, is the one the
\* command's name asks for, the operands of a sum or a product in either order.  Only FUCOMPP
\* is not: it is decoded as a signalling compare.
THEOREM CommandsMeanTheirNames ==
  ASSUME NEW f \in Commands, Decode(f).action \in {"ARITH", "MEMORY_MATH"},
         Name(f) # "FUCOMPP", NEW st0, NEW other, NEW zero
  PROVE  Commutes(Meaning(f, st0, other, zero), Started(f, st0, other, zero))
<1>1. CASE Decode(f).action = "MEMORY_MATH"
  BY <1>1, MemoryCommandsMeanTheirNames, Zenon DEF Commutes
<1>2. CASE Decode(f).action = "ARITH" /\ Writes(f)
  BY <1>2, ComputingCommandsMeanTheirNames, Zenon
<1>3. CASE Decode(f).action = "ARITH" /\ ~Writes(f)
  BY <1>3, ComparingCommandsMeanTheirNames, Zenon DEF Commutes
<1>. QED
  BY <1>1, <1>2, <1>3

-----------------------------------------------------------------------------
(* What each lane of a word may write *)

\* What a lane writes is among the registers W.
Within(f, W) == DOMAIN f \subseteq W

\* A merge writes what either part writes.
LEMMA MergeWithin ==
  ASSUME NEW f, NEW g, NEW W, Within(f, W), Within(g, W)
  PROVE  Within(f ++ g, W)
<1>1. DOMAIN (f ++ g) = DOMAIN f \cup DOMAIN g
  BY DEF ++
<1>. QED
  BY <1>1 DEF Within

\* A lane that writes nothing is within any registers.
LEMMA NothingWithin == ASSUME NEW W PROVE Within(Nothing, W)
  BY DEF Within, Nothing

\* A direct answer writes its own registers and the mark of the answer.
LEMMA DirectWithin ==
  ASSUME NEW f, NEW W, Within(f, W), "direct" \in W
  PROVE  Within(Direct(f), W)
<1>1. Within([direct |-> TRUE], W)
  BY DEF Within
<1>. QED
  BY <1>1, MergeWithin DEF Direct

\* The registers of the answers that need no arithmetic.
AnswerRegs == {"direct", "result", "invalid", "divide_by_zero", "range_incomplete", "aux", "inexact"}
LEMMA AnswersWithin ==
  ASSUME NEW a, NEW b, NEW W, AnswerRegs \subseteq W
  PROVE  /\ Within([direct |-> a], W)
         /\ Within([result |-> a], W)
         /\ Within([aux |-> a], W)
         /\ Within([inexact |-> a], W)
         /\ Within([result |-> a, invalid |-> b], W)
         /\ Within([result |-> a, divide_by_zero |-> b], W)
         /\ Within([result |-> a, range_incomplete |-> b], W)
         /\ Within(Quiet(a, b), W)
         /\ "direct" \in W
  BY DEF Within, AnswerRegs, Quiet

-----------------------------------------------------------------------------
\* The registers of the classify lane: the answers, the order of the operands, the predicates.
Classified == AnswerRegs \cup {"unordered", "less", "equal", "mul_sign", "div_sign", "unbiased",
  "special", "integral", "subunit", "zero", "shift_left", "invalid_r", "work"}

\* The classify lane writes no more than those.
LEMMA ClassifyWrites ==
  ASSUME NEW q, NEW u
  PROVE  Within(ClassifyLane(q, r, u), Classified)
<1>1. AnswerRegs \subseteq Classified
  BY DEF Classified
<1>2. \A a, b, c, d :
        /\ Within([mul_sign |-> a], Classified) /\ Within([div_sign |-> a], Classified)
        /\ Within([work |-> a], Classified) /\ Within([invalid_r |-> a], Classified)
        /\ Within([unordered |-> a, less |-> b, equal |-> c, invalid |-> d], Classified)
        /\ Within([unbiased |-> a, special |-> b, integral |-> c, subunit |-> d], Classified)
        /\ Within([unbiased |-> a, zero |-> b, shift_left |-> c, invalid_r |-> d], Classified)
  BY DEF Within, Classified, AnswerRegs
<1>3. Within(ClassifyAddSub(q), Classified)
  BY <1>1, <1>2, AnswersWithin, DirectWithin, Zenon DEF ClassifyAddSub
<1>4. Within(ClassifyMul(q), Classified)
  BY <1>1, <1>2, AnswersWithin, DirectWithin, MergeWithin, Zenon DEF ClassifyMul
<1>5. Within(ClassifyDivSqrt(q), Classified)
  <2>1. \A a, b : /\ Within(Direct(IF q.op = "SQRT" THEN Quiet(a, a) ELSE Quiet(a, b)), Classified)
    BY <1>1, AnswersWithin, DirectWithin, Zenon
  <2>2. \A a, b : /\ Within(Direct([result |-> a]), Classified)
                  /\ Within(Direct([result |-> a, invalid |-> b]), Classified)
                  /\ Within(Direct([result |-> a, divide_by_zero |-> b]), Classified)
                  /\ Within([direct |-> a], Classified)
    BY <1>1, AnswersWithin, DirectWithin, Zenon
  <2>. QED
    BY <1>2, <2>1, <2>2, MergeWithin, ZenonT(60) DEF ClassifyDivSqrt
<1>6. Within(ClassifyRoundint(q), Classified) /\ Within(ClassifyFistRange(q, r), Classified)
  BY <1>2, Zenon DEF ClassifyRoundint, ClassifyFistRange
<1>7. Within(ClassifyFist(q), Classified)
  <2>1. Within(IF IsZero(q.a) THEN [work |-> 0] ELSE Nothing, Classified)
    BY <1>2, NothingWithin, Zenon
  <2>2. \A a, b, c, d :
          Within([unbiased |-> a, zero |-> b, shift_left |-> c, invalid_r |-> d]
                 ++ IF IsZero(q.a) THEN [work |-> 0] ELSE Nothing, Classified)
    BY <1>2, <2>1, MergeWithin, Zenon
  <2>. QED
    BY <2>2, Zenon DEF ClassifyFist
<1>. QED
  BY <1>3, <1>4, <1>5, <1>6, <1>7, NothingWithin, Zenon DEF ClassifyLane

-----------------------------------------------------------------------------
\* The registers of the arithmetic lane and of a rounding.
Rounded == {"work", "guard", "sticky", "round", "inexact", "rounded_up", "result", "direct",
            "add_exp", "mul_exp"}

\* A significand cut at a bit: what is kept, the guard bit and the sticky one.
LEMMA SplitWrites ==
  ASSUME NEW q, NEW n, NEW x, NEW sign, NEW W, {"work", "guard", "sticky"} \subseteq W
  PROVE  /\ Within(Split(q, n, x), W)
         /\ Within([Split(q, n, x) EXCEPT !.sticky = sign], W)
         /\ {"inexact", "rounded_up"} \subseteq W => Within(SplitRound(q, sign, n, x), W)
<1>1. \A v : DOMAIN [Split(q, n, x) EXCEPT !.sticky = v] = {"work", "guard", "sticky"}
  BY DEF Split
<1>2. \A v : DOMAIN [Split(q, n, x) EXCEPT !.work = v] = {"work", "guard", "sticky"}
  BY DEF Split
<1>3. DOMAIN Split(q, n, x) = {"work", "guard", "sticky"}
  BY DEF Split
<1>4. ASSUME {"inexact", "rounded_up"} \subseteq W PROVE Within(SplitRound(q, sign, n, x), W)
  <2>1. \A v : Within([Split(q, n, x) EXCEPT !.work = v], W)
    BY <1>2 DEF Within
  <2>2. \A a, b : Within([inexact |-> a, rounded_up |-> b], W)
    BY <1>4 DEF Within
  <2>3. \A v, a, b : Within([Split(q, n, x) EXCEPT !.work = v]
                            ++ [inexact |-> a, rounded_up |-> b], W)
    BY <2>1, <2>2, MergeWithin, Zenon
  <2>. QED
    BY <2>3, Zenon DEF SplitRound
<1>. QED
  BY <1>1, <1>3, <1>4 DEF Within

\* The arithmetic lane writes no more than those.
LEMMA AluWrites ==
  ASSUME NEW q, NEW u
  PROVE  Within(AluLane(q, r, u), Rounded)
<1>1. \A a, b, c : /\ Within([work |-> a, inexact |-> b, rounded_up |-> c], Rounded)
                   /\ Within([work |-> a], Rounded) /\ Within([round |-> a], Rounded)
                   /\ Within([result |-> a, direct |-> b], Rounded)
                   /\ Within([work |-> a, add_exp |-> b], Rounded)
                   /\ Within([round |-> a, mul_exp |-> b], Rounded)
  BY DEF Within, Rounded
<1>2. {"work", "guard", "sticky"} \subseteq Rounded /\ {"inexact", "rounded_up"} \subseteq Rounded
  BY DEF Rounded
<1>3. Within(CalculateAddSub(r), Rounded)
  BY <1>1, Zenon DEF CalculateAddSub
<1>4. Within(NormalizeAddSub(q, r), Rounded)
  BY <1>1, NothingWithin, Zenon DEF NormalizeAddSub
<1>5. Within(PrepRoundMul(q, r), Rounded)
  BY <1>1, <1>2, SplitWrites, MergeWithin, Zenon DEF PrepRoundMul
<1>6. Within(PrepRoundDivSqrt(q, r), Rounded)
  BY <1>1, <1>2, SplitWrites, MergeWithin, Zenon DEF PrepRoundDivSqrt
<1>7. \A n : Within(SplitRound(q, r.add_sign, n, 3), Rounded)
  BY <1>2, SplitWrites, Zenon
<1>. QED
  BY <1>1, <1>3, <1>4, <1>5, <1>6, <1>7, NothingWithin, Zenon DEF AluLane

-----------------------------------------------------------------------------
\* The registers of the pack lane.
PackedRegs == {"result", "invalid", "inexact", "rounded_up", "transfer", "underflow", "overflow"}

\* The pack lane writes no more than those.
LEMMA PackWrites ==
  ASSUME NEW q, NEW u
  PROVE  Within(PackLane(q, r, u), PackedRegs)
<1>1. \A a, b, c, d :
        /\ Within([result |-> a], PackedRegs) /\ Within([transfer |-> a], PackedRegs)
        /\ Within([result |-> a, invalid |-> b], PackedRegs)
        /\ Within([result |-> a, inexact |-> b, rounded_up |-> c], PackedRegs)
        /\ Within([transfer |-> a, invalid |-> b], PackedRegs)
        /\ Within([transfer |-> a, invalid |-> b, inexact |-> c, rounded_up |-> d], PackedRegs)
        /\ Within([inexact |-> a, underflow |-> b, transfer |-> c], PackedRegs)
        /\ Within([inexact |-> a, overflow |-> b, transfer |-> c], PackedRegs)
        /\ Within([inexact |-> a, transfer |-> b], PackedRegs)
        /\ Within([overflow |-> a, inexact |-> b, result |-> c], PackedRegs)
        /\ Within([result |-> a, underflow |-> b, inexact |-> c], PackedRegs)
        /\ Within([inexact |-> a, result |-> b], PackedRegs)
  BY DEF Within, PackedRegs
<1>2. Within(RoundintSpecial(q), PackedRegs)
  BY <1>1, Zenon DEF RoundintSpecial
<1>3. Within(RoundintSubunit(q, r), PackedRegs)
  BY <1>1, Zenon DEF RoundintSubunit
<1>4. Within(FistInvalid(q), PackedRegs)
  BY <1>1, Zenon DEF FistInvalid
<1>5. Within(RoundPackFst(q, r), PackedRegs)
  BY <1>1, Zenon DEF RoundPackFst
<1>6. Within(PackFstSpecial(q), PackedRegs)
  BY <1>1, Zenon DEF PackFstSpecial
<1>7. Within(PackDivSqrt(q, r), PackedRegs)
  BY <1>1, Zenon DEF PackDivSqrt
<1>. QED
  BY <1>1, <1>2, <1>3, <1>4, <1>5, <1>6, <1>7, NothingWithin, Zenon DEF PackLane

-----------------------------------------------------------------------------
\* The registers of the prepare lane.
Prepared == {"count", "restore", "work", "guard", "sticky", "round", "format_exp", "special",
  "result", "direct", "invalid", "shift_right", "shift_left", "zero", "input_sign", "small",
  "add_sign", "small_sign", "add_exp", "limb1", "mul_exp", "divisor", "bits", "div_exp",
  "remainder", "source", "div_sign"}

\* The prepare lane writes no more than those.
LEMMA PrepareWrites ==
  ASSUME NEW q, NEW u
  PROVE  Within(PrepareLane(q, r, u), Prepared)
<1>1. \A a, b, c, d, e :
        /\ Within([count |-> a, restore |-> b, work |-> c, guard |-> d, sticky |-> e], Prepared)
        /\ Within([work |-> a, count |-> b, guard |-> c, sticky |-> d], Prepared)
        /\ Within([format_exp |-> a, special |-> b, round |-> c], Prepared)
        /\ Within([result |-> a], Prepared) /\ Within([direct |-> TRUE], Prepared)
        /\ Within([result |-> a, work |-> b, direct |-> c, format_exp |-> d], Prepared)
        /\ Within([invalid |-> a, result |-> b], Prepared)
        /\ Within([guard |-> a, round |-> b, sticky |-> c], Prepared)
        /\ Within([count |-> a, limb1 |-> b, mul_exp |-> c], Prepared)
        /\ Within([divisor |-> a, bits |-> b, count |-> c, div_exp |-> d, remainder |-> e],
                  Prepared)
  BY DEF Within, Prepared
<1>2. Within(PrepareFist(q, r), Prepared)
  BY <1>1, Zenon DEF PrepareFist
<1>3. Within(PrepareFst(q), Prepared)
  BY <1>1, MergeWithin, Zenon DEF PrepareFst
<1>4. Within(PrepareFld(q), Prepared)
  BY <1>1, MergeWithin, Zenon DEF PrepareFld, Direct
<1>5. Within(PrepareFild(q), Prepared)
  <2>1. Within(LoadFild(q), Prepared)
    BY DEF LoadFild, Within, Prepared
  <2>. QED
    BY <1>1, <2>1, MergeWithin, Zenon DEF PrepareFild
<1>6. Within(PrepareAddSub(q), Prepared)
  BY DEF PrepareAddSub, Within, Prepared
<1>7. Within(PrepareDiv(q), Prepared)
  BY <1>1, Zenon DEF PrepareDiv
<1>8. Within(PrepareSqrt(q), Prepared)
  BY DEF PrepareSqrt, Within, Prepared
<1>. QED
  BY <1>1, <1>2, <1>3, <1>4, <1>5, <1>6, <1>7, <1>8, NothingWithin, Zenon DEF PrepareLane

-----------------------------------------------------------------------------
\* The state lane counts an exponent or reloads the count.
LEMMA StateWrites ==
  ASSUME NEW q, NEW u
  PROVE  Within(StateLane(q, r, u), {"count", "format_exp"})
  BY DEF Within, StateLane, Nothing

\* The registers of the engines of the arithmetic.
Iterated == {"small", "bits", "remainder", "source", "limb2"}

\* The engines of the arithmetic write no more than those.
LEMMA EngineWrites ==
  ASSUME NEW q, NEW u
  PROVE  Within(EngineLane(q, r, u), Iterated)
<1>1. \A a, b : /\ Within([small |-> a], Iterated) /\ Within([limb2 |-> a], Iterated)
                /\ Within([source |-> a], Iterated)
                /\ Within([bits |-> a, remainder |-> b], Iterated)
  BY DEF Within, Iterated
<1>2. Within(AlignSmall(r, u), Iterated)
  BY <1>1, NothingWithin, Zenon DEF AlignSmall
<1>3. \A s, t : Within(Restoring(r, s, t), Iterated)
  BY <1>1, Zenon DEF Restoring
<1>4. Within(SqrtIterate(r), Iterated)
  BY <1>1, <1>3, MergeWithin, Zenon DEF SqrtIterate
<1>. QED
  BY <1>1, <1>2, <1>3, <1>4, NothingWithin, Zenon DEF EngineLane

-----------------------------------------------------------------------------
\* The registers of the classification of a transcendental, and that lane.
Angled == AnswerRegs \cup {"iteration", "special", "trans_sign", "magnitude", "trans_exp",
  "trans_count", "shift_x", "bitpos", "bitvalid", "first", "neg", "quadrant"}
ClassifyTrans(q) == [iteration |-> 0] ++ IF q.atan2 THEN ClassifyAtan2(q) ELSE ClassifyAngle(q)

\* The classification of a transcendental writes no more than those.
LEMMA AngleWrites ==
  ASSUME NEW q
  PROVE  Within(ClassifyTrans(q), Angled)
<1>1. AnswerRegs \subseteq Angled
  BY DEF Angled
<1>2. \A a, b, c, d, e, f, g :
        /\ Within([iteration |-> a], Angled)
        /\ Within([inexact |-> a, special |-> b, direct |-> c, trans_sign |-> d,
                   magnitude |-> e, trans_exp |-> f], Angled)
        /\ Within([direct |-> a, trans_count |-> b, shift_x |-> c], Angled)
        /\ Within([direct |-> a, bitpos |-> b, bitvalid |-> c, first |-> d, neg |-> e,
                   quadrant |-> f, trans_count |-> g], Angled)
  BY DEF Within, Angled, AnswerRegs
<1>3. \A m : Within(ConstantAngle(q, m), Angled)
  BY <1>2, Zenon DEF ConstantAngle
<1>4. Within(ClassifyAtan2(q), Angled)
  BY <1>1, <1>2, <1>3, AnswersWithin, DirectWithin, Zenon DEF ClassifyAtan2
<1>5. Within(ClassifyAngle(q), Angled)
  <2>1. \A v : Within([result |-> v] ++ IF q.tangent THEN [aux |-> One] ELSE Nothing, Angled)
    BY <1>1, AnswersWithin, NothingWithin, MergeWithin, Zenon
  <2>. QED
    BY <1>1, <1>2, <2>1, AnswersWithin, DirectWithin, MergeWithin, Zenon DEF ClassifyAngle
<1>. QED
  BY <1>2, <1>4, <1>5, MergeWithin, Zenon DEF ClassifyTrans

-----------------------------------------------------------------------------
\* The registers of the engines of a transcendental: the next turn, the reduction, the rest.
Advanced == {"bank", "iteration", "shift_bits", "shift_word"}
Ranged == {"range_limb", "range_shift", "nonzero", "mode", "carry", "neg", "quadrant", "first",
  "bitvalid", "bitpos", "greater"}
Driven == Advanced \cup Ranged \cup {"load_index", "x_sign", "y_sign", "z_sign", "limb",
  "trans_count", "sub", "output_base", "output_mode", "lhs", "rhs_low", "abs_base", "trans_exp",
  "inexact", "rounding_aux", "trans_sign", "magnitude"}

\* The reduction of an angle writes no more than its registers.
LEMMA RangeWrites ==
  ASSUME NEW q, NEW mode, NEW carry
  PROVE  Within(BeginRange(r, mode, carry), Ranged) /\ Within(RangeStep(q, r), Ranged)
<1>1. \A a, b, c, d, e :
        /\ Within([range_limb |-> a, range_shift |-> b, nonzero |-> c, mode |-> d, carry |-> e],
                  Ranged)
        /\ Within([range_limb |-> a, carry |-> b, range_shift |-> c, nonzero |-> d], Ranged)
        /\ Within([neg |-> a, quadrant |-> b, first |-> c], Ranged)
        /\ Within([neg |-> a, quadrant |-> b], Ranged) /\ Within([neg |-> a], Ranged)
        /\ Within([bitvalid |-> a], Ranged) /\ Within([bitpos |-> a], Ranged)
        /\ Within([greater |-> a], Ranged)
  BY DEF Within, Ranged
<1>2. \A sum : Within(EndOfPass(r, sum), Ranged)
  BY <1>1, MergeWithin, Zenon DEF EndOfPass
<1>3. Within(RangeStep(q, r), Ranged)
  <2>1. Within(IF LastLimb(r) THEN EndOfPass(r, RangeSum(q, r)) ELSE Nothing, Ranged)
    BY <1>2, NothingWithin, Zenon
  <2>2. \A a, b, c, d :
          Within([range_limb |-> a, carry |-> b, range_shift |-> c, nonzero |-> d]
                 ++ IF LastLimb(r) THEN EndOfPass(r, RangeSum(q, r)) ELSE Nothing, Ranged)
    BY <1>1, <2>1, MergeWithin, Zenon
  <2>. QED
    BY <2>2, Zenon DEF RangeStep
<1>. QED
  BY <1>1, <1>3, Zenon DEF BeginRange

\* The engines of a transcendental write no more than those.
LEMMA TurnWrites ==
  ASSUME NEW q, NEW u
  PROVE  Within(TransEngine(q, r, u), Driven)
<1>1. \A a, b, c, d, e :
        /\ Within([load_index |-> a, bank |-> b, x_sign |-> c, y_sign |-> d, z_sign |-> e],
                  Driven)
        /\ Within([limb |-> a], Driven)
        /\ Within([trans_count |-> a, iteration |-> b, shift_word |-> c, shift_bits |-> d], Driven)
        /\ Within([sub |-> a, carry |-> b, limb |-> c], Driven)
        /\ Within([carry |-> a, limb |-> b], Driven)
        /\ Within([bank |-> a, iteration |-> b, shift_bits |-> c, shift_word |-> d], Driven)
        /\ Within([output_base |-> a, output_mode |-> b, carry |-> c, limb |-> d], Driven)
        /\ Within([lhs |-> a, rhs_low |-> b], Driven)
        /\ Within([abs_base |-> a, trans_exp |-> b, inexact |-> c], Driven)
        /\ Within([abs_base |-> a, trans_exp |-> b, rounding_aux |-> c], Driven)
        /\ Within([trans_sign |-> a, carry |-> b, limb |-> c], Driven)
        /\ Within([magnitude |-> a, carry |-> b, limb |-> c], Driven)
  BY DEF Within, Driven, Advanced, Ranged
<1>2. \A mode, carry : Within(BeginRange(r, mode, carry), Driven) /\ Within(RangeStep(q, r), Driven)
  BY RangeWrites DEF Within, Driven
<1>3. Within(CordicNext(r), Driven)
  BY <1>1, Zenon DEF CordicNext
<1>4. \A base, mode, carry : Within(Output(base, mode, carry), Driven)
  BY <1>1, Zenon DEF Output
<1>5. Within(AngleOutput(q), Driven) /\ Within(CosineOutput(r), Driven)
      /\ Within(SineOutput(q, r), Driven)
  BY <1>4, Zenon DEF AngleOutput, CosineOutput, SineOutput, Signed
<1>6. Within(AbsStep(r), Driven)
  BY <1>1, Zenon DEF AbsStep
<1>. QED
  BY <1>1, <1>2, <1>3, <1>5, <1>6, NothingWithin, Zenon DEF TransEngine

\* The one engine of a rotation that may count a word.
LEMMA NextWrites ==
  ASSUME NEW q, NEW u, u.engine = "CORDIC_NEXT"
  PROVE  Within(TransEngine(q, r, u), Advanced)
<1>1. TransEngine(q, r, u) = CordicNext(r)
  BY Zenon DEF TransEngine
<1>2. Within(CordicNext(r), Advanced)
  BY DEF CordicNext, Within, Advanced
<1>. QED
  BY <1>1, <1>2

-----------------------------------------------------------------------------
\* The registers beside the scratch memory.
Scratched == {"low_fill", "lhs", "rhs_low", "high_fill", "load_index", "limb", "carry", "x_sign",
  "y_sign", "z_sign"}

\* An access of the scratch memory writes no more than those.
LEMMA ScratchWrites ==
  ASSUME NEW q, NEW u
  PROVE  Within(ScratchRegisters(q, r, u), Scratched)
<1>1. \A a, b, c :
        /\ Within([low_fill |-> a], Scratched) /\ Within([load_index |-> a], Scratched)
        /\ Within([lhs |-> a, rhs_low |-> b, high_fill |-> c], Scratched)
        /\ Within([limb |-> a], Scratched) /\ Within([carry |-> a], Scratched)
        /\ Within([x_sign |-> a], Scratched) /\ Within([y_sign |-> a], Scratched)
        /\ Within([z_sign |-> a], Scratched)
  BY DEF Within, Scratched
<1>2. \A a, b : Within([limb |-> a] ++ [carry |-> b], Scratched)
  BY <1>1, MergeWithin, Zenon
<1>3. \A a, b, c : /\ Within([limb |-> a] ++ [carry |-> b] ++ [x_sign |-> c], Scratched)
                   /\ Within([limb |-> a] ++ [carry |-> b] ++ [y_sign |-> c], Scratched)
                   /\ Within([limb |-> a] ++ [carry |-> b] ++ [z_sign |-> c], Scratched)
  BY <1>1, <1>2, MergeWithin, Zenon
<1>. QED
  BY <1>1, <1>2, <1>3, NothingWithin, Zenon DEF ScratchRegisters

\* The words read and the memory itself.
Memorized == {"data_a", "data_b", "atan", "mem"}

\* The memory lane writes no more than those.
LEMMA MemoryWrites ==
  ASSUME NEW q, NEW u
  PROVE  Within(MemoryLane(q, r, u), Memorized)
<1>1. \A a, b, c, d : Within([data_a |-> a, data_b |-> b, atan |-> c, mem |-> d], Memorized)
  BY DEF Within, Memorized
<1>. QED
  BY <1>1, Zenon DEF MemoryLane

\* The normalisation of a transcendental writes its magnitude and exponent.
LEMMA TransNormalizeWrites ==
  Within(TransNormalize(r), {"magnitude", "trans_exp"})
  BY DEF Within, TransNormalize, Nothing

\* The pack of a transcendental writes the two results.
LEMMA PackTransWrites ==
  ASSUME NEW q
  PROVE  Within(PackTrans(q, r), {"aux", "result"})
  BY DEF Within, PackTrans

-----------------------------------------------------------------------------
(* The lanes of a word *)

\* The field of a word that a lane obeys, where it is one of the major ones.
Majors == (5..10) \cup {12, 13, 16, 17, 18}
Major(i) == CASE i \in {5, 12} -> "classify"
              [] i \in {6, 17} -> "alu_route"
              [] i \in {7, 18} -> "pack"
              [] i = 8 -> "prepare"
              [] i \in {9, 16} -> "state"
              [] OTHER -> "engine"

\* The registers a lane may write, whatever the word.
LaneRegs(i) == CASE i = 1 -> {"commit"}
                 [] i = 2 -> {"work"}
                 [] i = 3 -> {"count"}
                 [] i = 4 -> {"guard", "round", "sticky"}
                 [] i = 5 -> Classified
                 [] i = 6 -> Rounded
                 [] i = 7 -> PackedRegs
                 [] i = 8 -> Prepared
                 [] i = 9 -> {"count", "format_exp"}
                 [] i = 10 -> Iterated
                 [] i = 11 -> {"trans_count"}
                 [] i = 12 -> Angled
                 [] i = 13 -> Driven
                 [] i = 14 -> Scratched
                 [] i = 15 -> Memorized
                 [] i = 16 -> {"magnitude", "trans_exp"}
                 [] i = 17 -> Rounded
                 [] OTHER -> {"aux", "result"}

\* The lanes that are no operators of their own.
Retiring(u) == IF u.flow = "FINISH" THEN [commit |-> u.commit] ELSE Nothing
Counting(q, u) == IF u.count = "DEC" /\ q.op = "TRANS" THEN [trans_count |-> r.trans_count - 1]
                  ELSE Nothing
Angling(q, u) == IF u.classify # "TRANS" THEN Nothing ELSE ClassifyTrans(q)
Normalizing(u) == IF u.state = "TRANS_NORMALIZE" THEN TransNormalize(r) ELSE Nothing
Cutting(q, u) == IF u.alu_route = "PREP_ROUND_TRANS"
                 THEN Split(q, r.magnitude, F - P) ++ [round |-> FALSE] ELSE Nothing
Packing(q, u) == IF u.pack = "PACK_TRANS" THEN PackTrans(q, r) ELSE Nothing

\* The lanes of a word, one by one.
LEMMA LanesAre ==
  ASSUME NEW q, NEW u
  PROVE  LET s == Lanes(q, u)
         IN  /\ DOMAIN s = 1..18
             /\ s[1] = Retiring(u)
             /\ s[2] = ShiftLane(q, r, u) /\ s[3] = CountLane(q, r, u)
             /\ s[4] = GrsLane(q, r, u) /\ s[5] = ClassifyLane(q, r, u)
             /\ s[6] = AluLane(q, r, u) /\ s[7] = PackLane(q, r, u)
             /\ s[8] = PrepareLane(q, r, u) /\ s[9] = StateLane(q, r, u)
             /\ s[10] = EngineLane(q, r, u) /\ s[11] = Counting(q, u)
             /\ s[12] = Angling(q, u) /\ s[13] = TransEngine(q, r, u)
             /\ s[14] = ScratchRegisters(q, r, u) /\ s[15] = MemoryLane(q, r, u)
             /\ s[16] = Normalizing(u) /\ s[17] = Cutting(q, u) /\ s[18] = Packing(q, u)
<1>1. Lanes(q, u) =
        << Retiring(u), ShiftLane(q, r, u), CountLane(q, r, u), GrsLane(q, r, u),
           ClassifyLane(q, r, u), AluLane(q, r, u), PackLane(q, r, u), PrepareLane(q, r, u),
           StateLane(q, r, u), EngineLane(q, r, u) >>
        \o << Counting(q, u), Angling(q, u), TransEngine(q, r, u), ScratchRegisters(q, r, u),
              MemoryLane(q, r, u), Normalizing(u), Cutting(q, u), Packing(q, u) >>
  BY Zenon DEF Lanes, TransLanes, Retiring, Counting, Angling, Normalizing, Cutting, Packing,
               ClassifyTrans
<1>. QED
  BY <1>1

\* What a lane writes is among its registers.
LEMMA LaneWrites ==
  ASSUME NEW q, NEW u, NEW i \in 1..18
  PROVE  Within(Lanes(q, u)[i], LaneRegs(i))
<1> DEFINE s == Lanes(q, u)
<1>1. Within(Retiring(u), {"commit"}) /\ Within(Counting(q, u), {"trans_count"})
  BY DEF Within, Nothing, Retiring, Counting
<1>2. Within(ShiftLane(q, r, u), {"work"}) /\ Within(CountLane(q, r, u), {"count"})
      /\ Within(GrsLane(q, r, u), {"guard", "round", "sticky"})
  BY DEF Within, Nothing, ShiftLane, CountLane, GrsLane
<1>3. Within(Angling(q, u), Angled)
  BY AngleWrites, NothingWithin, Zenon DEF Angling
<1>4. Within(Normalizing(u), {"magnitude", "trans_exp"}) /\ Within(Packing(q, u), {"aux", "result"})
  BY TransNormalizeWrites, PackTransWrites, NothingWithin, Zenon DEF Normalizing, Packing
<1>5. Within(Cutting(q, u), Rounded)
  <2>1. Within([round |-> FALSE], Rounded) /\ {"work", "guard", "sticky"} \subseteq Rounded
    BY DEF Within, Rounded
  <2>. QED
    BY <2>1, SplitWrites, MergeWithin, NothingWithin, Zenon DEF Cutting
<1>6. /\ Within(s[1], {"commit"}) /\ Within(s[2], {"work"}) /\ Within(s[3], {"count"})
      /\ Within(s[4], {"guard", "round", "sticky"}) /\ Within(s[11], {"trans_count"})
      /\ Within(s[12], Angled) /\ Within(s[16], {"magnitude", "trans_exp"})
      /\ Within(s[17], Rounded) /\ Within(s[18], {"aux", "result"})
  BY <1>1, <1>2, <1>3, <1>4, <1>5, LanesAre, Zenon
<1>7. /\ Within(s[5], Classified) /\ Within(s[6], Rounded) /\ Within(s[7], PackedRegs)
      /\ Within(s[8], Prepared)
  <2>1. /\ Within(ClassifyLane(q, r, u), Classified) /\ Within(AluLane(q, r, u), Rounded)
        /\ Within(PackLane(q, r, u), PackedRegs) /\ Within(PrepareLane(q, r, u), Prepared)
    BY ClassifyWrites, AluWrites, PackWrites, PrepareWrites
  <2>. QED
    BY <2>1, LanesAre, Zenon
<1>8. /\ Within(s[9], {"count", "format_exp"}) /\ Within(s[10], Iterated)
      /\ Within(s[13], Driven) /\ Within(s[14], Scratched) /\ Within(s[15], Memorized)
  <2>1. /\ Within(StateLane(q, r, u), {"count", "format_exp"})
        /\ Within(EngineLane(q, r, u), Iterated) /\ Within(TransEngine(q, r, u), Driven)
        /\ Within(ScratchRegisters(q, r, u), Scratched)
        /\ Within(MemoryLane(q, r, u), Memorized)
    BY StateWrites, EngineWrites, TurnWrites, ScratchWrites, MemoryWrites
  <2>. QED
    BY <2>1, LanesAre, Zenon
<1>. HIDE DEF s
<1>9. Within(s[i], LaneRegs(i))
  BY <1>6, <1>7, <1>8 DEF LaneRegs
<1>. QED
  BY <1>9 DEF s

\* A lane whose field holds writes nothing.
LEMMA LaneHolds ==
  ASSUME NEW q, NEW u, NEW i \in Majors, u[Major(i)] = "HOLD"
  PROVE  Lanes(q, u)[i] = Nothing
<1>1. /\ u.classify = "HOLD" => ClassifyLane(q, r, u) = Nothing /\ Angling(q, u) = Nothing
      /\ u.alu_route = "HOLD" => AluLane(q, r, u) = Nothing /\ Cutting(q, u) = Nothing
      /\ u.pack = "HOLD" => PackLane(q, r, u) = Nothing /\ Packing(q, u) = Nothing
      /\ u.prepare = "HOLD" => PrepareLane(q, r, u) = Nothing
      /\ u.state = "HOLD" => StateLane(q, r, u) = Nothing /\ Normalizing(u) = Nothing
  BY SMT DEF ClassifyLane, Angling, AluLane, Cutting, PackLane, Packing, PrepareLane, StateLane,
         Normalizing
<1>2. u.engine = "HOLD" => EngineLane(q, r, u) = Nothing /\ TransEngine(q, r, u) = Nothing
  BY SMT DEF EngineLane, TransEngine
<1>. QED
  BY <1>1, <1>2, LanesAre DEF Majors, Major

\* An engine of the arithmetic turns no vector, so that of two lanes of one field only one writes.
LEMMA ArithmeticEngines ==
  ASSUME NEW q, NEW u,
         u.engine \in {"HOLD", "MUL_ACCUMULATE", "DIV_ITERATE", "SQRT_ITERATE", "ADDSUB_ALIGN"}
  PROVE  TransEngine(q, r, u) = Nothing
<1>1. CASE u.engine = "ADDSUB_ALIGN"
  BY <1>1, Zenon DEF TransEngine
<1>2. CASE u.engine = "DIV_ITERATE"
  BY <1>2, Zenon DEF TransEngine
<1>3. CASE u.engine = "SQRT_ITERATE"
  BY <1>3, Zenon DEF TransEngine
<1>4. CASE u.engine = "MUL_ACCUMULATE"
  BY <1>4, Zenon DEF TransEngine
<1>5. CASE u.engine = "HOLD"
  BY <1>5, Zenon DEF TransEngine
<1>. QED
  BY <1>1, <1>2, <1>3, <1>4, <1>5

LEMMA LanesOfOneField ==
  ASSUME NEW q, NEW u, NEW i \in Majors, NEW j \in Majors, i < j, Major(i) = Major(j)
  PROVE  Lanes(q, u)[i] = Nothing \/ Lanes(q, u)[j] = Nothing
<1>1. /\ ClassifyLane(q, r, u) = Nothing \/ Angling(q, u) = Nothing
      /\ AluLane(q, r, u) = Nothing \/ Cutting(q, u) = Nothing
      /\ PackLane(q, r, u) = Nothing \/ Packing(q, u) = Nothing
      /\ StateLane(q, r, u) = Nothing \/ Normalizing(u) = Nothing
  BY SMT DEF ClassifyLane, Angling, AluLane, Cutting, PackLane, Packing, StateLane, Normalizing
<1>2. EngineLane(q, r, u) = Nothing \/ TransEngine(q, r, u) = Nothing
  <2>1. CASE u.engine \in {"MUL_ACCUMULATE", "DIV_ITERATE", "SQRT_ITERATE", "ADDSUB_ALIGN"}
    BY <2>1, ArithmeticEngines
  <2>2. CASE u.engine \notin {"ADDSUB_ALIGN", "DIV_ITERATE", "SQRT_ITERATE", "MUL_ACCUMULATE"}
    BY <2>2, SMT DEF EngineLane
  <2>. QED
    BY <2>1, <2>2
<1>3. <<i, j>> \in {<<5, 12>>, <<6, 17>>, <<7, 18>>, <<9, 16>>, <<10, 13>>}
  BY DEF Majors, Major
<1>. QED
  BY <1>1, <1>2, <1>3, LanesAre

\* The major fields of a word that ask for something.
Used(u) == {lane \in MajorLanes : u[lane] # "HOLD"}

\* They are counted.
LEMMA UsedIsFinite ==
  ASSUME NEW u
  PROVE  IsFiniteSet(Used(u)) /\ Cardinality(Used(u)) \in Nat
<1>1. \A x, y, z, v, w, t : IsFiniteSet({x, y, z, v, w, t})
  <2>. TAKE x, y, z, v, w, t
  <2>1. IsFiniteSet({x} \cup {y} \cup {z} \cup {v} \cup {w} \cup {t})
    BY FS_Singleton, FS_Union
  <2>2. {x, y, z, v, w, t} = {x} \cup {y} \cup {z} \cup {v} \cup {w} \cup {t}
    OBVIOUS
  <2>. QED
    BY <2>1, <2>2
<1>2. IsFiniteSet(MajorLanes)
  BY <1>1, Zenon DEF MajorLanes
<1>3. Used(u) \subseteq MajorLanes
  BY DEF Used
<1>. QED
  BY <1>2, <1>3, FS_Subset, FS_CardinalityType

\* Two different fields are two.
LEMMA PairIsTwo ==
  ASSUME NEW f, NEW g, f # g
  PROVE  IsFiniteSet({f, g}) /\ Cardinality({f, g}) = 2
<1>1. IsFiniteSet({f}) /\ Cardinality({f}) = 1
  BY FS_Singleton
<1>2. {f, g} = {f} \cup {g} /\ g \notin {f}
  OBVIOUS
<1>. QED
  BY <1>1, <1>2, FS_AddElement

\* Two fields of a word are in use at most, and then they classify and prepare a sum or a product.
LEMMA TwoMajors ==
  ASSUME NEW u, Compatible(u), NEW f \in MajorLanes, NEW g \in MajorLanes, f # g,
         u[f] # "HOLD", u[g] # "HOLD"
  PROVE  /\ {f, g} = {"classify", "prepare"}
         /\ u.classify = u.prepare /\ u.classify \in {"ADDSUB", "MUL"}
<1>1. \/ Cardinality(Used(u)) <= 1
      \/ /\ u.classify = u.prepare /\ u.classify \in {"ADDSUB", "MUL"}
         /\ Cardinality(Used(u)) = 2
  BY DEF Compatible, Used
<1>2. {f, g} \subseteq Used(u)
  BY DEF Used
<1>3. Cardinality({f, g}) <= Cardinality(Used(u))
  BY <1>2, UsedIsFinite, FS_Subset
<1>0. Cardinality({f, g}) = 2 /\ Cardinality(Used(u)) \in Nat /\ IsFiniteSet(Used(u))
  BY PairIsTwo, UsedIsFinite, Zenon
<1>4. /\ u.classify = u.prepare /\ u.classify \in {"ADDSUB", "MUL"}
      /\ Cardinality(Used(u)) = 2
  BY <1>0, <1>1, <1>3
<1>5. Used(u) = {f, g}
  BY <1>0, <1>2, <1>4, FS_Subset
<1>6. "classify" \in Used(u) /\ "prepare" \in Used(u)
  BY <1>4 DEF MajorLanes, Used
<1>. QED
  BY <1>4, <1>5, <1>6

\* The one pair: what a sum or a product classifies and what it prepares are apart.
LEMMA PairApart ==
  ASSUME NEW q, NEW u, u.classify = u.prepare, u.classify \in {"ADDSUB", "MUL"}
  PROVE  DOMAIN ClassifyLane(q, r, u) \cap DOMAIN PrepareLane(q, r, u) = {}
<1> DEFINE answers == {"unordered", "less", "equal", "mul_sign", "direct", "result", "invalid",
                       "divide_by_zero", "range_incomplete", "aux", "inexact"}
<1>1. Within(ClassifyAddSub(q), answers) /\ Within(ClassifyMul(q), answers)
  <2>1. AnswerRegs \subseteq answers
    BY DEF AnswerRegs
  <2>2. \A a, b, c, d :
          /\ Within([mul_sign |-> a], answers)
          /\ Within([unordered |-> a, less |-> b, equal |-> c, invalid |-> d], answers)
    BY DEF Within
  <2>. HIDE DEF answers
  <2>3. Within(ClassifyAddSub(q), answers)
    BY <2>1, <2>2, AnswersWithin, DirectWithin, Zenon DEF ClassifyAddSub
  <2>4. Within(ClassifyMul(q), answers)
    BY <2>1, <2>2, AnswersWithin, DirectWithin, MergeWithin, Zenon DEF ClassifyMul
  <2>. QED
    BY <2>3, <2>4
<1> DEFINE operands == {"work", "small", "count", "add_sign", "small_sign", "add_exp", "limb1",
                        "mul_exp"}
<1>2. Within(ClassifyLane(q, r, u), answers)
  <2>1. ClassifyLane(q, r, u) \in {ClassifyAddSub(q), ClassifyMul(q)}
    BY SMT DEF ClassifyLane
  <2>. QED
    BY <1>1, <2>1
<1>3. Within(PrepareLane(q, r, u), operands)
  <2>1. Within(PrepareAddSub(q), operands)
    BY DEF Within, PrepareAddSub
  <2>2. \A a, b, c : Within([count |-> a, limb1 |-> b, mul_exp |-> c], operands)
    BY DEF Within
  <2>. HIDE DEF operands
  <2>3. CASE u.prepare = "ADDSUB"
    <3>1. PrepareLane(q, r, u) = PrepareAddSub(q)
      BY <2>3, Zenon DEF PrepareLane
    <3>. QED
      BY <2>1, <3>1
  <2>4. CASE u.prepare = "MUL"
    BY <2>2, <2>4, Zenon DEF PrepareLane
  <2>. QED
    BY <2>3, <2>4
<1>. QED
  BY <1>2, <1>3 DEF Within

\* The lanes beside the major ones: the retirement, the shift, the count, the rounding bits, the
\* count of turns, the scratch registers and the scratch memory.
Sides == {1, 2, 3, 4, 11, 14, 15}

\* What a side lane asks of its word when it writes at all.
LEMMA SideAsks ==
  ASSUME NEW q, NEW u
  PROVE  LET s == Lanes(q, u)
         IN  /\ s[2] # Nothing \/ s[4] # Nothing => u.shift_route \in {"LEFT", "RIGHT"}
             /\ s[3] # Nothing \/ s[11] # Nothing => u.count = "DEC"
             /\ s[14] # Nothing => u.scratch_read # "HOLD" \/ u.scratch_write # "HOLD"
<1>1. /\ ShiftLane(q, r, u) # Nothing => u.shift_route \in {"LEFT", "RIGHT"}
      /\ GrsLane(q, r, u) # Nothing => u.shift_route \in {"LEFT", "RIGHT"}
      /\ CountLane(q, r, u) # Nothing => u.count = "DEC"
      /\ Counting(q, u) # Nothing => u.count = "DEC"
  BY SMT DEF ShiftLane, GrsLane, CountLane, Counting
<1>2. u.scratch_read = "HOLD" /\ u.scratch_write = "HOLD" => ScratchRegisters(q, r, u) = Nothing
  BY SMT DEF ScratchRegisters
<1>. QED
  BY <1>1, <1>2, LanesAre, Zenon

\* The registers of the side lanes are beside those of most major lanes.
LEMMA SideRegs ==
  /\ \A j \in Majors : LaneRegs(1) \cap LaneRegs(j) = {} /\ LaneRegs(15) \cap LaneRegs(j) = {}
  /\ \A i \in {2, 4}, j \in {7, 9, 10, 13, 16, 18} : LaneRegs(i) \cap LaneRegs(j) = {}
  /\ \A j \in {6, 17, 7, 10, 13, 18} : LaneRegs(3) \cap LaneRegs(j) = {}
  /\ \A j \in {6, 17, 7, 10, 18} : LaneRegs(11) \cap LaneRegs(j) = {}
  /\ \A j \in Majors \ {10, 13} : LaneRegs(14) \cap LaneRegs(j) = {}
  /\ \A i, j \in Sides : i # j => LaneRegs(i) \cap LaneRegs(j) = {}
<1> USE DEF LaneRegs, Classified, Rounded, PackedRegs, Prepared, Iterated, Angled, Driven, Advanced,
        Ranged, Scratched, Memorized, AnswerRegs
<1>1. \A j \in Majors : LaneRegs(1) \cap LaneRegs(j) = {}
  BY DEF Majors
<1>2. \A j \in Majors : LaneRegs(15) \cap LaneRegs(j) = {}
  BY DEF Majors
<1>3. \A i \in {2, 4}, j \in {7, 9, 10, 13, 16, 18} : LaneRegs(i) \cap LaneRegs(j) = {}
  OBVIOUS
<1>4. \A j \in {6, 17, 7, 10, 13, 18} : LaneRegs(3) \cap LaneRegs(j) = {}
  OBVIOUS
<1>5. \A j \in {6, 17, 7, 10, 18} : LaneRegs(11) \cap LaneRegs(j) = {}
  OBVIOUS
<1>6. \A j \in Majors \ {10, 13} : LaneRegs(14) \cap LaneRegs(j) = {}
  BY DEF Majors
<1>7. \A i, j \in Sides : i # j => LaneRegs(i) \cap LaneRegs(j) = {}
  <2>1. ASSUME NEW i \in Sides, NEW j \in Sides, i < j PROVE LaneRegs(i) \cap LaneRegs(j) = {}
    <3>1. CASE i = 1
      BY <2>1, <3>1 DEF Sides
    <3>2. CASE i = 2
      BY <2>1, <3>2 DEF Sides
    <3>3. CASE i = 3
      BY <2>1, <3>3 DEF Sides
    <3>4. CASE i = 4
      BY <2>1, <3>4 DEF Sides
    <3>5. CASE i = 11
      BY <2>1, <3>5 DEF Sides
    <3>6. CASE i = 14
      BY <2>1, <3>6 DEF Sides
    <3>. QED
      BY <2>1, <3>1, <3>2, <3>3, <3>4, <3>5, <3>6 DEF Sides
  <2>2. Sides \subseteq Int
    BY DEF Sides
  <2>. HIDE DEF LaneRegs
  <2>. QED
    BY <2>1, <2>2
<1>. HIDE DEF LaneRegs
<1>. QED
  BY <1>1, <1>2, <1>3, <1>4, <1>5, <1>6, <1>7

\* Lanes within sets of registers that are apart write different registers.
LEMMA ApartWithin ==
  ASSUME NEW f, NEW g, NEW W, NEW V, Within(f, W), Within(g, V), W \cap V = {}
  PROVE  DOMAIN f \cap DOMAIN g = {}
  BY DEF Within

\* A lane that writes nothing meets no other.
LEMMA NothingApart ==
  ASSUME NEW f, NEW g, f = Nothing \/ g = Nothing
  PROVE  DOMAIN f \cap DOMAIN g = {}
  BY DEF Nothing

\* A side lane and a major lane of one word.
LEMMA SideAndMajor ==
  ASSUME NEW q, NEW u, Compatible(u), Spaced(u), NEW i \in Sides, NEW j \in Majors
  PROVE  DOMAIN Lanes(q, u)[i] \cap DOMAIN Lanes(q, u)[j] = {}
<1> DEFINE s == Lanes(q, u)
<1>. SUFFICES DOMAIN s[i] \cap DOMAIN s[j] = {}
  OBVIOUS
<1>1. i \in 1..18 /\ j \in 1..18
  BY DEF Sides, Majors
<1>2. Within(s[i], LaneRegs(i)) /\ Within(s[j], LaneRegs(j))
  BY <1>1, LaneWrites
<1>3. LaneRegs(i) \cap LaneRegs(j) = {} => DOMAIN s[i] \cap DOMAIN s[j] = {}
  BY <1>2, ApartWithin, Zenon
<1>4. s[i] = Nothing \/ s[j] = Nothing => DOMAIN s[i] \cap DOMAIN s[j] = {}
  BY NothingApart, Zenon
<1>5. u[Major(j)] = "HOLD" => s[j] = Nothing
  BY LaneHolds, Zenon
<1>6. /\ s[2] # Nothing \/ s[4] # Nothing => u.shift_route \in {"LEFT", "RIGHT"}
      /\ s[3] # Nothing \/ s[11] # Nothing => u.count = "DEC"
      /\ s[14] # Nothing => u.scratch_read # "HOLD" \/ u.scratch_write # "HOLD"
  BY SideAsks, Zenon
<1>7. s[13] = TransEngine(q, r, u)
  BY LanesAre, Zenon
<1>. HIDE DEF s
<1>8. CASE i \in {1, 15}
  BY <1>3, <1>8, SideRegs
<1>9. CASE i \in {2, 4} /\ s[i] # Nothing
  <2>1. u.prepare = "HOLD" /\ u.classify = "HOLD" /\ u.alu_route = "HOLD"
    BY <1>6, <1>9 DEF Compatible, Spaced
  <2>2. CASE j \in {5, 6, 8, 12, 17}
    BY <1>4, <1>5, <2>1, <2>2 DEF Major
  <2>3. CASE j \in {7, 9, 10, 13, 16, 18}
    BY <1>3, <1>9, <2>3, SideRegs
  <2>. QED
    BY <2>2, <2>3 DEF Majors
<1>10. CASE i \in {3, 11} /\ s[i] # Nothing
  <2>1. u.prepare = "HOLD" /\ u.classify = "HOLD" /\ u.state = "HOLD"
    BY <1>6, <1>10 DEF Compatible, Spaced
  <2>2. CASE j \in {5, 8, 9, 12, 16}
    BY <1>4, <1>5, <2>1, <2>2 DEF Major
  <2>3. CASE j \in {6, 7, 10, 17, 18}
    BY <1>3, <1>10, <2>3, SideRegs
  <2>4. CASE i = 3 /\ j = 13
    BY <1>3, <2>4, SideRegs
  <2>5. CASE i = 11 /\ j = 13
    <3>1. u.engine \in {"HOLD", "MUL_ACCUMULATE", "DIV_ITERATE", "SQRT_ITERATE", "ADDSUB_ALIGN",
                        "CORDIC_NEXT"}
      BY <1>6, <1>10 DEF Compatible
    <3>2. CASE u.engine = "CORDIC_NEXT"
      <4>1. Within(s[13], Advanced)
        BY <1>7, <3>2, NextWrites
      <4>2. LaneRegs(11) \cap Advanced = {}
        BY DEF LaneRegs, Advanced
      <4>. QED
        BY <1>2, <2>5, <4>1, <4>2, ApartWithin
    <3>3. CASE u.engine # "CORDIC_NEXT"
      <4>1. s[13] = Nothing
        BY <1>7, <3>1, <3>3, ArithmeticEngines
      <4>. QED
        BY <1>4, <2>5, <4>1
    <3>. QED
      BY <3>2, <3>3
  <2>. QED
    BY <1>10, <2>2, <2>3, <2>4, <2>5 DEF Majors
<1>11. CASE i = 14 /\ s[i] # Nothing
  <2>1. u.engine = "HOLD"
    BY <1>6, <1>11 DEF Spaced
  <2>2. CASE j \in {10, 13}
    BY <1>4, <1>5, <2>1, <2>2 DEF Major
  <2>3. CASE j \notin {10, 13}
    BY <1>3, <1>11, <2>3, SideRegs
  <2>. QED
    BY <2>2, <2>3
<1>. QED
  BY <1>4, <1>8, <1>9, <1>10, <1>11 DEF Sides

\* Two side lanes of one word.
LEMMA TwoSides ==
  ASSUME NEW q, NEW u, NEW i \in Sides, NEW j \in Sides, i # j
  PROVE  DOMAIN Lanes(q, u)[i] \cap DOMAIN Lanes(q, u)[j] = {}
<1>1. i \in 1..18 /\ j \in 1..18
  BY DEF Sides
<1>2. LaneRegs(i) \cap LaneRegs(j) = {}
  BY SideRegs
<1>. QED
  BY <1>1, <1>2, LaneWrites, ApartWithin

\* Two major lanes of one word: of one field only one writes, and of two fields only those of a
\* sum or a product, apart.
LEMMA TwoLanes ==
  ASSUME NEW q, NEW u, Compatible(u), NEW i \in Majors, NEW j \in Majors, i < j
  PROVE  DOMAIN Lanes(q, u)[i] \cap DOMAIN Lanes(q, u)[j] = {}
<1> DEFINE s == Lanes(q, u)
<1>1. s[i] = Nothing \/ s[j] = Nothing => DOMAIN s[i] \cap DOMAIN s[j] = {}
  BY NothingApart, Zenon
<1>2. CASE Major(i) = Major(j)
  BY <1>1, <1>2, LanesOfOneField, Zenon
<1>3. CASE u[Major(i)] = "HOLD" \/ u[Major(j)] = "HOLD"
  BY <1>1, <1>3, LaneHolds, Zenon
<1>4. CASE Major(i) # Major(j) /\ u[Major(i)] # "HOLD" /\ u[Major(j)] # "HOLD"
  <2>1. Major(i) \in MajorLanes /\ Major(j) \in MajorLanes
    BY DEF Major, MajorLanes
  <2>2. /\ {Major(i), Major(j)} = {"classify", "prepare"}
        /\ u.classify = u.prepare /\ u.classify \in {"ADDSUB", "MUL"}
    BY <1>4, <2>1, TwoMajors
  <2>3. (i = 5 /\ j = 8) \/ (i = 8 /\ j = 12)
    BY <2>2 DEF Majors, Major
  <2>4. CASE i = 5 /\ j = 8
    <3>1. s[5] = ClassifyLane(q, r, u) /\ s[8] = PrepareLane(q, r, u)
      BY LanesAre, Zenon
    <3>2. DOMAIN s[5] \cap DOMAIN s[8] = {}
      BY <2>2, <3>1, PairApart, Zenon
    <3>. QED
      BY <2>4, <3>2, Zenon
  <2>5. CASE i = 8 /\ j = 12
    <3>1. s[12] = Angling(q, u)
      BY LanesAre, Zenon
    <3>2. Angling(q, u) = Nothing
      BY <2>2 DEF Angling
    <3>3. s[j] = Nothing
      BY <2>5, <3>1, <3>2, Zenon
    <3>. QED
      BY <1>1, <3>3, Zenon
  <2>. QED
    BY <2>3, <2>4, <2>5
<1>. QED
  BY <1>2, <1>3, <1>4

\* No two lanes of a sound word meet.
LEMMA WordApart ==
  ASSUME NEW q, NEW u, Compatible(u), Spaced(u)
  PROVE  Disjoint(Lanes(q, u))
<1> DEFINE s == Lanes(q, u)
<1>1. DOMAIN s = 1..18
  BY LanesAre, Zenon
<1>2. ASSUME NEW i \in 1..18, NEW j \in 1..18, i < j PROVE DOMAIN s[i] \cap DOMAIN s[j] = {}
  <2>1. \A k \in 1..18 : k \in Sides \/ k \in Majors
    BY DEF Sides, Majors
  <2>2. CASE i \in Sides /\ j \in Sides
    BY <1>2, <2>2, TwoSides
  <2>3. CASE i \in Sides /\ j \in Majors
    BY <2>3, SideAndMajor
  <2>4. CASE i \in Majors /\ j \in Sides
    <3>1. DOMAIN s[j] \cap DOMAIN s[i] = {}
      BY <2>4, SideAndMajor, Zenon
    <3>. HIDE DEF s
    <3>. QED
      BY <3>1
  <2>5. CASE i \in Majors /\ j \in Majors
    BY <1>2, <2>5, TwoLanes
  <2>. QED
    BY <2>1, <2>2, <2>3, <2>4, <2>5
<1>. HIDE DEF s
<1>3. Disjoint(s)
  BY <1>1, <1>2 DEF Disjoint
<1>. QED
  BY <1>3 DEF s

-----------------------------------------------------------------------------
\* The sequencer stays in the control store.
InStore == uaddr \in 0..MaxWords - 1

\* "The generator guarantees that no operation selected in the same word also writes this
\* state" (x87_executor.sv): for every operand, width and sequence of requests, no two lanes of
\* the word at work write one register, given that each word of the control store passes the
\* checks of the generator and two more it does not make (StoreIsSound, a closed statement).
THEOREM LanesNeverMeet ==
  ASSUME StoreIsSound
  PROVE  Spec => []LanesDisjoint
<1>1. Init => InStore
  BY DEF Init, InStore, MaxWords
<1>2. InStore /\ [Next]_vars => InStore'
  <2> SUFFICES ASSUME InStore, [Next]_vars PROVE InStore'
    OBVIOUS
  <2>1. CASE Start
    <3>1. \A op : \E t \in Operations : EntryOf(op) = EntryOf(t)
      BY SMT DEF EntryOf, EntryLabel, Operations
    <3>2. \A op : EntryOf(op) \in 0..MaxWords - 1
      BY <3>1 DEF StoreIsSound
    <3>. QED
      BY <2>1, <3>2 DEF Start, InStore
  <2>2. CASE Step
    <3>1. uop.target \in 0..MaxWords - 1
      BY DEF InStore, StoreIsSound, uop
    <3>2. NextAddress(uop) \in Int
      BY <3>1 DEF NextAddress, InStore, MaxWords
    <3>. QED
      BY <2>2, <3>2 DEF Step, Execute, InStore, MaxWords
  <2>3. CASE Idle \/ UNCHANGED vars
    BY <2>3 DEF Idle, vars, InStore
  <2>. QED
    BY <2>1, <2>2, <2>3 DEF Next
<1>3. InStore => LanesDisjoint
  <2> SUFFICES ASSUME InStore, active PROVE Disjoint(Lanes(req, uop))
    BY DEF LanesDisjoint
  <2>1. Compatible(uop) /\ Spaced(uop)
    BY DEF InStore, StoreIsSound, uop
  <2>. QED
    BY <2>1, WordApart
<1>. QED
  BY <1>1, <1>2, <1>3, PTL DEF Spec
=============================================================================
