------------------------------ MODULE X87Command ------------------------------
(***************************************************************************)
(* The commands of the x87: the decode ROM build_x87_command_decode.py     *)
(* writes, and what the control unit (x87_control.sv) makes of a decoded   *)
(* word: the operation and the operands the executor is started with.  A   *)
(* command is the ESC opcode's low three bits (group) and the ModR/M byte; *)
(* the word is a record of its fields.  What an instruction means is said  *)
(* at the end, from its name.                                              *)
(***************************************************************************)
EXTENDS Integers, Sequences

Commands == [group : 0..7, mod : 0..3, op : 0..7, rm : 0..7]
Command(group, mod, op, rm) == [group |-> group, mod |-> mod, op |-> op, rm |-> rm]

\* The codes of the fields that name something.
CMD == << "NONE", "FNINIT", "FNCLEX", "FCHS", "FABS", "FXAM", "PUSH_CONST", "FSQRT", "FPTAN",
          "FPATAN", "TRIG", "FRNDINT", "FDECSTP", "FINCSTP", "TX_ENV", "TX_STATE", "RX_ENV",
          "RX_STATE", "ARITH", "FLD_ST", "FXCH", "FFREE", "FSTP_ST", "MEMORY_MATH", "LOAD",
          "STORE", "FYL2X", "F2XM1", "FSCALE", "FPREM", "STORE_BCD" >>
EXEC == << "FRNDINT", "FLD_M32", "FLD_M64", "FILD", "FST_M32", "FST_M64", "FIST", "ADD", "SUB",
           "COMPARE", "MUL", "DIV", "SQRT", "TRANS" >>
RX == [NONE |-> 0, CONTROL |-> 1, M32 |-> 2, M64 |-> 3, M80 |-> 4, I16 |-> 5, I32 |-> 6,
       I64 |-> 7, ENV |-> 8, SAVED |-> 9]

RegisterForm(f) == f.mod = 3
Is(f, group, op) == f.group = group /\ f.op = op
\* One register form, and one operation on memory.
Reg1(f, group, op, rm) == RegisterForm(f) /\ Is(f, group, op) /\ f.rm = rm
Mem(f, group, op) == ~RegisterForm(f) /\ Is(f, group, op)

\* A memory form is known by its group and operation alone.
DecodeKey(f) == IF RegisterForm(f) THEN f ELSE [f EXCEPT !.mod = 0, !.rm = 0]

-----------------------------------------------------------------------------
(* Classes of commands *)

OnRegisters(f, ops) == RegisterForm(f) /\ f.group \in {0, 4, 6} /\ f.op \in ops
IsAddSub(f) == OnRegisters(f, {0, 4, 5})
IsMul(f) == OnRegisters(f, {1})
IsDiv(f) == OnRegisters(f, {6, 7})
IsComparePop2(f) == Reg1(f, 2, 5, 1) \/ Reg1(f, 6, 3, 1)
IsTest(f) == Reg1(f, 1, 4, 4)
IsCompare(f) ==
  \/ RegisterForm(f) /\ f.group = 0 /\ f.op \in {2, 3}
  \/ RegisterForm(f) /\ f.group = 5 /\ f.op \in {4, 5}
  \/ IsComparePop2(f)
  \/ IsTest(f)
IsArith(f) == IsAddSub(f) \/ IsCompare(f) \/ IsMul(f) \/ IsDiv(f)
IsMemoryMath(f) == ~RegisterForm(f) /\ f.group \in {0, 2, 4, 6}

\* The commands known by their whole code.
Exact(key) ==
  CASE Reg1(key, 3, 4, 3) -> "FNINIT"     [] Reg1(key, 3, 4, 2) -> "FNCLEX"
    [] Reg1(key, 1, 4, 0) -> "FCHS"       [] Reg1(key, 1, 4, 1) -> "FABS"
    [] Reg1(key, 1, 4, 5) -> "FXAM"       [] Reg1(key, 1, 7, 2) -> "FSQRT"
    [] Reg1(key, 1, 6, 2) -> "FPTAN"      [] Reg1(key, 1, 6, 3) -> "FPATAN"
    [] Reg1(key, 1, 7, 4) -> "FRNDINT"    [] Reg1(key, 1, 6, 6) -> "FDECSTP"
    [] Reg1(key, 1, 6, 7) -> "FINCSTP"    [] Reg1(key, 1, 6, 1) -> "FYL2X"
    [] Reg1(key, 1, 6, 0) -> "F2XM1"      [] Reg1(key, 1, 7, 5) -> "FSCALE"
    [] Reg1(key, 1, 7, 0) -> "FPREM"
    [] Mem(key, 1, 6) -> "TX_ENV"         [] Mem(key, 5, 6) -> "TX_STATE"
    [] Mem(key, 1, 4) -> "RX_ENV"         [] Mem(key, 5, 4) -> "RX_STATE"
    [] OTHER -> "NONE"

PushesConstant(key) == RegisterForm(key) /\ Is(key, 1, 5) /\ key.rm # 7
IsTrig(key) == Reg1(key, 1, 7, 6) \/ Reg1(key, 1, 7, 7)

\* The commands that keep the coprocessor busy, and those that answer with a status word.
IsArithmetic(f) ==
  \/ IsArith(f) \/ IsMemoryMath(f) \/ IsTrig(f)
  \/ Exact(f) \in {"FSQRT", "FPTAN", "FPATAN", "FRNDINT"}
ReadsStatus(f) == Reg1(f, 7, 4, 0) \/ Mem(f, 5, 7)
Status(f) == ReadsStatus(f) \/ Mem(DecodeKey(f), 1, 7)

-----------------------------------------------------------------------------
(* The word of a command *)

\* A word that asks for no arithmetic on two operands.
Plain(f, action, exec, parameter) ==
  [action |-> action, exec |-> exec, compare |-> FALSE, quiet |-> FALSE, write |-> FALSE,
   dest_sti |-> FALSE, needs_sti |-> FALSE, reverse |-> FALSE, pop |-> 0,
   parameter |-> parameter, arithmetic |-> IsArithmetic(f), status |-> Status(f)]
Acts(f, action, parameter) == Plain(f, action, "FRNDINT", parameter)

ExactExec(name) ==
  CASE name = "FSQRT" -> "SQRT" [] name \in {"FPTAN", "FPATAN"} -> "TRANS" [] OTHER -> "FRNDINT"
ExactWord(f) == Plain(f, Exact(DecodeKey(f)), ExactExec(Exact(DecodeKey(f))), 0)

\* Registers: the result goes to ST(0) in group 0, to ST(i) in the others.
ArithExec(f) ==
  IF IsDiv(f) THEN "DIV" ELSE IF IsMul(f) THEN "MUL" ELSE IF IsCompare(f) THEN "COMPARE"
  ELSE IF f.op \in {4, 5} THEN "SUB" ELSE "ADD"
Writes(f) == IsAddSub(f) \/ IsMul(f) \/ IsDiv(f)
ArithWord(f) ==
  [action |-> "ARITH", exec |-> ArithExec(f), compare |-> IsCompare(f), quiet |-> f.group = 5,
   write |-> Writes(f), dest_sti |-> f.group # 0, needs_sti |-> ~IsTest(f),
   reverse |-> (IsAddSub(f) \/ IsDiv(f)) /\ f.op \in {5, 7},
   pop |-> IF IsComparePop2(f) THEN 2
           ELSE IF Is(f, 0, 3) \/ Is(f, 5, 5) \/ (Writes(f) /\ f.group = 6) THEN 1 ELSE 0,
   parameter |-> 0, arithmetic |-> IsArithmetic(f), status |-> Status(f)]

\* The format of an operand in memory, by the group.
MathFormat(group) ==
  CASE group = 0 -> RX.M32 [] group = 2 -> RX.I32 [] group = 4 -> RX.M64 [] group = 6 -> RX.I16

MemoryExec(op) ==
  CASE op \in {6, 7} -> "DIV" [] op = 1 -> "MUL" [] op \in {2, 3} -> "COMPARE"
    [] op \in {4, 5} -> "SUB" [] OTHER -> "ADD"
MemoryMathWord(f) ==
  [action |-> "MEMORY_MATH", exec |-> MemoryExec(f.op), compare |-> f.op \in {2, 3},
   quiet |-> FALSE, write |-> FALSE, dest_sti |-> FALSE, needs_sti |-> FALSE,
   reverse |-> f.op \in {5, 7}, pop |-> IF f.op = 3 THEN 1 ELSE 0,
   parameter |-> MathFormat(f.group), arithmetic |-> IsArithmetic(f), status |-> Status(f)]

\* A load by the format it reads, NONE when the command is no load.
LoadFormat(f) ==
  CASE Mem(f, 1, 0) -> RX.M32 [] Mem(f, 5, 0) -> RX.M64 [] Mem(f, 3, 5) -> RX.M80
    [] Mem(f, 7, 0) -> RX.I16 [] Mem(f, 3, 0) -> RX.I32 [] Mem(f, 7, 5) -> RX.I64
    [] Mem(f, 1, 5) -> RX.CONTROL
    [] OTHER -> RX.NONE

\* A store: an integer or not, its width, and whether it pops; 15 when the command is none.
StoreCode(integer, width, pop) ==
  (IF integer THEN 1 ELSE 0) + 2 * width + (IF pop THEN 8 ELSE 0)
StoreParameter(f) ==
  CASE ~RegisterForm(f) /\ f.group \in {1, 5} /\ f.op \in {2, 3} ->
         StoreCode(FALSE, IF f.group = 1 THEN 0 ELSE 1, f.op = 3)
    [] Mem(f, 3, 7) -> StoreCode(FALSE, 2, TRUE)
    [] ~RegisterForm(f) /\ f.group \in {3, 7} /\ f.op \in {2, 3} ->
         StoreCode(TRUE, IF f.group = 7 THEN 0 ELSE 1, f.op = 3)
    [] Mem(f, 7, 7) -> StoreCode(TRUE, 2, TRUE)
    [] OTHER -> 15

RegisterAction(f) ==
  CASE Is(f, 1, 0) -> "FLD_ST" [] Is(f, 1, 1) -> "FXCH" [] Is(f, 5, 0) -> "FFREE"
    [] Is(f, 5, 3) -> "FSTP_ST" [] OTHER -> "NONE"

\* fields: the classes in the order of the code.
Decode(f) ==
  IF Exact(DecodeKey(f)) # "NONE" THEN ExactWord(f)
  ELSE IF PushesConstant(DecodeKey(f)) THEN Acts(f, "PUSH_CONST", f.rm)
  ELSE IF IsTrig(DecodeKey(f)) THEN Plain(f, "TRIG", "TRANS", f.rm % 2)
  ELSE IF IsArith(f) THEN ArithWord(f)
  ELSE IF RegisterForm(f) THEN Acts(f, RegisterAction(f), 0)
  ELSE IF IsMemoryMath(f) THEN MemoryMathWord(f)
  ELSE IF LoadFormat(f) # RX.NONE THEN Acts(f, "LOAD", LoadFormat(f))
  ELSE IF StoreParameter(f) # 15 THEN Acts(f, "STORE", StoreParameter(f))
  ELSE IF Mem(f, 7, 6) THEN Acts(f, "STORE_BCD", 0)
  ELSE Acts(f, "NONE", 0)

-----------------------------------------------------------------------------
(* What the control unit starts for a decoded command. *)

Operation(op, a, b, quiet) == [op |-> op, a |-> a, b |-> b, quiet |-> quiet]

\* A command on registers: st0 and sti are on the two ports of the stack memory, and FTST has
\* a zero of its own.
ArithOperation(d, st0, sti, zero) ==
  IF ~d.needs_sti THEN Operation(d.exec, st0, zero, d.quiet)
  ELSE IF d.reverse THEN Operation(d.exec, sti, st0, d.quiet)
  ELSE Operation(d.exec, st0, sti, d.quiet)

\* A command on a memory operand, once that is converted.
MemoryOp(d) ==
  IF d.exec \in {"DIV", "MUL"} THEN d.exec
  ELSE IF d.compare THEN "COMPARE"
  ELSE IF d.exec = "SUB" THEN "SUB" ELSE "ADD"
MemoryOperation(d, st0, operand) ==
  IF d.reverse THEN Operation(MemoryOp(d), operand, st0, FALSE)
  ELSE Operation(MemoryOp(d), st0, operand, FALSE)

Started(f, st0, other, zero) ==
  IF RegisterForm(f) THEN ArithOperation(Decode(f), st0, other, zero)
  ELSE MemoryOperation(Decode(f), st0, other)

-----------------------------------------------------------------------------
(* What the arithmetic instructions mean, from their names. *)

\* The names of one group of eight.  Where the result goes to ST(i), the subtractions and the
\* divisions have changed places.
ArithNames == << "FADD", "FMUL", "FCOM", "FCOMP", "FSUB", "FSUBR", "FDIV", "FDIVR" >>
ToStiNames == << "FADD", "FMUL", "FCOM", "FCOMP", "FSUBR", "FSUB", "FDIVR", "FDIV" >>
Name(f) ==
  CASE ~RegisterForm(f) \/ f.group = 0 -> ArithNames[f.op + 1]
    [] IsComparePop2(f) -> IF f.group = 6 THEN "FCOMPP" ELSE "FUCOMPP"
    [] IsTest(f) -> "FTST"
    [] RegisterForm(f) /\ f.group = 5 -> IF f.op = 4 THEN "FUCOM" ELSE "FUCOMP"
    [] OTHER -> ToStiNames[f.op + 1]

\* FSUB takes the source from the destination, FSUBR the destination from the source.
NamedOperation(name, destination, source) ==
  CASE name = "FADD" -> Operation("ADD", destination, source, FALSE)
    [] name = "FMUL" -> Operation("MUL", destination, source, FALSE)
    [] name = "FSUB" -> Operation("SUB", destination, source, FALSE)
    [] name = "FSUBR" -> Operation("SUB", source, destination, FALSE)
    [] name = "FDIV" -> Operation("DIV", destination, source, FALSE)
    [] name = "FDIVR" -> Operation("DIV", source, destination, FALSE)
    [] name \in {"FUCOM", "FUCOMP", "FUCOMPP"} -> Operation("COMPARE", destination, source, TRUE)
    [] OTHER -> Operation("COMPARE", destination, source, FALSE)

\* A compare has ST(0) on its left, a sum or a product its operands in either order.
Meaning(f, st0, other, zero) ==
  IF IsCompare(f) \/ ~RegisterForm(f) \/ f.group = 0 THEN
    NamedOperation(Name(f), st0, IF IsTest(f) THEN zero ELSE other)
  ELSE NamedOperation(Name(f), other, st0)

Commutes(o, p) ==
  o = p \/ (o.op \in {"ADD", "MUL"} /\ p = Operation(o.op, o.b, o.a, o.quiet))
=============================================================================
