------------------------------ MODULE PortBClass ------------------------------
(***************************************************************************)
(* The successor class of port B's dead slot: four bits of a recipe, as a  *)
(* table by opcode, ModR/M.reg and memory form that gen_pb_b1_class.py     *)
(* derives from the recipes, so that hardwired_control need not wait for   *)
(* the entry; and the registers it takes the successor to read.            *)
(***************************************************************************)
EXTENDS Recipes

RelBranch(has_0f, op) ==
  CASE op \div 16 = IF has_0f = 1 THEN 8 ELSE 7 -> "JCC"
    [] has_0f = 0 /\ op \in {235, 233} -> "JMP"
    [] has_0f = 0 /\ op = 232 -> "CALL"
    [] OTHER -> "NONE"

PbB1Type(e, r) ==
  /\ r.hardwired
  /\ \/ EarlyKind(e.entry) = "BRANCH"
     \/ RelBranch(e.has_0f, e.opcode) = "CALL"
     \/ /\ ~r.jcc /\ ~r.br_rel /\ RelBranch(e.has_0f, e.opcode) = "NONE"
        /\ EarlyKind(e.entry) # "SEQ"

\* {B1 type, reads flags, uses EA, Jcc}
Packed(type, r) == 8 * Flag(type) + 4 * Flag(r.reads_flags) + 2 * Flag(r.uses_ea) + Flag(r.jcc)
Class(e) == Packed(PbB1Type(e, Metadata(e)), Metadata(e))

\* An instruction without prefixes as the script builds it: first pass without REP.
Bare(f, op, mode, modrm) ==
  LET has_modrm == HasModrm(Control[<<f, op>>])
      entry == EntryFinal(<<op, 0, f>>, mode, op, f, has_modrm, modrm)
  IN [entry |-> EffectiveEntry(entry, op, modrm), opcode |-> op, has_0f |-> f,
      has_modrm |-> has_modrm, modrm |-> modrm, rep_lock |-> "none"]

Modrm(reg, mem, rm) == (IF mem = 1 THEN 0 ELSE 192) + 8 * reg + rm

\* Only the type bit gates the others.
DropDontCare(class) == IF class < 8 THEN 0 ELSE class

Opcodes == {k \in Bit \X (0..255) :
              \E r \in DOMAIN EntryRows : k[2] \in EntryRows[r][1][1] /\ k[1] \in EntryRows[r][1][5]}
Cases(f, op) == [k \in Regs \X Bit |-> DropDontCare(Class(Bare(f, op, <<0, 0>>, Modrm(k[1], k[2], 0))))]

\* The script stops if a class depends on the operand size, PE or ModR/M.rm.
TableBuilds ==
  \A k \in Opcodes, reg \in Regs, mem \in Bit, mode \in Modes, rm \in 0..7 :
    DropDontCare(Class(Bare(k[1], k[2], mode, Modrm(reg, mem, rm)))) = Cases(k[1], k[2])[<<reg, mem>>]

AnyReg == 8

\* The rows of an opcode <<reg, memory, class>>: one row if all cases agree, else one per
\* memory form, else one per case; a zero class needs no row.
Rows(cases) ==
  LET of(mem) == {cases[<<reg, mem>>] : reg \in Regs}
      all == {cases[k] : k \in Regs \X Bit}
      rows == CASE Agree(all) -> {<<AnyReg, Wild, cases[<<0, 0>>]>>}
                [] ~Agree(all) /\ \A mem \in Bit : Agree(of(mem)) ->
                     {<<AnyReg, mem, cases[<<0, mem>>]>> : mem \in Bit}
                [] OTHER -> {<<k[1], k[2], cases[k]>> : k \in Regs \X Bit}
  IN {row \in rows : row[3] # 0}

RowLookup(rows, reg, mem) ==
  LET hits == {r \in rows : r[1] \in {AnyReg, reg} /\ r[2] \in {Wild, mem}}
  IN IF hits = {} THEN 0 ELSE (CHOOSE r \in hits : TRUE)[3]

ClassTable == Tabulated([k \in Opcodes |-> Rows(Cases(k[1], k[2]))])

\* What hardwired_control takes from the table, by the instruction's fields alone.
PbnClass(e) == RowLookup(ClassTable[<<e.has_0f, e.opcode>>], Bits(e.modrm, 5, 3), Flag(Mem(e)))
PbnType(e) == PbnClass(e) >= 8 /\ e.rep_lock = "none"

\* The registers port B takes the successor to read, by the opcode alone.
PbReads(e) ==
  LET op == e.opcode
      src == IF e.has_0f = 1 THEN op \in {164, 165, 172, 173}
             ELSE \/ op < 64 /\ Bits(op, 2, 2) = 0 /\ ~(Bits(op, 1, 1) = 1 /\ Mem(e))
                  \/ op \in {132, 133, 136, 137, 162, 163}
                  \/ op \in {138, 139} /\ ~Mem(e)
      dst == /\ RelBranch(e.has_0f, op) = "NONE"
             /\ \/ e.has_0f = 1
                \/ /\ op \notin (136..139) \cup {141, 194, 195, 198, 199} \cup (160..163)
                   /\ op \div 16 # 11 /\ op \div 8 # 11
      ecx == op \in IF e.has_0f = 1 THEN {165, 173} ELSE {210, 211}
  IN {f \in {"src", "dst", "ecx"} : (f = "src" /\ src) \/ (f = "dst" /\ dst) \/ (f = "ecx" /\ ecx)}

\* The two tables agree on the registers: a recipe with a class reads none that the opcode alone
\* does not give away.
ReadsCovered ==
  \A k \in Opcodes, reg \in Regs, mem \in Bit, mode \in Modes :
    LET e == Bare(k[1], k[2], mode, Modrm(reg, mem, 0))
    IN PbB1Type(e, Metadata(e)) => Metadata(e).reads \subseteq PbReads(e)
=============================================================================
