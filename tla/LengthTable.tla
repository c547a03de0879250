----------------------------- MODULE LengthTable -----------------------------
(***************************************************************************)
(* The instruction length as two flat tables: what gen_length_table.py     *)
(* computes from the instruction-layout PLA, and the two lookups it emits. *)
(***************************************************************************)
EXTENDS Integers, Sequences

\* The bits hi..lo of a number.
Bits(x, hi, lo) == (x \div 2^lo) % 2^(hi - lo + 1)
Flag(b) == IF b THEN 1 ELSE 0

\* A table: the function itself, computed once.
Tabulated(f) == CHOOSE g \in {f} : g = f

\* Rows of the layout PLA in the table's order: {has_0f, opcode} digits, 2 for "?",
\* and the twelve control bits. These are the rows that decide the opcodes of the
\* model; the others match none of them first.
ControlRows == <<
  <<<<1,1,0,1,0,1,2,1,1>>, 2836>>,   \* 0F AF
  <<<<0,1,0,0,0,1,1,2,2>>, 2820>>,   \* 8D, 8F
  <<<<0,1,0,0,0,1,0,2,2>>, 2822>>,   \* 89
  <<<<1,1,0,1,0,0,1,0,0>>, 788>>,    \* 0F A4
  <<<<0,0,1,1,0,0,0,1,1>>, 2820>>,   \* 63
  <<<<0,0,0,2,2,2,0,2,2>>, 2838>>,   \* 01
  <<<<1,1,0,1,1,2,1,1,2>>, 2838>>,   \* 0F B6
  <<<<0,0,1,1,0,1,0,0,1>>, 1812>>,   \* 69
  <<<<0,1,0,0,0,0,0,0,1>>, 1798>>,   \* 81
  <<<<0,1,0,0,0,0,0,1,1>>, 3846>>,   \* 83
  <<<<0,1,1,0,1,0,0,2,2>>, 2566>>,   \* D3
  <<<<0,1,1,1,1,1,1,1,2>>, 2566>>,   \* FE
  <<<<1,0,0,0,0,0,0,2,2>>, 2820>>,   \* 0F 00, 0F 01
  <<<<0,1,1,1,1,0,1,1,0>>, 3078>>,   \* F6
  <<<<0,1,1,1,1,0,1,1,1>>, 1030>>,   \* F7
  <<<<0,1,1,0,0,0,1,1,1>>, 1798>>,   \* C7
  <<<<0,0,1,1,0,1,0,1,0>>, 453>>,    \* 6A
  <<<<0,1,1,0,0,2,0,1,0>>, 1509>>,   \* C2
  <<<<1,1,0,0,0,2,2,2,2>>, 2005>>,   \* 0F 84
  <<<<0,1,1,1,0,1,0,0,2>>, 2021>>,   \* E8
  <<<<0,1,0,0,1,0,2,2,2>>, 2049>>,   \* 90
  <<<<0,1,0,1,0,2,1,2,2>>, 2055>>,   \* A4
  <<<<0,1,1,1,0,1,0,1,1>>, 2213>>,   \* EB
  <<<<0,1,0,1,0,0,0,2,2>>, 2439>>,   \* A1
  <<<<0,1,1,0,0,1,0,0,0>>, 3013>>,   \* C8
  <<<<0,1,0,1,1,1,2,2,2>>, 3523>>,   \* B8
  <<<<0,1,0,0,1,1,0,1,0>>, 4069>> >> \* 9A

\* The first matching row wins, and no match is zero.
PlaLookup(rows, has_0f, opcode) ==
  LET key == [i \in 1..9 |-> IF i = 1 THEN has_0f ELSE Bits(opcode, 9 - i, 9 - i)]
      hits == {r \in DOMAIN rows : \A i \in 1..9 : rows[r][1][i] \in {2, key[i]}}
  IN IF hits = {} THEN 0 ELSE rows[CHOOSE r \in hits : \A s \in hits : r <= s][2]

Control == Tabulated([k \in {0, 1} \X (0..255) |-> PlaLookup(ControlRows, k[1], k[2])])

HasModrm(ctl) == Bits(ctl, 2, 2) = 1 /\ Bits(ctl, 0, 0) = 0

\* Mutant: the members with the immediate lose it too.
NoImmediateAll(opcode, f67_hi) == opcode \div 2 = 123

\* F6/F7 /2../7 take no immediate, whatever the layout says.
NoImmediate(opcode, f67_hi) == opcode \div 2 = 123 /\ f67_hi = 1

ModrmImmediate(ctl, opcode, data32, f67_hi) ==
  IF NoImmediate(opcode, f67_hi) THEN 0
  ELSE <<1, IF data32 = 1 THEN 4 ELSE 2, 0, 1>>[Bits(ctl, 11, 10) + 1]

PlainImmediate(ctl, has_0f, opcode, data32, addr32) ==
  LET sel == Bits(ctl, 11, 6)
      wide == IF data32 = 1 THEN 4 ELSE 2
  IN IF has_0f = 0 /\ opcode \div 4 = 40 THEN IF addr32 = 1 THEN 4 ELSE 2
     ELSE CASE sel \in {39, 7, 34} -> 1
            [] sel \in {55, 31} -> wide
            [] sel = 23 -> 2
            [] sel = 47 -> 3
            [] sel = 63 -> wide + 2
            [] OTHER -> 0

\* {has_modrm, opcode byte + ModR/M byte + immediate}
OpcodeSide(has_0f, opcode, data32, addr32, f67_hi) ==
  LET ctl == Control[<<has_0f, opcode>>]
  IN IF HasModrm(ctl)
     THEN <<1, 2 + ModrmImmediate(ctl, opcode, data32, f67_hi)>>
     ELSE <<0, 1 + PlainImmediate(ctl, has_0f, opcode, data32, addr32)>>

\* The script stops on a length that does not fit three bits.
LengthsFit ==
  \A has_0f, data32, addr32, f67_hi \in {0, 1}, opcode \in 0..255 :
    OpcodeSide(has_0f, opcode, data32, addr32, f67_hi)[2] < 8

\* SIB byte and displacement
ModrmSide(addr32, mod, rm, sib_base) ==
  LET has_sib == addr32 = 1 /\ rm = 4
      far == IF addr32 = 1 THEN 4 ELSE 2
      none == IF has_sib THEN sib_base # 5 ELSE rm # IF addr32 = 1 THEN 5 ELSE 6
  IN IF mod = 3 THEN 0
     ELSE Flag(has_sib) + CASE mod = 1 -> 1
                            [] mod = 2 -> far
                            [] mod = 0 -> IF none THEN 0 ELSE far

-----------------------------------------------------------------------------
(* The tables as they are laid out, and the lookups of the generated file *)

\* Entry idx of the opcode table: has_modrm in bit 3, the bytes below it.
LengthEntry(idx) ==
  LET e == OpcodeSide(Bits(idx, 11, 11), Bits(idx, 10, 3), Bits(idx, 2, 2), Bits(idx, 1, 1),
                      Bits(idx, 0, 0))
  IN e[1] * 8 + e[2]

ModrmEntry(idx) == ModrmSide(Bits(idx, 8, 8), Bits(idx, 7, 6), Bits(idx, 5, 3), Bits(idx, 2, 0))

D1Length(has_0f, opcode, data32, addr32, modrm) ==
  LengthEntry(has_0f * 2048 + opcode * 8 + data32 * 4 + addr32 * 2 + Flag(Bits(modrm, 5, 4) # 0))

D1ModrmLength(addr32, modrm, sib) ==
  ModrmEntry(addr32 * 256 + Bits(modrm, 7, 6) * 64 + Bits(modrm, 2, 0) * 8 + Bits(sib, 2, 0))
=============================================================================
