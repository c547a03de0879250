----------------------------- MODULE EntryTables -----------------------------
(***************************************************************************)
(* The microcode entry of an instruction, as gen_pla_group.py splits the   *)
(* entry PLA: the first pass gives an entry or, for an opcode with a       *)
(* ModR/M byte, a group row; the script tabulates the row by mode (merged  *)
(* into as few lines as it can) and the entries of all rows it can reach   *)
(* by ModR/M.reg and memory form, so that no pass waits for another.       *)
(***************************************************************************)
EXTENDS LengthTable

Bit == {0, 1}
Modes == Bit \X Bit                 \* <<data32, pe>>
Wild == 2                            \* "?"
Regs == 0..7
Agree(values) == \A u, v \in values : u = v

\* Rows of a casez: a set per field and the value; the first match wins, no match is zero.
Casez(rows, key) ==
  LET hits == {r \in DOMAIN rows : \A i \in DOMAIN key : key[i] \in rows[r][1][i]}
  IN IF hits = {} THEN 0 ELSE rows[CHOOSE r \in hits : \A s \in hits : r <= s][2]

-----------------------------------------------------------------------------
(* The PLA: the rows that decide the opcodes of the model *)

Opcode(ops, f, value) == <<<<ops, Bit, Bit, Bit, {f}>>, value>>

\* First pass, by <<opcode, rep, data32, pe, has_0f>>; below 64 a group row.
EntryRows == <<
  Opcode({175}, 1, 3), Opcode({1}, 0, 0), Opcode({129, 131}, 0, 6), Opcode({105}, 0, 9),
  Opcode({137}, 0, 10), Opcode({143}, 0, 16), Opcode({199}, 0, 17), Opcode({254}, 0, 20),
  Opcode({246, 247}, 0, 22), Opcode({211}, 0, 26), Opcode({141}, 0, 56), Opcode({164}, 1, 38),
  Opcode({1}, 1, 33),
  <<<<{99}, Bit, Bit, {0}, {0}>>, 31>>, <<<<{0}, Bit, Bit, {0}, {1}>>, 31>>,
  <<<<{99}, Bit, Bit, {1}, {0}>>, 19>>, <<<<{0}, Bit, Bit, {1}, {1}>>, 32>>,
  <<<<{182}, Bit, {0}, Bit, {1}>>, 46>>, <<<<{182}, Bit, {1}, Bit, {1}>>, 47>>,
  Opcode({184}, 0, 5), Opcode({161}, 0, 25), Opcode({132}, 1, 101), Opcode({235}, 0, 106),
  Opcode({194}, 0, 114), Opcode({232}, 0, 117), Opcode({106}, 0, 157), Opcode({144}, 0, 182),
  <<<<{164}, {1}, Bit, Bit, {0}>>, 504>>, <<<<{164}, {0}, Bit, Bit, {0}>>, 529>>,
  Opcode({154}, 0, 726), <<<<{200}, Bit, {0}, Bit, {0}>>, 772>>,
  <<<<{200}, Bit, {1}, Bit, {0}>>, 776>> >>

Group(rows, regs, mems, f, value) == <<<<rows, regs, mems, Bit, {f}>>, value>>
Invalid == 2091

\* Second pass, by <<row, reg, memory, data32, has_0f>>; entries without a recipe may share one.
GroupRows == <<
  Group({10}, Regs, {0}, 0, 3), Group({17}, {0}, {0}, 0, 5), Group({10}, Regs, {1}, 0, 19),
  Group({17}, {0}, {1}, 0, 21), Group({0}, Regs, {0}, 0, 29), Group({22}, {2, 3}, {0}, 0, 33),
  Group({20}, {0, 1}, {0}, 0, 33), Group({6}, Regs \ {7}, {0}, 0, 35), Group({6}, {7}, {0}, 0, 37),
  Group({22}, {0, 1}, {0}, 0, 37), Group({6}, {7}, {1}, 0, 49), Group({22}, {0, 1}, {1}, 0, 49),
  Group({6}, Regs \ {7}, {1}, 0, 57), Group({0}, Regs, {1}, 0, 74),
  Group({20}, {0, 1}, {1}, 0, 78), Group({22}, {2, 3}, {1}, 0, 78),
  Group({16}, {0}, {0}, 0, 159), Group({16}, {0}, {1}, 0, 172), Group({56}, Regs, {1}, 0, 185),
  Group({26}, {2, 3}, {0}, 0, 233), Group({38}, Regs, {0}, 1, 252),
  Group({26}, Regs \ {2, 3}, {0}, 0, 255), Group({26}, {2, 3}, {1}, 0, 268),
  Group({38}, Regs, {1}, 1, 292), Group({26}, Regs \ {2, 3}, {1}, 0, 301),
  Group({3}, Regs, {0}, 1, 435), Group({3}, Regs, {1}, 1, 445), Group({9}, Regs, {1}, 0, 449),
  Group({9}, Regs, {0}, 0, 452), Group({46}, Regs, {0}, 1, 488), Group({46}, Regs, {1}, 1, 491),
  Group({47}, Regs, {0}, 1, 496), Group({47}, Regs, {1}, 1, 499),
  Group({22}, {4, 5, 6, 7}, {0}, 0, 421), Group({22}, {4, 5, 6, 7}, {1}, 0, 431),
  Group({33}, {0, 1, 2, 3}, {1}, 1, 832), Group({33}, {6}, {0}, 1, 846),
  Group({33}, {4}, Bit, 1, 856), Group({19}, Regs, Bit, 0, 1706),
  Group({32}, {0, 1, 2, 3, 4, 5}, Bit, 1, 1730),
  Group({56, 16, 17, 20, 31}, Regs, Bit, 0, Invalid), Group({31}, Regs, Bit, 1, Invalid),
  Group({33}, {0, 1, 2, 3}, {0}, 1, Invalid), Group({33}, {5}, Bit, 1, Invalid),
  Group({32}, {6}, Bit, 1, Invalid), Group({32, 33}, {7}, Bit, 1, Invalid) >>

First(op, rep, mode, f) == Casez(EntryRows, <<op, rep, mode[1], mode[2], f>>)

-----------------------------------------------------------------------------
(* What the script makes of it *)

ModrmKeys ==
  {k \in Bit \X (0..255) : /\ HasModrm(Control[k])
                           /\ \E r \in DOMAIN EntryRows :
                                k[2] \in EntryRows[r][1][1] /\ k[1] \in EntryRows[r][1][5]}

\* The group rows of an opcode by the modes that have one; they may not depend on REP.
RowsByMode(k) ==
  [m \in {n \in Modes : First(k[2], 0, n, k[1]) < 64} |-> First(k[2], 0, m, k[1])]
GroupMap == Tabulated([k \in ModrmKeys |-> RowsByMode(k)])
RowsIgnoreRep ==
  \A k \in ModrmKeys, m \in Modes : First(k[2], 0, m, k[1]) = First(k[2], 1, m, k[1])

\* Mutant: a pair of modes is merged by where it is, whatever its rows.
LinesUnequal(rows) ==
  LET ByData == {d \in Bit : {<<d, 0>>, <<d, 1>>} \subseteq DOMAIN rows}
  IN {<<d, Wild, rows[<<d, 0>>]>> : d \in ByData}
     \cup {<<m[1], m[2], rows[m]>> : m \in {n \in DOMAIN rows : n[1] \notin ByData}}

\* The lines of an opcode <<data32, pe, row>>: one for all modes if it can be, else one per
\* data size or per PE where the two rows are equal, else one per mode.
Lines(rows) ==
  LET Whole == DOMAIN rows = Modes /\ \A m, n \in Modes : rows[m] = rows[n]
      ByData == {d \in Bit : /\ {<<d, 0>>, <<d, 1>>} \subseteq DOMAIN rows
                             /\ rows[<<d, 0>>] = rows[<<d, 1>>]}
      ByPe == {p \in Bit : /\ {<<0, p>>, <<1, p>>} \subseteq DOMAIN rows
                           /\ ByData = {}
                           /\ rows[<<0, p>>] = rows[<<1, p>>]}
      Left == {m \in DOMAIN rows : m[1] \notin ByData /\ m[2] \notin ByPe}
  IN IF Whole THEN {<<Wild, Wild, rows[<<0, 0>>]>>}
     ELSE {<<d, Wild, rows[<<d, 0>>]>> : d \in ByData}
          \cup {<<Wild, p, rows[<<0, p>>]>> : p \in ByPe}
          \cup {<<m[1], m[2], rows[m]>> : m \in Left}

\* {valid, row} of a mode.
Covers(line, mode) == line[1] \in {Wild, mode[1]} /\ line[2] \in {Wild, mode[2]}
LineLookup(lines, mode) ==
  LET hits == {l \in lines : Covers(l, mode)}
  IN IF hits = {} THEN [valid |-> FALSE, row |-> 0]
     ELSE [valid |-> TRUE, row |-> (CHOOSE l \in hits : TRUE)[3]]

GroupTable == Tabulated([k \in ModrmKeys |-> Lines(GroupMap[k])])
GroupLookup(f, op, mode) ==
  IF <<f, op>> \in ModrmKeys THEN LineLookup(GroupTable[<<f, op>>], mode)
  ELSE [valid |-> FALSE, row |-> 0]

\* INVLPG takes the memory form of 0F 01 /7: the PLA's row for it is split around that form.
SplitRow == GroupRows[Len(GroupRows)]
GroupEntryRows ==
  <<Group({33}, {7}, {1}, 1, 2503)>> \o SubSeq(GroupRows, 1, Len(GroupRows) - 1)
  \o <<Group({32}, {7}, Bit, 1, SplitRow[2]), Group({33}, {7}, {0}, 1, SplitRow[2])>>

\* Every way to reach a row: <<row, data32, has_0f>>.
Reached ==
  UNION {{<<GroupMap[k][m], m[1], k[1]>> : m \in DOMAIN GroupMap[k]} : k \in ModrmKeys}

\* The ROM drops data size and opcode map from the address; the script stops if it may not.
Values(reached, k) ==
  {Casez(GroupEntryRows, <<k[1], k[2], k[3], r[2], r[3]>>) : r \in {s \in reached : s[1] = k[1]}}
GroupEntryRom ==
  LET reached == Reached
  IN Tabulated([k \in {r[1] : r \in reached} \X Regs \X Bit |-> Values(reached, k)])
RomBuilds == \A k \in DOMAIN GroupEntryRom : Agree(GroupEntryRom[k])

Memory(modrm) == Flag(Bits(modrm, 7, 6) # 3)
Reg(modrm) == Bits(modrm, 5, 3)

\* The decoder's select, both passes side by side: word is the first pass's ROM word.
EntryFinal(word, mode, op, has_0f, has_modrm, modrm) ==
  LET group == GroupLookup(has_0f, op, mode)
  IN IF group.valid /\ has_modrm
     THEN CHOOSE e \in GroupEntryRom[<<group.row, Reg(modrm), Memory(modrm)>>] : TRUE
     ELSE First(word[1], word[2], mode, word[3])
=============================================================================
