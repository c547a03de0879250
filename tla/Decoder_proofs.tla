---------------------------- MODULE Decoder_proofs ----------------------------
(***************************************************************************)
(* What holds of the front end for every program: the tables that the      *)
(* generators write agree with what they are generated from, whatever rows *)
(* they are given; and the decoder that looks them up dispatches the       *)
(* instruction it decoded.                                                 *)
(***************************************************************************)
EXTENDS DecodeReference, FiniteSetTheorems, SequenceTheorems, TLAPS

\* Tabulating a function changes nothing.
LEMMA TabulatedIs == ASSUME NEW f PROVE Tabulated(f) = f
  BY DEF Tabulated

\* The four modes of the generated lookups.
LEMMA ModesAre == Modes = {<<0, 0>>, <<0, 1>>, <<1, 0>>, <<1, 1>>}
  BY SMT DEF Modes, Bit

-----------------------------------------------------------------------------
(* The casez lines of an opcode *)

\* Every line that covers a mode carries the row of that mode.
LEMMA LinesAreRows ==
  ASSUME NEW S \in SUBSET Modes, NEW R, NEW rows \in [S -> R],
         NEW l \in Lines(rows), NEW m \in Modes, Covers(l, m)
  PROVE  m \in S /\ l[3] = rows[m]
<1> DEFINE Whole == S = Modes /\ \A n, k \in Modes : rows[n] = rows[k]
           ByData == {d \in Bit : {<<d, 0>>, <<d, 1>>} \subseteq S
                                  /\ rows[<<d, 0>>] = rows[<<d, 1>>]}
           ByPe == {p \in Bit : {<<0, p>>, <<1, p>>} \subseteq S /\ ByData = {}
                                /\ rows[<<0, p>>] = rows[<<1, p>>]}
           Left == {n \in S : n[1] \notin ByData /\ n[2] \notin ByPe}
<1>1. DOMAIN rows = S
  OBVIOUS
<1>2. PICK a \in Bit, b \in Bit : m = <<a, b>>
  BY DEF Modes
<1>3. CASE Whole
  <2>1. l = <<Wild, Wild, rows[<<0, 0>>]>>
    BY <1>1, <1>3 DEF Lines
  <2>2. <<0, 0>> \in Modes
    BY ModesAre
  <2>. QED
    BY <1>3, <2>1, <2>2
<1>4. CASE ~Whole
  <2>1. l \in {<<d, Wild, rows[<<d, 0>>]>> : d \in ByData}
              \cup {<<Wild, p, rows[<<0, p>>]>> : p \in ByPe}
              \cup {<<n[1], n[2], rows[n]>> : n \in Left}
    BY <1>1, <1>4 DEF Lines
  <2>2. CASE l \in {<<d, Wild, rows[<<d, 0>>]>> : d \in ByData}
    <3>1. PICK d \in ByData : l = <<d, Wild, rows[<<d, 0>>]>>
      BY <2>2
    <3>2. d = a
      BY <1>2, <3>1 DEF Covers, Wild, Bit
    <3>. QED
      BY <1>2, <3>1, <3>2 DEF Bit
  <2>3. CASE l \in {<<Wild, p, rows[<<0, p>>]>> : p \in ByPe}
    <3>1. PICK p \in ByPe : l = <<Wild, p, rows[<<0, p>>]>>
      BY <2>3
    <3>2. p = b
      BY <1>2, <3>1 DEF Covers, Wild, Bit
    <3>. QED
      BY <1>2, <3>1, <3>2 DEF Bit
  <2>4. CASE l \in {<<n[1], n[2], rows[n]>> : n \in Left}
    <3>1. PICK n \in Left : l = <<n[1], n[2], rows[n]>>
      BY <2>4
    <3>2. PICK c \in Bit, d \in Bit : n = <<c, d>>
      BY <3>1 DEF Modes
    <3>3. c = a /\ d = b
      BY <1>2, <3>1, <3>2 DEF Covers, Wild, Bit
    <3>. QED
      BY <1>2, <3>1, <3>2, <3>3
  <2>. QED
    BY <2>1, <2>2, <2>3, <2>4
<1>. QED
  BY <1>3, <1>4

\* Every mode that has a row is covered by a line.
LEMMA LinesCoverRows ==
  ASSUME NEW S \in SUBSET Modes, NEW R, NEW rows \in [S -> R], NEW m \in S
  PROVE  \E l \in Lines(rows) : Covers(l, m)
<1> DEFINE Whole == S = Modes /\ \A n, k \in Modes : rows[n] = rows[k]
           ByData == {d \in Bit : {<<d, 0>>, <<d, 1>>} \subseteq S
                                  /\ rows[<<d, 0>>] = rows[<<d, 1>>]}
           ByPe == {p \in Bit : {<<0, p>>, <<1, p>>} \subseteq S /\ ByData = {}
                                /\ rows[<<0, p>>] = rows[<<1, p>>]}
           Left == {n \in S : n[1] \notin ByData /\ n[2] \notin ByPe}
<1>1. DOMAIN rows = S
  OBVIOUS
<1>2. PICK a \in Bit, b \in Bit : m = <<a, b>>
  BY DEF Modes
<1>3. CASE Whole
  <2>1. <<Wild, Wild, rows[<<0, 0>>]>> \in Lines(rows)
    BY <1>1, <1>3 DEF Lines
  <2>. QED
    BY <2>1 DEF Covers
<1>4. CASE ~Whole
  <2>1. Lines(rows) = {<<d, Wild, rows[<<d, 0>>]>> : d \in ByData}
                      \cup {<<Wild, p, rows[<<0, p>>]>> : p \in ByPe}
                      \cup {<<n[1], n[2], rows[n]>> : n \in Left}
    BY ZenonT(60), <1>1, <1>4 DEF Lines
  <2>2. CASE a \in ByData
    <3>1. <<a, Wild, rows[<<a, 0>>]>> \in Lines(rows)
      BY <2>1, <2>2
    <3>. QED
      BY <1>2, <3>1 DEF Covers
  <2>3. CASE b \in ByPe
    <3>1. <<Wild, b, rows[<<0, b>>]>> \in Lines(rows)
      BY <2>1, <2>3
    <3>. QED
      BY <1>2, <3>1 DEF Covers
  <2>4. CASE a \notin ByData /\ b \notin ByPe
    <3>1. m \in Left
      BY <1>2, <2>4
    <3>2. <<m[1], m[2], rows[m]>> \in Lines(rows)
      BY <2>1, <3>1
    <3>. QED
      BY <3>2 DEF Covers
  <2>. QED
    BY <2>2, <2>3, <2>4
<1>. QED
  BY <1>3, <1>4

\* gen_pla_group.py's merging of modes loses nothing: for every set of modes with a row and
\* every assignment of rows, the lookup of the lines is valid in exactly those modes and gives
\* the row of the mode; the order of the lines does not matter.
THEOREM MergedLinesAgree ==
  ASSUME NEW S \in SUBSET Modes, NEW R, NEW rows \in [S -> R], NEW m \in Modes
  PROVE  LineLookup(Lines(rows), m) = IF m \in S THEN [valid |-> TRUE, row |-> rows[m]]
                                      ELSE [valid |-> FALSE, row |-> 0]
<1> DEFINE hits == {l \in Lines(rows) : Covers(l, m)}
<1>1. CASE m \in S
  <2>1. hits # {}
    BY <1>1, LinesCoverRows
  <2>2. (CHOOSE l \in hits : TRUE) \in hits
    BY <2>1
  <2>3. (CHOOSE l \in hits : TRUE)[3] = rows[m]
    BY SMTT(60), <2>2, LinesAreRows
  <2>. QED
    BY <1>1, <2>1, <2>3 DEF LineLookup
<1>2. CASE m \notin S
  <2>1. hits = {}
    BY <1>2, LinesAreRows
  <2>. QED
    BY <1>2, <2>1 DEF LineLookup
<1>. QED
  BY <1>1, <1>2

\* The group map, read as the function it tabulates.
LEMMA GroupMapIs ==
  ASSUME NEW k \in ModrmKeys
  PROVE  GroupMap[k] = RowsByMode(k)
  BY TabulatedIs DEF GroupMap

\* The rows of a key are the first pass's entries in the modes that give one.
LEMMA RowsByModeIs ==
  ASSUME NEW f, NEW op
  PROVE  /\ DOMAIN RowsByMode(<<f, op>>) = {n \in Modes : First(op, 0, n, f) < 64}
         /\ \A n \in DOMAIN RowsByMode(<<f, op>>) :
               RowsByMode(<<f, op>>)[n] = First(op, 0, n, f)
  BY DEF RowsByMode

\* The group lookup of the decoder is the group row of the entry PLA: valid for exactly the
\* opcodes with a ModR/M byte whose first pass gives a row, in the modes that give one. This is
\* the self-check at the end of gen_pla_group.py, for every key.
THEOREM GroupLookupIsFirstPass ==
  ASSUME NEW f, NEW op, NEW mode \in Modes
  PROVE  GroupLookup(f, op, mode) =
           IF <<f, op>> \in ModrmKeys /\ First(op, 0, mode, f) < 64
           THEN [valid |-> TRUE, row |-> First(op, 0, mode, f)]
           ELSE [valid |-> FALSE, row |-> 0]
<1> DEFINE rows == RowsByMode(<<f, op>>)
           S == DOMAIN rows
           R == {rows[m] : m \in S}
<1>1. CASE <<f, op>> \in ModrmKeys
  <2>1. GroupTable[<<f, op>>] = Lines(rows)
    BY <1>1, GroupMapIs, TabulatedIs DEF GroupTable
  <2>2. GroupLookup(f, op, mode) = LineLookup(Lines(rows), mode)
    BY <1>1, <2>1 DEF GroupLookup
  <2>3. rows \in [S -> R]
    BY DEF RowsByMode
  <2>4. S \in SUBSET Modes
    BY RowsByModeIs
  <2>5. LineLookup(Lines(rows), mode) = IF mode \in S THEN [valid |-> TRUE, row |-> rows[mode]]
                                        ELSE [valid |-> FALSE, row |-> 0]
    <3> HIDE DEF S, rows, R
    <3>. QED
      BY <2>3, <2>4, MergedLinesAgree
  <2>. QED
    BY <1>1, <2>2, <2>5, RowsByModeIs
<1>2. CASE <<f, op>> \notin ModrmKeys
  BY <1>2 DEF GroupLookup
<1>. QED
  BY <1>1, <1>2

-----------------------------------------------------------------------------
(* The two passes side by side *)

\* The fields of a ModR/M byte.
LEMMA ModrmFields ==
  ASSUME NEW modrm \in 0..255
  PROVE  Reg(modrm) \in Regs /\ Memory(modrm) \in Bit
  BY SMT DEF Reg, Memory, Regs, Bit, Bits, Flag

\* A word of the entry ROM is one value if it builds.
LEMMA RomWords ==
  ASSUME RomBuilds, NEW k \in DOMAIN GroupEntryRom, NEW v \in GroupEntryRom[k]
  PROVE  (CHOOSE e \in GroupEntryRom[k] : TRUE) = v
  BY DEF RomBuilds, Agree

\* The decoder looks both passes up side by side, the second in a ROM whose address leaves out
\* the data size and the opcode map. When the generator's two checks passed, what it selects
\* is what the PLA gives in two passes one after the other, with REP or without: for every
\* opcode, mode and ModR/M byte.
THEOREM SideBySideIsChained ==
  ASSUME RomBuilds, RowsIgnoreRep,
         NEW f \in Bit, NEW op \in 0..255, NEW rep \in Bit, NEW mode \in Modes,
         NEW has_modrm \in BOOLEAN, NEW modrm \in 0..255
  PROVE  LET first == First(op, rep, mode, f)
         IN EntryFinal(<<op, rep, f>>, mode, op, f, has_modrm, modrm) =
              IF has_modrm /\ <<f, op>> \in ModrmKeys /\ first < 64
              THEN Casez(GroupEntryRows, <<first, Reg(modrm), Memory(modrm), mode[1], f>>)
              ELSE first
<1> DEFINE first == First(op, rep, mode, f)
           group == GroupLookup(f, op, mode)
<1>1. <<f, op>> \in ModrmKeys => first = First(op, 0, mode, f)
  BY DEF RowsIgnoreRep, Bit
<1>2. CASE has_modrm /\ <<f, op>> \in ModrmKeys /\ first < 64
  <2> DEFINE k == <<first, Reg(modrm), Memory(modrm)>>
             reach == <<first, mode[1], f>>
  <2>1. group = [valid |-> TRUE, row |-> first]
    BY <1>1, <1>2, GroupLookupIsFirstPass
  <2>2. mode \in DOMAIN GroupMap[<<f, op>>] /\ GroupMap[<<f, op>>][mode] = first
    <3>1. First(op, 0, mode, f) < 64
      BY <1>1, <1>2
    <3>2. <<f, op>> \in ModrmKeys
      BY <1>2
    <3>3. GroupMap[<<f, op>>] = RowsByMode(<<f, op>>)
      BY <3>2, GroupMapIs
    <3>4. DOMAIN RowsByMode(<<f, op>>) = {n \in Modes : First(op, 0, n, f) < 64}
      BY RowsByModeIs
    <3>5. mode \in DOMAIN RowsByMode(<<f, op>>)
      BY <3>1, <3>4
    <3>6. RowsByMode(<<f, op>>)[mode] = First(op, 0, mode, f)
      BY <3>5, RowsByModeIs
    <3>. HIDE DEF first
    <3>. QED
      BY <1>1, <3>2, <3>3, <3>5, <3>6
  <2>3. reach \in Reached
    BY <1>2, <2>2 DEF Reached
  <2>4. k \in {r[1] : r \in Reached} \X Regs \X Bit
    BY <2>3, ModrmFields
  <2>5. k \in DOMAIN GroupEntryRom /\ GroupEntryRom[k] = Values(Reached, k)
    BY <2>4, TabulatedIs DEF GroupEntryRom
  <2>6. Casez(GroupEntryRows, <<k[1], k[2], k[3], reach[2], reach[3]>>) \in Values(Reached, k)
    BY <2>3 DEF Values
  <2>7. (CHOOSE e \in GroupEntryRom[k] : TRUE)
          = Casez(GroupEntryRows, <<first, Reg(modrm), Memory(modrm), mode[1], f>>)
    BY <2>5, <2>6, RomWords
  <2>. QED
    BY <1>2, <2>1, <2>7 DEF EntryFinal
<1>3. CASE ~(has_modrm /\ <<f, op>> \in ModrmKeys /\ first < 64)
  <2>1. ~(group.valid /\ has_modrm)
    BY <1>1, <1>3, GroupLookupIsFirstPass
  <2>. QED
    BY <1>3, <2>1 DEF EntryFinal
<1>. QED
  BY <1>2, <1>3

-----------------------------------------------------------------------------
(* The rows of port B's table *)

\* Every row that matches a case carries its class.
LEMMA RowsAreCases ==
  ASSUME NEW V, NEW cases \in [Regs \X Bit -> V], NEW reg \in Regs, NEW mem \in Bit,
         NEW r \in Rows(cases), r[1] \in {AnyReg, reg}, r[2] \in {Wild, mem}
  PROVE  r[3] = cases[<<reg, mem>>] /\ r[3] # 0
<1> DEFINE of(m) == {cases[<<q, m>>] : q \in Regs}
           all == {cases[k] : k \in Regs \X Bit}
<1>1. reg # AnyReg /\ mem # Wild
  BY DEF AnyReg, Wild, Regs, Bit
<1>2. CASE Agree(all)
  <2>1. r = <<AnyReg, Wild, cases[<<0, 0>>]>> /\ r[3] # 0
    BY <1>2 DEF Rows
  <2>2. cases[<<0, 0>>] \in all /\ cases[<<reg, mem>>] \in all
    BY DEF Regs, Bit
  <2>. QED
    BY <1>2, <2>1, <2>2 DEF Agree
<1>3. CASE ~Agree(all) /\ \A m \in Bit : Agree(of(m))
  <2>1. PICK m \in Bit : r = <<AnyReg, m, cases[<<0, m>>]>> /\ r[3] # 0
    BY <1>3 DEF Rows
  <2>2. m = mem
    BY <1>1, <2>1 DEF Wild, Bit
  <2>3. cases[<<0, mem>>] \in of(mem) /\ cases[<<reg, mem>>] \in of(mem)
    <3>1. 0 \in Regs /\ reg \in Regs
      BY DEF Regs
    <3>. QED
      BY Zenon, <3>1
  <2>. QED
    BY <1>3, <2>1, <2>2, <2>3 DEF Agree
<1>4. CASE ~Agree(all) /\ ~\A m \in Bit : Agree(of(m))
  <2>1. PICK k \in Regs \X Bit : r = <<k[1], k[2], cases[k]>> /\ r[3] # 0
    BY <1>4 DEF Rows
  <2>2. PICK q \in Regs, m \in Bit : k = <<q, m>>
    BY <2>1
  <2>3. q = reg /\ m = mem
    BY <1>1, <2>1, <2>2 DEF AnyReg, Wild, Regs, Bit
  <2>. QED
    BY <2>1, <2>2, <2>3
<1>. QED
  BY <1>2, <1>3, <1>4

\* A case of a class other than zero has a row.
LEMMA RowsCoverCases ==
  ASSUME NEW V, NEW cases \in [Regs \X Bit -> V], NEW reg \in Regs, NEW mem \in Bit,
         cases[<<reg, mem>>] # 0
  PROVE  \E r \in Rows(cases) : r[1] \in {AnyReg, reg} /\ r[2] \in {Wild, mem}
<1> DEFINE of(m) == {cases[<<q, m>>] : q \in Regs}
           all == {cases[k] : k \in Regs \X Bit}
<1>1. CASE Agree(all)
  <2>1. cases[<<0, 0>>] \in all /\ cases[<<reg, mem>>] \in all
    BY DEF Regs, Bit
  <2>2. cases[<<0, 0>>] # 0
    BY <1>1, <2>1 DEF Agree
  <2>3. <<AnyReg, Wild, cases[<<0, 0>>]>> \in Rows(cases)
    BY <1>1, <2>2 DEF Rows
  <2>. QED
    BY <2>3
<1>2. CASE ~Agree(all) /\ \A m \in Bit : Agree(of(m))
  <2>1. cases[<<0, mem>>] \in of(mem) /\ cases[<<reg, mem>>] \in of(mem)
    BY DEF Regs
  <2>2. cases[<<0, mem>>] # 0
    BY <1>2, <2>1 DEF Agree
  <2>3. <<AnyReg, mem, cases[<<0, mem>>]>> \in Rows(cases)
    BY <1>2, <2>2 DEF Rows
  <2>. QED
    BY <2>3
<1>3. CASE ~Agree(all) /\ ~\A m \in Bit : Agree(of(m))
  <2>1. <<reg, mem, cases[<<reg, mem>>]>> \in Rows(cases)
    BY <1>3 DEF Rows
  <2>. QED
    BY <2>1
<1>. QED
  BY <1>1, <1>2, <1>3

\* gen_pb_b1_class.py's rows lose nothing either: whatever class each form of ModR/M has, the
\* lookup of the generated casez gives it, in any order of the rows.
THEOREM RowsGiveClasses ==
  ASSUME NEW V, NEW cases \in [Regs \X Bit -> V], NEW reg \in Regs, NEW mem \in Bit
  PROVE  RowLookup(Rows(cases), reg, mem) = cases[<<reg, mem>>]
<1> DEFINE hits == {r \in Rows(cases) : r[1] \in {AnyReg, reg} /\ r[2] \in {Wild, mem}}
<1>1. CASE cases[<<reg, mem>>] = 0
  <2>1. hits = {}
    BY <1>1, RowsAreCases
  <2>. QED
    BY <1>1, <2>1 DEF RowLookup
<1>2. CASE cases[<<reg, mem>>] # 0
  <2>1. hits # {}
    BY <1>2, RowsCoverCases
  <2>2. (CHOOSE r \in hits : TRUE) \in hits
    BY <2>1
  <2>3. (CHOOSE r \in hits : TRUE)[3] = cases[<<reg, mem>>]
    BY <2>2, RowsAreCases
  <2>. QED
    BY <2>1, <2>3 DEF RowLookup
<1>. QED
  BY <1>1, <1>2

\* Port B's class of a successor is the class the recipes give it, in every mode and whatever
\* its ModR/M.rm, when the generator's check passed: the table by opcode, ModR/M.reg and memory
\* form leaves out nothing that the class depends on.
THEOREM PortBTableIsExact ==
  ASSUME TableBuilds, NEW k \in Opcodes, NEW reg \in Regs, NEW mem \in Bit,
         NEW mode \in Modes, NEW rm \in 0..7
  PROVE  RowLookup(ClassTable[k], reg, mem)
           = DropDontCare(Class(Bare(k[1], k[2], mode, Modrm(reg, mem, rm))))
<1> DEFINE cases == Cases(k[1], k[2])
           V == {cases[c] : c \in Regs \X Bit}
<1>1. ClassTable[k] = Rows(cases)
  BY TabulatedIs DEF ClassTable
<1>2. cases \in [Regs \X Bit -> V]
  BY DEF Cases
<1>3. RowLookup(Rows(cases), reg, mem) = cases[<<reg, mem>>]
  <2> HIDE DEF cases, V
  <2>. QED
    BY <1>2, RowsGiveClasses
<1>4. cases[<<reg, mem>>] = DropDontCare(Class(Bare(k[1], k[2], mode, Modrm(reg, mem, rm))))
  BY DEF TableBuilds
<1>. QED
  BY <1>1, <1>3, <1>4

-----------------------------------------------------------------------------
(* The optimizer's own entries *)

\* The overlays.
LEMMA OverlayNames ==
  DOMAIN Overlay = {"x87_m32_load", "x87_reg", "x87_st_m32", "rmw_m_r_fast", "rmw_unary_fast"}
  BY DEF Overlay

\* Each overlay's own entry and the one it falls back to.
LEMMA OverlayFields ==
  /\ Overlay.x87_m32_load[1] = 1239 /\ Overlay.x87_m32_load[2] = 2501
  /\ Overlay.x87_reg[1] = 1217 /\ Overlay.x87_reg[2] = 2513
  /\ Overlay.x87_st_m32[1] = 1340 /\ Overlay.x87_st_m32[2] = 2515
  /\ Overlay.rmw_m_r_fast[1] = 74 /\ Overlay.rmw_m_r_fast[2] = 2507
  /\ Overlay.rmw_unary_fast[1] = 78 /\ Overlay.rmw_unary_fast[2] = 2510
  BY DEF Overlay

\* No two overlays share an entry of their own.
LEMMA OverlaysDistinct ==
  ASSUME NEW a \in DOMAIN Overlay, NEW b \in DOMAIN Overlay, Overlay[a][2] = Overlay[b][2]
  PROVE  a = b
  BY OverlayNames, OverlayFields

\* An overlay always finds its way back: whatever entry D1 hands over in place of the PLA's,
\* its architectural entry is the PLA's, for every opcode and ModR/M byte; the one exception is
\* NOP, which replaces XCHG EAX, EAX for good. A restart from the sequencer after an overlay
\* therefore runs the instruction that was decoded.
THEOREM OverlaysGoBack ==
  ASSUME NEW entry, entry \notin {Overlay[n][2] : n \in DOMAIN Overlay}, NEW op, NEW modrm
  PROVE  LET taken == EffectiveEntry(entry, op, modrm)
         IN FallbackEntry(taken) = entry \/ (taken = Recipe.nop[1] /\ op = 144)
<1> DEFINE fits == {n \in DOMAIN Overlay : Overlay[n][1] = entry /\ Qualifies(n, op, modrm)}
<1>1. CASE fits # {}
  <2> DEFINE a == CHOOSE n \in fits : TRUE
  <2>1. a \in fits
    BY <1>1
  <2>2. EffectiveEntry(entry, op, modrm) = Overlay[a][2]
    BY <1>1 DEF EffectiveEntry
  <2>3. a \in DOMAIN Overlay /\ Overlay[a][1] = entry
    BY <2>1
  <2> DEFINE of == {n \in DOMAIN Overlay : Overlay[n][2] = Overlay[a][2]}
  <2>4. of = {a}
    <3> HIDE DEF a
    <3>. QED
      BY <2>3, OverlaysDistinct
  <2>5. FallbackEntry(Overlay[a][2]) = Overlay[CHOOSE n \in of : TRUE][1]
    <3> HIDE DEF a
    <3>. QED
      BY <2>4 DEF FallbackEntry
  <2>6. (CHOOSE n \in of : TRUE) = a
    <3> HIDE DEF a, of
    <3>. QED
      BY <2>4
  <2>. QED
    BY <2>2, <2>3, <2>5, <2>6
<1>2. CASE fits = {} /\ entry = 182 /\ op = 144
  BY <1>2 DEF EffectiveEntry
<1>3. CASE fits = {} /\ ~(entry = 182 /\ op = 144)
  <2>1. EffectiveEntry(entry, op, modrm) = entry
    BY <1>3 DEF EffectiveEntry
  <2>2. FallbackEntry(entry) = entry
    BY DEF FallbackEntry
  <2>. QED
    BY <2>1, <2>2
<1>. QED
  BY <1>1, <1>2, <1>3

-----------------------------------------------------------------------------
(* The length tables *)

\* The parts of a ModR/M byte that index the tables.
LEMMA ModrmParts ==
  ASSUME NEW modrm \in Nat
  PROVE  /\ Bits(modrm, 7, 6) \in 0..3 /\ Bits(modrm, 2, 0) \in Regs
         /\ Flag(Bits(modrm, 5, 4) # 0) \in Bit
  BY SMT DEF Bits, Regs, Bit, Flag

\* The reg input of the opcode table: /2 to /7.
HighReg(modrm) == Flag(Bits(modrm, 5, 4) # 0)

LEMMA OpcodeTableIs ==
  ASSUME NEW has_0f \in Bit, NEW op \in 0..255, NEW d32 \in Bit, NEW a32 \in Bit, NEW modrm \in Nat
  PROVE  D1Length(has_0f, op, d32, a32, modrm) =
           OpcodeSide(has_0f, op, d32, a32, HighReg(modrm))[1] * 8
             + OpcodeSide(has_0f, op, d32, a32, HighReg(modrm))[2]
<1> DEFINE hi == HighReg(modrm)
<1>0. hi \in Bit
  BY ModrmParts DEF HighReg
<1> DEFINE idx == has_0f * 2048 + op * 8 + d32 * 4 + a32 * 2 + hi
<1>1. D1Length(has_0f, op, d32, a32, modrm) = LengthEntry(idx)
  BY DEF D1Length, HighReg
<1>2. /\ Bits(idx, 11, 11) = has_0f /\ Bits(idx, 10, 3) = op
      /\ Bits(idx, 2, 2) = d32 /\ Bits(idx, 1, 1) = a32 /\ Bits(idx, 0, 0) = hi
  <2> HIDE DEF hi
  <2>. hi \in Bit
    BY <1>0
  <2>1. /\ (idx \div 2048) % 2 = has_0f /\ (idx \div 8) % 256 = op
        /\ (idx \div 4) % 2 = d32 /\ (idx \div 2) % 2 = a32 /\ (idx \div 1) % 2 = hi
    BY SMTT(60) DEF Bit
  <2>2. /\ 2^11 = 2048 /\ 2^(11 - 11 + 1) = 2 /\ 2^3 = 8 /\ 2^(10 - 3 + 1) = 256
        /\ 2^2 = 4 /\ 2^(2 - 2 + 1) = 2 /\ 2^1 = 2 /\ 2^(1 - 1 + 1) = 2 /\ 2^0 = 1
        /\ 2^(0 - 0 + 1) = 2
    BY SMT
  <2> HIDE DEF idx
  <2>. QED
    BY <2>1, <2>2 DEF Bits
<1>3. D1Length(has_0f, op, d32, a32, modrm) =
        OpcodeSide(has_0f, op, d32, a32, hi)[1] * 8 + OpcodeSide(has_0f, op, d32, a32, hi)[2]
  <2> HIDE DEF idx, hi
  <2>. QED
    BY <1>1, <1>2 DEF LengthEntry
<1>. QED
  BY Zenon, <1>3

LEMMA ModrmTableIs ==
  ASSUME NEW a32 \in Bit, NEW modrm \in Nat, NEW sib \in Nat
  PROVE  D1ModrmLength(a32, modrm, sib)
           = ModrmSide(a32, Bits(modrm, 7, 6), Bits(modrm, 2, 0), Bits(sib, 2, 0))
<1> DEFINE mod == Bits(modrm, 7, 6)
           rm == Bits(modrm, 2, 0)
           base == Bits(sib, 2, 0)
<1>0. mod \in 0..3 /\ rm \in Regs /\ base \in Regs
  BY ModrmParts
<1> DEFINE idx == a32 * 256 + mod * 64 + rm * 8 + base
<1>1. D1ModrmLength(a32, modrm, sib) = ModrmEntry(idx)
  BY DEF D1ModrmLength
<1>2. /\ Bits(idx, 8, 8) = a32 /\ Bits(idx, 7, 6) = mod
      /\ Bits(idx, 5, 3) = rm /\ Bits(idx, 2, 0) = base
  <2> HIDE DEF mod, rm, base
  <2>1. /\ (idx \div 256) % 2 = a32 /\ (idx \div 64) % 4 = mod
        /\ (idx \div 8) % 8 = rm /\ (idx \div 1) % 8 = base
    BY <1>0, SMT DEF Bit, Regs
  <2>2. /\ 2^8 = 256 /\ 2^(8 - 8 + 1) = 2 /\ 2^6 = 64 /\ 2^(7 - 6 + 1) = 4
        /\ 2^3 = 8 /\ 2^(5 - 3 + 1) = 8 /\ 2^0 = 1 /\ 2^(2 - 0 + 1) = 8
    BY SMT
  <2> HIDE DEF idx
  <2>. QED
    BY <2>1, <2>2 DEF Bits
<1>3. D1ModrmLength(a32, modrm, sib) = ModrmSide(a32, mod, rm, base)
  <2> HIDE DEF idx, mod, rm, base
  <2>. QED
    BY <1>1, <1>2 DEF ModrmEntry
<1>. QED
  BY Zenon, <1>3

\* The two flat tables of gen_length_table.py hold the script's two functions, entry for entry:
\* the decoder's lookup, with the table's packed index, of any opcode, mode, ModR/M and SIB
\* byte is the opcode side and the ModR/M side of its length.
THEOREM LengthTablesAreFlat ==
  ASSUME NEW has_0f \in Bit, NEW op \in 0..255, NEW d32 \in Bit, NEW a32 \in Bit,
         NEW modrm \in Nat, NEW sib \in Nat
  PROVE  /\ LET e == OpcodeSide(has_0f, op, d32, a32, Flag(Bits(modrm, 5, 4) # 0))
            IN D1Length(has_0f, op, d32, a32, modrm) = e[1] * 8 + e[2]
         /\ D1ModrmLength(a32, modrm, sib)
              = ModrmSide(a32, Bits(modrm, 7, 6), Bits(modrm, 2, 0), Bits(sib, 2, 0))
<1>1. D1Length(has_0f, op, d32, a32, modrm) =
        OpcodeSide(has_0f, op, d32, a32, HighReg(modrm))[1] * 8
          + OpcodeSide(has_0f, op, d32, a32, HighReg(modrm))[2]
  BY ZenonT(60), OpcodeTableIs
<1>2. D1ModrmLength(a32, modrm, sib)
        = ModrmSide(a32, Bits(modrm, 7, 6), Bits(modrm, 2, 0), Bits(sib, 2, 0))
  BY ModrmTableIs
<1>. QED
  BY Zenon, <1>1, <1>2 DEF HighReg

-----------------------------------------------------------------------------
(* What D1 hands over *)

\* The fields of the work record that the plan and the SIB byte leave alone.
HeadFields == {"v", "opcode", "has_0f", "rep", "seg", "rep_lock", "data32", "addr32", "has_modrm",
         "modrm", "has_sib", "entry", "adv", "imm", "disp", "pending"}
Fields == HeadFields \cup {"sib", "action", "lit1", "lit2", "length", "body"}

LEMMA LiteralsKeep ==
  ASSUME NEW w, DOMAIN w = Fields, NEW f \in Fields \ {"lit1", "lit2"}
  PROVE  DOMAIN PlanLiterals(w) = Fields /\ PlanLiterals(w)[f] = w[f]
<1> DEFINE imm == w.pending
           disp == ModrmDispSize(w.addr32, w.modrm, 0, FALSE)
           a == Plan(w, "DISP", disp, disp = 1, FALSE)
           b == Plan(w, "IMM", imm.first, imm.sext /\ imm.first = 1, TRUE)
<1>1. DOMAIN a = Fields /\ a[f] = w[f] /\ DOMAIN b = Fields /\ b[f] = w[f]
  BY DEF Plan, Fields, HeadFields
<1>2. /\ DOMAIN Plan(a, "IMM", imm.total, imm.sext, FALSE) = Fields
      /\ Plan(a, "IMM", imm.total, imm.sext, FALSE)[f] = a[f]
      /\ DOMAIN Plan(b, "DISP", imm.total - imm.first, imm.sext, FALSE) = Fields
      /\ Plan(b, "DISP", imm.total - imm.first, imm.sext, FALSE)[f] = b[f]
  <2> HIDE DEF a, b
  <2>. QED
    BY <1>1 DEF Plan, Fields, HeadFields
<1>. QED
  BY <1>1, <1>2 DEF PlanLiterals

LEMMA SibKeeps ==
  ASSUME NEW w, DOMAIN w = Fields, NEW sib, NEW f \in HeadFields \cup {"action"}
  PROVE  DOMAIN CaptureSib(w, sib) = Fields /\ CaptureSib(w, sib)[f] = w[f]
<1> DEFINE disp == ModrmDispSize(w.addr32, w.modrm, sib, TRUE)
           longer == [w EXCEPT !.sib = sib, !.length = (@ + 1 + disp) % 32, !.body = @ + 1 + disp]
           a == Plan(longer, "DISP", disp, disp = 1, FALSE)
<1>1. DOMAIN longer = Fields /\ longer[f] = w[f]
  BY DEF Fields, HeadFields
<1>2. f \in Fields \ {"lit1", "lit2"}
  BY DEF Fields, HeadFields
<1>3. DOMAIN a = Fields /\ a[f] = w[f]
  <2> HIDE DEF longer
  <2>. QED
    BY <1>1, <1>2 DEF Plan, Fields, HeadFields
<1>4. /\ DOMAIN Plan(a, "IMM", w.pending.total, w.pending.sext, FALSE) = Fields
      /\ Plan(a, "IMM", w.pending.total, w.pending.sext, FALSE)[f] = w[f]
  <2> HIDE DEF a
  <2>. QED
    BY <1>2, <1>3 DEF Plan, Fields, HeadFields
<1>. QED
  BY <1>4 DEF CaptureSib

LEMMA CompletedKeeps ==
  ASSUME NEW w, DOMAIN w = Fields
  PROVE  /\ DOMAIN Completed(w) = Fields
         /\ \A f \in HeadFields \ {"entry"} : Completed(w)[f] = w[f]
         /\ Completed(w).entry = EffectiveEntry(w.entry, w.opcode, w.modrm)
<1> DEFINE b == IF w.has_sib THEN CaptureSib(w, D1Bytes[3]) ELSE w
           e == EffectiveEntry(w.entry, w.opcode, w.modrm)
<1>1. DOMAIN b = Fields /\ \A f \in HeadFields : b[f] = w[f]
  BY SibKeeps DEF Fields, HeadFields
<1>2. DOMAIN Issued(b, e) = Fields /\ Issued(b, e).entry = e
      /\ \A f \in HeadFields \ {"entry"} : Issued(b, e)[f] = b[f]
  <2> HIDE DEF b, e
  <2>. QED
    BY <1>1 DEF Issued, Fields, HeadFields
<1>. QED
  BY <1>1, <1>2 DEF Completed

\* The record before the plan.
InView == Structure(D1Bytes, prefix, data32, addr32, RomCurrent)

LEMMA InViewIs ==
  LET op == D1Bytes[1]
      has_modrm == HasModrm(Control[<<prefix.p0f, op>>])
  IN /\ DOMAIN InView = Fields
     /\ InView.v = TRUE /\ InView.opcode = op /\ InView.has_0f = prefix.p0f /\ InView.rep = prefix.rep
     /\ InView.seg = prefix.seg /\ InView.rep_lock = prefix.rep_lock
     /\ InView.data32 = data32 /\ InView.addr32 = addr32 /\ InView.has_modrm = has_modrm
     /\ InView.modrm = IF has_modrm THEN D1Bytes[2] ELSE 0
     /\ InView.entry = IF LockInvalid(prefix.rep_lock, prefix.p0f, op, has_modrm, D1Bytes[2]) THEN Invalid
                       ELSE EntryFinal(RomCurrent, <<data32, PE>>, op, prefix.p0f, has_modrm, D1Bytes[2])
<1> DEFINE op == D1Bytes[1]
           has_modrm == HasModrm(Control[<<prefix.p0f, op>>])
<1>1. DOMAIN InView = Fields
  BY DEF InView, Structure, Fields, HeadFields
<1>2. /\ InView.opcode = op /\ InView.has_0f = prefix.p0f /\ InView.rep = prefix.rep /\ InView.seg = prefix.seg
      /\ InView.rep_lock = prefix.rep_lock /\ InView.data32 = data32 /\ InView.addr32 = addr32
  BY DEF InView, Structure
<1>3. InView.v = TRUE
  BY Zenon DEF InView, Structure
<1>4. InView.has_modrm = has_modrm
  BY Zenon DEF InView, Structure
<1>5. InView.modrm = IF has_modrm THEN D1Bytes[2] ELSE 0
  BY DEF InView, Structure
<1>6. InView.entry = IF LockInvalid(prefix.rep_lock, prefix.p0f, op, has_modrm, D1Bytes[2]) THEN Invalid
                     ELSE EntryFinal(RomCurrent, <<data32, PE>>, op, prefix.p0f, has_modrm, D1Bytes[2])
  BY Zenon DEF InView, Structure
<1>. QED
  BY Zenon, <1>1, <1>2, <1>3, <1>4, <1>5, <1>6

\* What D1 hands over is of the instruction in view, its entry the effective one.
LEMMA HandoffHead ==
  ASSUME PrereadHandoff, queue.k1 \in Int
  PROVE  LET has_modrm == HasModrm(Control[<<prefix.p0f, opcode>>])
             modrm == IF has_modrm THEN D1Bytes[2] ELSE 0
             w == Handoff
         IN /\ DOMAIN w = Fields
            /\ w.v = TRUE /\ w.opcode = opcode /\ w.has_0f = prefix.p0f /\ w.rep = prefix.rep
            /\ w.seg = prefix.seg /\ w.rep_lock = prefix.rep_lock
            /\ w.data32 = data32 /\ w.addr32 = addr32 /\ w.has_modrm = has_modrm /\ w.modrm = modrm
            /\ w.adv = InView.adv
            /\ w.entry = EffectiveEntry(
                 IF LockInvalid(prefix.rep_lock, prefix.p0f, opcode, has_modrm, D1Bytes[2]) THEN Invalid
                 ELSE EntryFinal(RomCurrent, <<data32, PE>>, opcode, prefix.p0f, has_modrm, D1Bytes[2]),
                 opcode, modrm)
<1> DEFINE s == InView
           has_modrm == HasModrm(Control[<<prefix.p0f, opcode>>])
           modrm == IF has_modrm THEN D1Bytes[2] ELSE 0
           lock == LockInvalid(prefix.rep_lock, prefix.p0f, opcode, has_modrm, D1Bytes[2])
           final == EntryFinal(RomCurrent, <<data32, PE>>, opcode, prefix.p0f, has_modrm, D1Bytes[2])
<1>1. D1Bytes[1] = opcode
  BY DEF D1Bytes, Bytes, opcode
<1>2. /\ DOMAIN s = Fields
      /\ s.v = TRUE /\ s.opcode = opcode /\ s.has_0f = prefix.p0f /\ s.rep = prefix.rep
      /\ s.seg = prefix.seg /\ s.rep_lock = prefix.rep_lock
      /\ s.data32 = data32 /\ s.addr32 = addr32 /\ s.has_modrm = has_modrm /\ s.modrm = modrm
      /\ s.entry = IF lock THEN Invalid ELSE final
  BY Zenon, <1>1, InViewIs
<1>3. Handoff = Completed(PlanLiterals(s))
  BY DEF Handoff, StructWork, InView
<1>. HIDE DEF s, has_modrm, modrm, lock, final
<1>4. /\ DOMAIN PlanLiterals(s) = Fields
      /\ \A f \in Fields \ {"lit1", "lit2"} : PlanLiterals(s)[f] = s[f]
  BY <1>2, LiteralsKeep DEF Fields
<1>5. /\ DOMAIN Handoff = Fields
      /\ \A f \in HeadFields \ {"entry"} : Handoff[f] = PlanLiterals(s)[f]
      /\ Handoff.entry = EffectiveEntry(PlanLiterals(s).entry, PlanLiterals(s).opcode, PlanLiterals(s).modrm)
  BY <1>3, <1>4, CompletedKeeps
<1>6. \A f \in HeadFields \ {"entry"} : Handoff[f] = s[f]
  BY <1>4, <1>5 DEF Fields, HeadFields
<1>7. PlanLiterals(s).entry = s.entry /\ PlanLiterals(s).opcode = s.opcode /\ PlanLiterals(s).modrm = s.modrm
  BY <1>4 DEF Fields, HeadFields
<1>8. Handoff.entry = EffectiveEntry(IF lock THEN Invalid ELSE final, opcode, modrm)
  BY Zenon, <1>2, <1>5, <1>7
<1>9. /\ Handoff.v = s.v /\ Handoff.opcode = s.opcode /\ Handoff.has_0f = s.has_0f /\ Handoff.rep = s.rep
      /\ Handoff.seg = s.seg /\ Handoff.rep_lock = s.rep_lock /\ Handoff.data32 = s.data32
      /\ Handoff.addr32 = s.addr32 /\ Handoff.has_modrm = s.has_modrm /\ Handoff.modrm = s.modrm
      /\ Handoff.adv = s.adv
  BY Zenon, <1>6 DEF HeadFields
<1>. QED
  BY Zenon, <1>2, <1>5, <1>8, <1>9 DEF has_modrm, modrm, lock, final, s

-----------------------------------------------------------------------------
(* The lengths *)

\* A nonempty set of rows has a first: of the intervals below its members, one
\* contains no other.
LEMMA FirstRow ==
  ASSUME NEW n \in Nat, NEW S \in SUBSET (1..n), S # {}
  PROVE  \E r \in S : \A q \in S : r <= q
<1> DEFINE Below(k) == {j \in 1..n : j < k}
           T == {Below(k) : k \in S}
<1>1. IsFiniteSet(1..n)
  BY FS_Interval
<1>2. IsWellFoundedOn(StrictSubsetOrdering(1..n), SUBSET (1..n))
  BY <1>1, FS_StrictSubsetOrderingWellFounded, FS_FiniteSubsetsOfFinite
<1>3. T \subseteq SUBSET (1..n) /\ T # {}
  OBVIOUS
<1>4. PICK A \in T : \A B \in T : ~ (<<B, A>> \in StrictSubsetOrdering(1..n))
  BY <1>2, <1>3, WFMin
<1>5. PICK m \in S : A = Below(m)
  OBVIOUS
<1>6. ASSUME NEW k \in S, ~ (m <= k) PROVE FALSE
  <2>1. k \in 1..n /\ m \in 1..n /\ k < m
    BY <1>6
  <2>2. Below(k) \subseteq Below(m) /\ k \in Below(m) /\ k \notin Below(k)
    BY <2>1
  <2>3. Below(k) \in T /\ Below(k) \in SUBSET (1..n) /\ Below(m) \in SUBSET (1..n)
    OBVIOUS
  <2>4. <<Below(k), A>> \in StrictSubsetOrdering(1..n)
    BY <2>2, <2>3, <1>5 DEF StrictSubsetOrdering
  <2>. QED
    BY <2>3, <2>4, <1>4
<1>. QED
  BY <1>6

\* The lookups give the value of a row, or zero.
LEMMA PlaLookupIs ==
  ASSUME NEW n \in Nat, NEW rows, DOMAIN rows = 1..n, NEW f, NEW op
  PROVE  PlaLookup(rows, f, op) = 0 \/ \E r \in 1..n : PlaLookup(rows, f, op) = rows[r][2]
<1> DEFINE key == [i \in 1..9 |-> IF i = 1 THEN f ELSE Bits(op, 9 - i, 9 - i)]
           hits == {r \in DOMAIN rows : \A i \in 1..9 : rows[r][1][i] \in {2, key[i]}}
           first == CHOOSE r \in hits : \A q \in hits : r <= q
<1>1. PlaLookup(rows, f, op) = IF hits = {} THEN 0 ELSE rows[first][2]
  BY DEF PlaLookup
<1>2. hits # {} => first \in hits
  <2>1. hits \in SUBSET (1..n)
    OBVIOUS
  <2> HIDE DEF hits
  <2>. QED
    BY <2>1, FirstRow
<1>3. hits \subseteq 1..n
  OBVIOUS
<1> HIDE DEF hits, first
<1>. QED
  BY <1>1, <1>2, <1>3

Takes(row, key) == \A i \in DOMAIN key : key[i] \in row[1][i]

LEMMA CasezIs ==
  ASSUME NEW n \in Nat, NEW rows, DOMAIN rows = 1..n, NEW key
  PROVE  \/ Casez(rows, key) = 0 /\ \A r \in 1..n : ~ Takes(rows[r], key)
         \/ \E r \in 1..n : /\ Takes(rows[r], key) /\ \A q \in 1..n : Takes(rows[q], key) => r <= q
                            /\ Casez(rows, key) = rows[r][2]
<1> DEFINE hits == {r \in 1..n : Takes(rows[r], key)}
           first == CHOOSE r \in hits : \A q \in hits : r <= q
<1>1. Casez(rows, key) = IF hits = {} THEN 0 ELSE rows[first][2]
  BY DEF Casez, Takes
<1>2. hits # {} => first \in hits /\ \A q \in hits : first <= q
  <2>1. hits \in SUBSET (1..n)
    OBVIOUS
  <2> HIDE DEF hits
  <2>. QED
    BY <2>1, FirstRow
<1>3. \A r : r \in hits <=> r \in 1..n /\ Takes(rows[r], key)
  OBVIOUS
<1> HIDE DEF hits, first
<1>4. QED
  BY <1>1, <1>2, <1>3

\* The control word of an opcode is a number.
LEMMA ControlRowWords == DOMAIN ControlRows = 1..27 /\ \A r \in 1..27 : ControlRows[r][2] \in Nat
<1>1. ASSUME NEW r \in 1..27 PROVE ControlRows[r][2] \in Nat
  <2>1. r \in {1, 2, 3, 4, 5, 6, 7, 8, 9, 10, 11, 12, 13, 14, 15, 16, 17, 18, 19, 20, 21, 22, 23, 24, 25, 26, 27}
    OBVIOUS
  <2>. QED
    BY <2>1 DEF ControlRows
<1>. QED
  BY <1>1 DEF ControlRows

LEMMA ControlWords ==
  ASSUME NEW f \in {0, 1}, NEW op \in 0..255
  PROVE  Control[<<f, op>>] \in Nat
<1>1. Control[<<f, op>>] = PlaLookup(ControlRows, f, op)
  BY TabulatedIs DEF Control
<1>2. PICK n, rows : n = 27 /\ rows = ControlRows
  OBVIOUS
<1>3. n \in Nat /\ DOMAIN rows = 1..n /\ \A r \in 1..n : rows[r][2] \in Nat
  BY <1>2, ControlRowWords
<1>4. PlaLookup(rows, f, op) = 0 \/ \E r \in 1..n : PlaLookup(rows, f, op) = rows[r][2]
  BY <1>3, PlaLookupIs
<1>. QED
  BY <1>1, <1>2, <1>3, <1>4

-----------------------------------------------------------------------------
(* The rows of the PLA *)

Own == {Overlay[n][2] : n \in DOMAIN Overlay}

LEMMA OwnIs == Own = {2501, 2507, 2510, 2513, 2515}
  BY OverlayNames, OverlayFields DEF Own

LEMMA OpcodeIs ==
  ASSUME NEW ops, NEW f, NEW value
  PROVE  /\ Opcode(ops, f, value)[1][1] = ops /\ Opcode(ops, f, value)[1][5] = {f}
         /\ Opcode(ops, f, value)[2] = value
  BY DEF Opcode

\* The first pass gives no overlay's own entry; only XCHG EAX, EAX gives 182 and
\* only 0F 01 gives row 33.
LEMMA EntryRowsAre ==
  /\ DOMAIN EntryRows = 1..32
  /\ \A r \in 1..32 : EntryRows[r][2] \notin Own
  /\ \A r \in 1..32 : EntryRows[r][2] = 182 => EntryRows[r][1][1] = {144}
<1>1. DOMAIN EntryRows = 1..32
  BY DEF EntryRows
<1>2. ASSUME NEW r \in 1..32
      PROVE  EntryRows[r][2] \notin Own
  <2>1. r \in {1, 2, 3, 4, 5, 6, 7, 8, 9, 10, 11, 12, 13, 14, 15, 16, 17, 18, 19, 20, 21, 22, 23, 24, 25, 26, 27,
               28, 29, 30, 31, 32}
    OBVIOUS
  <2>2. EntryRows[r][2] \notin {2501, 2507, 2510, 2513, 2515}
    BY SMTT(60), <2>1, OpcodeIs DEF EntryRows
  <2>. QED
    BY <2>2, OwnIs
<1>3. ASSUME NEW r \in 1..32, EntryRows[r][2] = 182
      PROVE  EntryRows[r][1][1] = {144}
  <2>1. r \in {1, 2, 3, 4, 5, 6, 7, 8, 9, 10, 11, 12, 13, 14, 15, 16, 17, 18, 19, 20, 21, 22, 23, 24, 25, 26, 27,
               28, 29, 30, 31, 32}
    OBVIOUS
  <2>. QED
    BY SMTT(60), <1>3, <2>1, OpcodeIs DEF EntryRows
<1>4. \A r \in 1..32 : EntryRows[r][2] \notin Own
  BY <1>2
<1>5. \A r \in 1..32 : EntryRows[r][2] = 182 => EntryRows[r][1][1] = {144}
  BY <1>3
<1>. QED
  BY <1>1, <1>4, <1>5

\* Only the row of 0F 01 gives 33.
LEMMA RowsOf33 ==
  \A r \in 1..32 : EntryRows[r][2] = 33 => EntryRows[r][1][1] = {1} /\ EntryRows[r][1][5] = {1}
<1>1. ASSUME NEW r \in 1..32, EntryRows[r][2] = 33
      PROVE  EntryRows[r][1][1] = {1} /\ EntryRows[r][1][5] = {1}
  <2>1. r \in {1, 2, 3, 4, 5, 6, 7, 8, 9, 10, 11, 12, 13, 14, 15, 16, 17, 18, 19, 20, 21, 22, 23, 24, 25, 26, 27,
               28, 29, 30, 31, 32}
    OBVIOUS
  <2>. QED
    BY SMTT(60), <1>1, <2>1, OpcodeIs DEF EntryRows
<1>. QED
  BY <1>1

\* The rows before the one of 0F 01 are of other opcodes.
LEMMA RowOf0F01 ==
  /\ EntryRows[13][2] = 33 /\ EntryRows[13] = Opcode({1}, 1, 33)
  /\ \A r \in 1..12 : 1 \notin EntryRows[r][1][1] \/ 1 \notin EntryRows[r][1][5]
<1>1. ASSUME NEW r \in 1..12 PROVE 1 \notin EntryRows[r][1][1] \/ 1 \notin EntryRows[r][1][5]
  <2>1. r \in {1, 2, 3, 4, 5, 6, 7, 8, 9, 10, 11, 12}
    OBVIOUS
  <2>. QED
    BY <2>1, OpcodeIs DEF EntryRows
<1>. QED
  BY <1>1, OpcodeIs DEF EntryRows

LEMMA GroupIs ==
  ASSUME NEW rows, NEW regs, NEW mems, NEW f, NEW value
  PROVE  /\ Group(rows, regs, mems, f, value)[2] = value
         /\ Group(rows, regs, mems, f, value)[1] = <<rows, regs, mems, Bit, {f}>>
  BY DEF Group

LEMMA GroupRowsAre ==
  /\ DOMAIN GroupRows = 1..46 /\ Len(GroupRows) = 46 /\ GroupRows = [r \in 1..46 |-> GroupRows[r]]
  /\ \A r \in 1..46 : GroupRows[r][2] \notin {182, 2501, 2507, 2510, 2513, 2515}
  /\ GroupRows[46] = Group({32, 33}, {7}, Bit, 1, 2091)
<1>1. DOMAIN GroupRows = 1..46 /\ Len(GroupRows) = 46 /\ GroupRows = [r \in 1..46 |-> GroupRows[r]]
  BY DEF GroupRows
<1>2. ASSUME NEW r \in 1..46 PROVE GroupRows[r][2] \notin {182, 2501, 2507, 2510, 2513, 2515}
  <2>1. r \in {1, 2, 3, 4, 5, 6, 7, 8, 9, 10, 11, 12, 13, 14, 15, 16, 17, 18, 19, 20, 21, 22, 23, 24, 25, 26, 27,
               28, 29, 30, 31, 32, 33, 34, 35, 36, 37, 38, 39, 40, 41, 42, 43, 44, 45, 46}
    OBVIOUS
  <2>. QED
    BY <2>1, GroupIs DEF GroupRows, Invalid
<1>3. GroupRows[46] = Group({32, 33}, {7}, Bit, 1, 2091)
  BY DEF GroupRows, Invalid
<1>. QED
  BY <1>1, <1>2, <1>3

\* The rows with the one of INVLPG split off.
LEMMA GroupEntryRowsAre ==
  /\ DOMAIN GroupEntryRows = 1..48
  /\ GroupEntryRows[1] = Group({33}, {7}, {1}, 1, 2503)
  /\ \A r \in 1..45 : GroupEntryRows[r + 1] = GroupRows[r]
  /\ GroupEntryRows[47] = Group({32}, {7}, Bit, 1, 2091)
  /\ GroupEntryRows[48] = Group({33}, {7}, {0}, 1, 2091)
<1>1. PICK a, b, c : /\ a = Group({33}, {7}, {1}, 1, 2503)
                     /\ b = Group({32}, {7}, Bit, 1, SplitRow[2])
                     /\ c = Group({33}, {7}, {0}, 1, SplitRow[2])
  OBVIOUS
<1>2. PICK g, S : g = GroupRows /\ S = {g[r] : r \in 1..46} \cup {a, b, c}
  OBVIOUS
<1>3. g \in Seq(S) /\ Len(g) = 46 /\ a \in S /\ b \in S /\ c \in S
  <2>0. GroupRows = [r \in 1..46 |-> GroupRows[r]] /\ Len(GroupRows) = 46
    BY GroupRowsAre
  <2>1. g = [r \in 1..46 |-> g[r]] /\ Len(g) = 46
    <3>1. g = GroupRows
      BY <1>2
    <3>. QED
      BY Zenon, <2>0, <3>1
  <2>2. \A r \in 1..46 : g[r] \in S
    BY <1>2
  <2>3. g \in [1..46 -> S]
    BY <2>1, <2>2
  <2>4. PICK n : n = 46
    OBVIOUS
  <2>5. n \in Nat /\ g \in [1..n -> S]
    BY <2>3, <2>4
  <2>6. g \in Seq(S)
    BY Zenon, <2>5, SeqDef
  <2>7. a \in S /\ b \in S /\ c \in S
    BY <1>2
  <2>. QED
    BY <2>1, <2>6, <2>7
<1>4. PICK t, x, y : t = SubSeq(g, 1, Len(g) - 1) /\ x = <<a>> /\ y = <<b, c>>
  OBVIOUS
<1>5. GroupEntryRows = x \o t \o y
  <2>1. GroupEntryRows = <<a>> \o SubSeq(g, 1, Len(g) - 1) \o <<b, c>>
    BY <1>1, <1>2 DEF GroupEntryRows
  <2>. QED
    BY Zenon, <1>4, <2>1
<1>6. t \in Seq(S) /\ Len(t) = 45 /\ \A r \in 1..45 : t[r] = g[r]
  <2>1. \A r \in 1..45 : g[r] \in S
    BY <1>2
  <2>2. t = SubSeq(g, 1, 45)
    BY <1>3, <1>4
  <2>. QED
    BY <2>1, <2>2, SubSeqProperties
<1>7. /\ x \in Seq(S) /\ Len(x) = 1 /\ x[1] = a
      /\ y \in Seq(S) /\ Len(y) = 2 /\ y[1] = b /\ y[2] = c
  BY <1>3, <1>4
<1>8. PICK u : u = x \o t
  OBVIOUS
<1>9. u \in Seq(S) /\ Len(u) = 46 /\ u[1] = a /\ \A r \in 1..45 : u[r + 1] = t[r]
  <2>1. /\ u \in Seq(S) /\ Len(u) = Len(x) + Len(t)
        /\ \A i \in 1 .. Len(x) + Len(t) : u[i] = IF i <= Len(x) THEN x[i] ELSE t[i - Len(x)]
    BY ZenonT(60), <1>6, <1>7, <1>8, ConcatProperties
  <2>. QED
    BY <1>6, <1>7, <2>1
<1>10. PICK v : v = u \o y
  OBVIOUS
<1>11. /\ v \in Seq(S) /\ Len(v) = 48 /\ \A r \in 1..46 : v[r] = u[r]
       /\ v[47] = b /\ v[48] = c
  <2>1. /\ v \in Seq(S) /\ Len(v) = Len(u) + Len(y)
        /\ \A i \in 1 .. Len(u) + Len(y) : v[i] = IF i <= Len(u) THEN u[i] ELSE y[i - Len(u)]
    BY ZenonT(60), <1>7, <1>9, <1>10, ConcatProperties
  <2>. QED
    BY <1>7, <1>9, <2>1
<1>12. GroupEntryRows = v /\ DOMAIN v = 1..48
  BY <1>5, <1>8, <1>10, <1>11, LenProperties
<1>13. \A r \in 1..45 : v[r + 1] = GroupRows[r]
  <2>1. ASSUME NEW r \in 1..45 PROVE v[r + 1] = u[r + 1] /\ u[r + 1] = t[r] /\ t[r] = g[r]
    <3>1. r + 1 \in 1..46
      OBVIOUS
    <3>. QED
      BY <1>6, <1>9, <1>11, <3>1
  <2>. QED
    BY <1>2, <2>1
<1>14. v[1] = a
  BY <1>9, <1>11
<1>. QED
  <2>1. SplitRow[2] = 2091
    BY GroupRowsAre, GroupIs DEF SplitRow
  <2>. QED
    BY <1>1, <1>11, <1>12, <1>13, <1>14, <2>1

\* The lookups of the three tables.
LEMMA EntryCasez ==
  ASSUME NEW key
  PROVE  \/ Casez(EntryRows, key) = 0 /\ \A r \in 1..32 : ~ Takes(EntryRows[r], key)
         \/ \E r \in 1..32 : /\ Takes(EntryRows[r], key)
                             /\ \A q \in 1..32 : Takes(EntryRows[q], key) => r <= q
                             /\ Casez(EntryRows, key) = EntryRows[r][2]
<1>1. PICK n, rows : n = 32 /\ rows = EntryRows
  OBVIOUS
<1>2. n \in Nat /\ DOMAIN rows = 1..n
  BY <1>1, EntryRowsAre
<1>. QED
  BY <1>1, <1>2, CasezIs

LEMMA GroupCasez ==
  ASSUME NEW key
  PROVE  \/ Casez(GroupRows, key) = 0 /\ \A r \in 1..46 : ~ Takes(GroupRows[r], key)
         \/ \E r \in 1..46 : /\ Takes(GroupRows[r], key)
                             /\ \A q \in 1..46 : Takes(GroupRows[q], key) => r <= q
                             /\ Casez(GroupRows, key) = GroupRows[r][2]
<1>1. PICK n, rows : n = 46 /\ rows = GroupRows
  OBVIOUS
<1>2. n \in Nat /\ DOMAIN rows = 1..n
  BY <1>1, GroupRowsAre
<1>. QED
  BY <1>1, <1>2, CasezIs

LEMMA SplitCasez ==
  ASSUME NEW key
  PROVE  \/ Casez(GroupEntryRows, key) = 0 /\ \A r \in 1..48 : ~ Takes(GroupEntryRows[r], key)
         \/ \E r \in 1..48 : /\ Takes(GroupEntryRows[r], key)
                             /\ \A q \in 1..48 : Takes(GroupEntryRows[q], key) => r <= q
                             /\ Casez(GroupEntryRows, key) = GroupEntryRows[r][2]
<1>1. PICK n, rows : n = 48 /\ rows = GroupEntryRows
  OBVIOUS
<1>2. n \in Nat /\ DOMAIN rows = 1..n
  BY <1>1, GroupEntryRowsAre
<1>. QED
  BY <1>1, <1>2, CasezIs

InvlpgEntry == 2503

\* Splitting the row of INVLPG changes nothing but its memory form.
LEMMA GroupRowSplit ==
  ASSUME NEW first, NEW reg \in Regs, NEW mem \in Bit, NEW d \in Bit, NEW f \in Bit
  PROVE  Casez(GroupEntryRows, <<first, reg, mem, d, f>>) =
           IF first = 33 /\ reg = 7 /\ mem = 1 /\ f = 1 THEN InvlpgEntry
           ELSE Casez(GroupRows, <<first, reg, mem, d, f>>)
<1>1. PICK key : key = <<first, reg, mem, d, f>>
  OBVIOUS
<1>2. ASSUME NEW row, NEW rows, NEW regs, NEW mems, NEW v, row = Group(rows, regs, mems, 1, v)
      PROVE  Takes(row, key) <=> first \in rows /\ reg \in regs /\ mem \in mems /\ f = 1
  <2>1. row[1] = <<rows, regs, mems, Bit, {1}>>
    BY <1>2, GroupIs
  <2>2. DOMAIN key = {1, 2, 3, 4, 5}
    BY <1>1
  <2>. QED
    BY <1>1, <2>1, <2>2 DEF Takes
<1>3. PICK H, O : H = {r \in 1..48 : Takes(GroupEntryRows[r], key)} /\ O = {r \in 1..46 : Takes(GroupRows[r], key)}
  OBVIOUS
<1>4. PICK a, b : a = Casez(GroupEntryRows, key) /\ b = Casez(GroupRows, key)
  OBVIOUS
<1>5. Takes(GroupEntryRows[1], key) <=> first = 33 /\ reg = 7 /\ mem = 1 /\ f = 1
  BY <1>2, GroupEntryRowsAre
<1>6. Takes(GroupEntryRows[47], key) <=> first = 32 /\ reg = 7 /\ mem \in Bit /\ f = 1
  BY <1>2, GroupEntryRowsAre
<1>7. Takes(GroupEntryRows[48], key) <=> first = 33 /\ reg = 7 /\ mem = 0 /\ f = 1
  BY <1>2, GroupEntryRowsAre
<1>8. Takes(GroupRows[46], key) <=> first \in {32, 33} /\ reg = 7 /\ mem \in Bit /\ f = 1
  BY <1>2, GroupRowsAre
<1>9. \A r \in 1..45 : r + 1 \in H <=> r \in O
  <2>1. \A r \in 1..45 : GroupEntryRows[r + 1] = GroupRows[r]
    BY GroupEntryRowsAre
  <2>. QED
    BY <1>3, <2>1
<1>10. /\ GroupEntryRows[1][2] = InvlpgEntry /\ GroupEntryRows[47][2] = 2091 /\ GroupEntryRows[48][2] = 2091
       /\ GroupRows[46][2] = 2091 /\ \A r \in 1..45 : GroupEntryRows[r + 1][2] = GroupRows[r][2]
  BY GroupEntryRowsAre, GroupRowsAre, GroupIs DEF InvlpgEntry
<1>11. \/ H = {} /\ a = 0
       \/ \E r \in H : (\A q \in H : r <= q) /\ a = GroupEntryRows[r][2]
  BY <1>3, <1>4, SplitCasez
<1>12. \/ O = {} /\ b = 0
       \/ \E r \in O : (\A q \in O : r <= q) /\ b = GroupRows[r][2]
  BY <1>3, <1>4, GroupCasez
<1>13. H \subseteq 1..48 /\ O \subseteq 1..46
  BY <1>3
<1>14. 1 \in H <=> first = 33 /\ reg = 7 /\ mem = 1 /\ f = 1
  BY <1>3, <1>5
<1>15. 1 \notin H => (46 \in O <=> 47 \in H \/ 48 \in H)
  BY <1>3, <1>6, <1>7, <1>8, <1>14 DEF Bit
<1>16. CASE 1 \in H
  <2>1. a = GroupEntryRows[1][2]
    BY <1>11, <1>13, <1>16
  <2>. QED
    BY <1>1, <1>4, <1>10, <1>14, <1>16, <2>1
<1>17. CASE 1 \notin H
  <2>0. SUFFICES a = b
    <3>1. ~(first = 33 /\ reg = 7 /\ mem = 1 /\ f = 1)
      BY <1>14, <1>17
    <3>2. a = b => Casez(GroupEntryRows, key) =
                     IF first = 33 /\ reg = 7 /\ mem = 1 /\ f = 1 THEN InvlpgEntry ELSE Casez(GroupRows, key)
      BY <1>4, <3>1
    <3>. QED
      BY Zenon, <1>1, <3>2
  <2>1. CASE O = {}
    <3>1. ASSUME NEW r \in H PROVE FALSE
      <4>1. r \in 2..46 \/ r \in {47, 48}
        BY <1>13, <1>17
      <4>2. r \in 2..46 => r - 1 \in 1..45 /\ r = (r - 1) + 1
        OBVIOUS
      <4>. QED
        BY <1>9, <1>15, <1>17, <2>1, <4>1, <4>2
    <3>. QED
      BY <1>11, <1>12, <2>1, <3>1
  <2>2. CASE O # {}
    <3>1. PICK o \in O : (\A q \in O : o <= q) /\ b = GroupRows[o][2]
      BY <1>12, <2>2
    <3>2. H # {}
      BY <1>9, <1>13, <1>15, <1>17, <3>1
    <3>3. PICK h \in H : (\A q \in H : h <= q) /\ a = GroupEntryRows[h][2]
      BY <1>11, <3>2
    <3>4. CASE o \in 1..45
      <4>1. o + 1 \in H
        BY <1>9, <3>4
      <4>2. h <= o + 1 /\ h \in 2..46
        BY <1>13, <1>17, <3>3, <3>4, <4>1
      <4>3. h - 1 \in 1..45 /\ h = (h - 1) + 1
        BY <4>2
      <4>4. h - 1 \in O
        BY <1>9, <4>3
      <4>5. h = o + 1
        BY <3>1, <3>4, <4>2, <4>4
      <4>6. GroupEntryRows[o + 1][2] = GroupRows[o][2]
        BY <1>10, <3>4
      <4>7. GroupEntryRows[h][2] = GroupRows[o][2]
        BY Zenon, <4>5, <4>6
      <4>. QED
        BY Zenon, <3>1, <3>3, <4>7
    <3>5. CASE o = 46
      <4>1. h \notin 2..46
        <5>1. SUFFICES ASSUME h \in 2..46 PROVE FALSE
          OBVIOUS
        <5>2. h - 1 \in 1..45 /\ h = (h - 1) + 1
          BY <5>1
        <5>3. h - 1 \in O
          BY <1>9, <5>2
        <5>. QED
          BY <3>1, <3>5, <5>2, <5>3
      <4>2. h \in {47, 48}
        BY <1>13, <1>17, <4>1
      <4>. QED
        BY <1>10, <3>1, <3>3, <3>5, <4>2
    <3>6. o \in 1..45 \/ o = 46
      BY <1>13
    <3>. QED
      BY <1>4, <3>4, <3>5, <3>6
  <2>. QED
    BY <2>1, <2>2
<1>. QED
  BY <1>16, <1>17

\* The first pass gives a row's value or zero.
LEMMA FirstIs ==
  ASSUME NEW f \in Bit, NEW op \in 0..255, NEW rep \in Bit, NEW mode \in Modes
  PROVE  \/ First(op, rep, mode, f) = 0
         \/ \E r \in 1..32 : /\ op \in EntryRows[r][1][1] /\ f \in EntryRows[r][1][5]
                             /\ First(op, rep, mode, f) = EntryRows[r][2]
<1>1. PICK key : key = <<op, rep, mode[1], mode[2], f>>
  OBVIOUS
<1>2. First(op, rep, mode, f) = Casez(EntryRows, key)
  BY <1>1 DEF First
<1>3. \A r : Takes(EntryRows[r], key) => op \in EntryRows[r][1][1] /\ f \in EntryRows[r][1][5]
  BY <1>1 DEF Takes
<1>. QED
  BY <1>2, <1>3, EntryCasez

\* 0F 01 and nothing else gives row 33, with any prefixes and in any mode.
LEMMA RowOfInvlpg ==
  ASSUME NEW f \in Bit, NEW op \in 0..255, NEW rep \in Bit, NEW mode \in Modes
  PROVE  First(op, rep, mode, f) = 33 <=> op = 1 /\ f = 1
<1>1. First(op, rep, mode, f) = 33 => op = 1 /\ f = 1
  <2>1. \A r \in 1..32 : EntryRows[r][2] = 33 => EntryRows[r][1][1] = {1} /\ EntryRows[r][1][5] = {1}
    BY RowsOf33
  <2>2. PICK v : v = First(op, rep, mode, f)
    OBVIOUS
  <2>3. v = 0 \/ \E r \in 1..32 : op \in EntryRows[r][1][1] /\ f \in EntryRows[r][1][5] /\ v = EntryRows[r][2]
    BY Zenon, <2>2, FirstIs
  <2>4. ASSUME v = 33 PROVE op = 1 /\ f = 1
    <3>1. PICK r \in 1..32 : op \in EntryRows[r][1][1] /\ f \in EntryRows[r][1][5] /\ v = EntryRows[r][2]
      <4>1. v # 0
        BY <2>4
      <4>. QED
        BY Zenon, <2>3, <4>1
    <3>2. EntryRows[r][2] = 33
      BY <2>4, <3>1
    <3>3. EntryRows[r][1][1] = {1} /\ EntryRows[r][1][5] = {1}
      BY Zenon, <2>1, <3>2
    <3>4. op \in {1} /\ f \in {1}
      BY Zenon, <3>1, <3>3
    <3>. QED
      BY <3>4
  <2>. QED
    BY <2>2, <2>4
<1>2. ASSUME op = 1, f = 1 PROVE First(op, rep, mode, f) = 33
  <2>1. PICK key : key = <<op, rep, mode[1], mode[2], f>>
    OBVIOUS
  <2>2. Takes(EntryRows[13], key)
    <3>1. EntryRows[13][1] = <<{1}, Bit, Bit, Bit, {1}>>
      BY RowOf0F01 DEF Opcode
    <3>2. DOMAIN key = {1, 2, 3, 4, 5} /\ mode[1] \in Bit /\ mode[2] \in Bit
      BY <2>1 DEF Modes
    <3>. QED
      BY <1>2, <2>1, <3>1, <3>2 DEF Takes
  <2>3. \A r \in 1..12 : ~ Takes(EntryRows[r], key)
    <3>1. \A r \in 1..12 : Takes(EntryRows[r], key) => 1 \in EntryRows[r][1][1] /\ 1 \in EntryRows[r][1][5]
      BY <1>2, <2>1 DEF Takes
    <3>. QED
      BY <3>1, RowOf0F01
  <2>4. Casez(EntryRows, key) = EntryRows[13][2]
    <3>1. PICK r \in 1..32 : /\ Takes(EntryRows[r], key) /\ \A q \in 1..32 : Takes(EntryRows[q], key) => r <= q
                             /\ Casez(EntryRows, key) = EntryRows[r][2]
      BY <2>2, EntryCasez
    <3>2. r <= 13 /\ r \notin 1..12
      BY <2>2, <2>3, <3>1
    <3>3. r = 13
      BY <3>2
    <3>. QED
      BY <3>1, <3>3
  <2>. QED
    BY <2>1, <2>4, RowOf0F01 DEF First
<1>. QED
  BY <1>1, <1>2

\* An opcode of the model with a ModR/M byte has its group rows tabulated.
LEMMA ModrmOpcodesAreKeys ==
  ASSUME NEW k \in Opcodes, HasModrm(Control[k])
  PROVE  k \in ModrmKeys
  BY DEF Opcodes, ModrmKeys

\* The second pass's key and the one form it is not asked for.
SecondKey(op, f, rep, mode, modrm) ==
  <<First(op, rep, mode, f), Reg(modrm), Memory(modrm), mode[1], f>>
Invlpg(op, f, modrm) == f = 1 /\ op = 1 /\ Reg(modrm) = 7 /\ Memory(modrm) = 1

\* The entry of the two passes, case by case.
LEMMA ChainedEntryIs ==
  ASSUME NEW op, NEW f, NEW rep, NEW mode, NEW h, NEW modrm
  PROVE  LET e == ChainedEntry(op, f, rep, mode, h, modrm)
         IN /\ h /\ Invlpg(op, f, modrm) => e = InvlpgEntry
            /\ h /\ First(op, rep, mode, f) < 64 /\ ~ Invlpg(op, f, modrm) =>
                 e = Casez(GroupRows, SecondKey(op, f, rep, mode, modrm))
            /\ ~ (h /\ Invlpg(op, f, modrm)) /\ ~ (h /\ First(op, rep, mode, f) < 64) =>
                 e = First(op, rep, mode, f)
<1> DEFINE e == ChainedEntry(op, f, rep, mode, h, modrm)
<1>1. ASSUME h, Invlpg(op, f, modrm) PROVE e = InvlpgEntry
  BY <1>1 DEF ChainedEntry, Invlpg, InvlpgEntry
<1>2. ASSUME h, First(op, rep, mode, f) < 64, ~ Invlpg(op, f, modrm)
      PROVE  e = Casez(GroupRows, SecondKey(op, f, rep, mode, modrm))
  BY <1>2 DEF ChainedEntry, Invlpg, SecondKey
<1>3. ASSUME ~ (h /\ Invlpg(op, f, modrm)), ~ (h /\ First(op, rep, mode, f) < 64)
      PROVE  e = First(op, rep, mode, f)
  BY <1>3 DEF ChainedEntry, Invlpg
<1>. QED
  BY Zenon, <1>1, <1>2, <1>3

\* The same of the decoder's select.
LEMMA SelectIs ==
  ASSUME RomBuilds, RowsIgnoreRep, NEW f \in Bit, NEW op \in 0..255, NEW rep \in Bit,
         NEW mode \in Modes, NEW h \in BOOLEAN, NEW modrm \in 0..255
  PROVE  LET e == EntryFinal(<<op, rep, f>>, mode, op, f, h, modrm)
             group == h /\ <<f, op>> \in ModrmKeys /\ First(op, rep, mode, f) < 64
         IN /\ group => e = Casez(GroupEntryRows, SecondKey(op, f, rep, mode, modrm))
            /\ ~ group => e = First(op, rep, mode, f)
<1> DEFINE first == First(op, rep, mode, f)
           group == h /\ <<f, op>> \in ModrmKeys /\ first < 64
           k == <<first, Reg(modrm), Memory(modrm), mode[1], f>>
           e == EntryFinal(<<op, rep, f>>, mode, op, f, h, modrm)
<1>1. e = IF h /\ <<f, op>> \in ModrmKeys /\ first < 64 THEN Casez(GroupEntryRows, k) ELSE first
  BY ZenonT(120), SideBySideIsChained
<1>2. /\ group => e = Casez(GroupEntryRows, k)
      /\ ~ group => e = first
  <2> HIDE DEF e, k, first
  <2>. QED
    BY Zenon, <1>1
<1>. QED
  BY Zenon, <1>2 DEF SecondKey

LEMMA SecondPass ==
  ASSUME NEW f \in Bit, NEW op \in 0..255, NEW rep \in Bit, NEW mode \in Modes, NEW modrm \in 0..255
  PROVE  LET k == SecondKey(op, f, rep, mode, modrm)
         IN /\ Invlpg(op, f, modrm) => Casez(GroupEntryRows, k) = InvlpgEntry
            /\ ~ Invlpg(op, f, modrm) => Casez(GroupEntryRows, k) = Casez(GroupRows, k)
<1>1. First(op, rep, mode, f) = 33 <=> op = 1 /\ f = 1
  BY RowOfInvlpg
<1>2. PICK first, reg, mem, d : first = First(op, rep, mode, f) /\ reg = Reg(modrm) /\ mem = Memory(modrm) /\ d = mode[1]
  OBVIOUS
<1>3. reg \in Regs /\ mem \in Bit /\ d \in Bit
  BY <1>2, ModrmFields DEF Modes
<1>4. SecondKey(op, f, rep, mode, modrm) = <<first, reg, mem, d, f>>
  BY Zenon, <1>2 DEF SecondKey
<1>5. Casez(GroupEntryRows, <<first, reg, mem, d, f>>) =
        IF first = 33 /\ reg = 7 /\ mem = 1 /\ f = 1 THEN InvlpgEntry
        ELSE Casez(GroupRows, <<first, reg, mem, d, f>>)
  BY <1>3, GroupRowSplit
<1>6. PICK k : k = SecondKey(op, f, rep, mode, modrm)
  OBVIOUS
<1>7. k = <<first, reg, mem, d, f>>
  BY Zenon, <1>4, <1>6
<1>8. Casez(GroupEntryRows, k) =
        IF first = 33 /\ reg = 7 /\ mem = 1 /\ f = 1 THEN InvlpgEntry ELSE Casez(GroupRows, k)
  BY Zenon, <1>5, <1>7
<1>9. Invlpg(op, f, modrm) <=> first = 33 /\ reg = 7 /\ mem = 1 /\ f = 1
  <2>1. first = 33 <=> op = 1 /\ f = 1
    BY Zenon, <1>1, <1>2
  <2>. QED
    BY Zenon, <1>2, <2>1 DEF Invlpg
<1>10. /\ Invlpg(op, f, modrm) => Casez(GroupEntryRows, k) = InvlpgEntry
       /\ ~ Invlpg(op, f, modrm) => Casez(GroupEntryRows, k) = Casez(GroupRows, k)
  BY Zenon, <1>8, <1>9
<1>. QED
  BY Zenon, <1>6, <1>10

\* What the decoder selects, looking both passes up side by side, is the entry of the two passes
\* one after the other, and INVLPG's where its row is split.
LEMMA SelectsChained ==
  ASSUME RomBuilds, RowsIgnoreRep, NEW f \in Bit, NEW op \in 0..255, <<f, op>> \in Opcodes,
         NEW rep \in Bit, NEW mode \in Modes, NEW modrm \in 0..255,
         NEW h \in BOOLEAN, h <=> HasModrm(Control[<<f, op>>])
  PROVE  EntryFinal(<<op, rep, f>>, mode, op, f, h, modrm) = ChainedEntry(op, f, rep, mode, h, modrm)
<1> DEFINE e == EntryFinal(<<op, rep, f>>, mode, op, f, h, modrm)
           c == ChainedEntry(op, f, rep, mode, h, modrm)
           k == SecondKey(op, f, rep, mode, modrm)
           first == First(op, rep, mode, f)
           invlpg == Invlpg(op, f, modrm)
           low == first < 64
<1>1. h => <<f, op>> \in ModrmKeys
  BY ModrmOpcodesAreKeys
<1>2. invlpg => low
  <2>1. first = 33 <=> op = 1 /\ f = 1
    BY RowOfInvlpg
  <2>. QED
    BY <2>1 DEF Invlpg
<1>3. /\ h /\ <<f, op>> \in ModrmKeys /\ low => e = Casez(GroupEntryRows, k)
      /\ ~ (h /\ <<f, op>> \in ModrmKeys /\ low) => e = first
  BY ZenonT(120), SelectIs
<1>4. /\ h /\ invlpg => c = InvlpgEntry
      /\ h /\ low /\ ~ invlpg => c = Casez(GroupRows, k)
      /\ ~ (h /\ invlpg) /\ ~ (h /\ low) => c = first
  BY Zenon, ChainedEntryIs
<1>5. /\ invlpg => Casez(GroupEntryRows, k) = InvlpgEntry
      /\ ~ invlpg => Casez(GroupEntryRows, k) = Casez(GroupRows, k)
  BY ZenonT(60), SecondPass
<1>6. e = c
  <2> HIDE DEF e, c, k, first, invlpg, low
  <2>1. CASE h /\ invlpg
    BY Zenon, <1>1, <1>2, <1>3, <1>4, <1>5, <2>1
  <2>2. CASE h /\ ~invlpg /\ low
    BY Zenon, <1>1, <1>3, <1>4, <1>5, <2>2
  <2>3. CASE ~(h /\ low)
    BY Zenon, <1>2, <1>3, <1>4, <2>3
  <2>. QED
    BY Zenon, <2>1, <2>2, <2>3
<1>. QED
  BY Zenon, <1>6

\* No pass gives an overlay's own entry, and only 90 gives XCHG EAX, EAX.
OnlyXchg(entry, op) == entry = 182 => op = 144

LEMMA ChainedIs ==
  ASSUME NEW f \in Bit, NEW op \in 0..255, NEW rep \in Bit, NEW mode \in Modes, NEW h \in BOOLEAN, NEW modrm
  PROVE  /\ ChainedEntry(op, f, rep, mode, h, modrm) \notin Own
         /\ OnlyXchg(ChainedEntry(op, f, rep, mode, h, modrm), op)
<1> DEFINE first == First(op, rep, mode, f)
           second == Casez(GroupRows, SecondKey(op, f, rep, mode, modrm))
           e == ChainedEntry(op, f, rep, mode, h, modrm)
           low == first < 64
           invlpg == Invlpg(op, f, modrm)
<1>1. e = InvlpgEntry \/ e = first \/ e = second
  <2>1. /\ h /\ invlpg => e = InvlpgEntry
        /\ h /\ low /\ ~ invlpg => e = second
        /\ ~ (h /\ invlpg) /\ ~ (h /\ low) => e = first
    BY Zenon, ChainedEntryIs
  <2> HIDE DEF first, second, e, low, invlpg
  <2>. QED
    BY Zenon, <2>1
<1>2. first = 0 \/ \E r \in 1..32 : op \in EntryRows[r][1][1] /\ first = EntryRows[r][2]
  <2>1. \/ first = 0
        \/ \E r \in 1..32 : /\ op \in EntryRows[r][1][1] /\ f \in EntryRows[r][1][5]
                            /\ first = EntryRows[r][2]
    BY Zenon, FirstIs
  <2>. QED
    BY Zenon, <2>1
<1>3. second = 0 \/ \E r \in 1..46 : second = GroupRows[r][2]
  <2> DEFINE key == SecondKey(op, f, rep, mode, modrm)
  <2>1. \/ Casez(GroupRows, key) = 0
        \/ \E r \in 1..46 : Casez(GroupRows, key) = GroupRows[r][2]
    <3> HIDE DEF key
    <3>. QED
      BY GroupCasez
  <2>. QED
    BY Zenon, <2>1
<1> HIDE DEF first, second, e
<1>4. first \notin Own /\ (first = 182 => op = 144)
  <2>1. CASE first = 0
    BY <2>1, OwnIs
  <2>2. ASSUME NEW r \in 1..32, op \in EntryRows[r][1][1], first = EntryRows[r][2]
        PROVE  first \notin Own /\ (first = 182 => op = 144)
    <3>1. EntryRows[r][2] \notin Own
      BY ZenonT(60), <2>2, EntryRowsAre
    <3>2. EntryRows[r][2] = 182 => EntryRows[r][1][1] = {144}
      BY SMTT(60), <2>2, EntryRowsAre
    <3>. QED
      BY <2>2, <3>1, <3>2
  <2>3. CASE \E r \in 1..32 : op \in EntryRows[r][1][1] /\ first = EntryRows[r][2]
    <3>1. PICK r \in 1..32 : op \in EntryRows[r][1][1] /\ first = EntryRows[r][2]
      BY Zenon, <2>3
    <3>. QED
      BY ZenonT(60), <2>2, <3>1
  <2>. QED
    BY Zenon, <1>2, <2>1, <2>3
<1>5. second \notin Own /\ second # 182
  <2>1. CASE second = 0
    BY <2>1, OwnIs
  <2>2. ASSUME NEW r \in 1..46, second = GroupRows[r][2]
        PROVE  second \notin Own /\ second # 182
    BY <2>2, GroupRowsAre, OwnIs
  <2>. QED
    BY <1>3, <2>1, <2>2
<1>6. e \notin Own /\ OnlyXchg(e, op)
  BY <1>1, <1>4, <1>5, OwnIs DEF InvlpgEntry, OnlyXchg
<1>. QED
  BY Zenon, <1>6 DEF e

\* D1's entry goes back to the chained one: with the overlays' entries out of the PLA, all that is
\* replaced for good is XCHG EAX, EAX, and with LOCK that is invalid.
LEMMA GoesBack ==
  ASSUME NEW entry, entry \notin Own, NEW op, NEW modrm
  PROVE  FallbackEntry(EffectiveEntry(entry, op, modrm)) =
           IF entry = 182 /\ op = 144 THEN Recipe.nop[1] ELSE entry
<1>0. entry \notin {Overlay[n][2] : n \in DOMAIN Overlay}
  BY DEF Own
<1>1. Recipe.nop[1] = 2505
  BY DEF Recipe
<1>2. FallbackEntry(EffectiveEntry(entry, op, modrm)) = entry
      \/ (EffectiveEntry(entry, op, modrm) = 2505 /\ op = 144)
  BY <1>0, <1>1, OverlaysGoBack
<1>3. FallbackEntry(2505) = 2505
  BY OverlayNames, OverlayFields DEF FallbackEntry
<1>4. CASE entry = 182
  <2>1. {n \in DOMAIN Overlay : Overlay[n][1] = entry /\ Qualifies(n, op, modrm)} = {}
    BY <1>4, OverlayNames, OverlayFields
  <2>2. EffectiveEntry(entry, op, modrm) = IF entry = 182 /\ op = 144 THEN 2505 ELSE entry
    BY <1>1, <2>1 DEF EffectiveEntry
  <2>. QED
    BY <1>1, <1>2, <1>3, <1>4, <2>2
<1>5. CASE entry # 182 /\ EffectiveEntry(entry, op, modrm) = 2505
  <2> DEFINE taken == {n \in DOMAIN Overlay : Overlay[n][1] = entry /\ Qualifies(n, op, modrm)}
  <2>1. EffectiveEntry(entry, op, modrm) =
          IF taken # {} THEN Overlay[CHOOSE n \in taken : TRUE][2] ELSE entry
    BY <1>5 DEF EffectiveEntry
  <2>2. taken # {} => (CHOOSE n \in taken : TRUE) \in DOMAIN Overlay
    OBVIOUS
  <2>3. \A n \in DOMAIN Overlay : Overlay[n][2] # 2505
    BY OverlayNames, OverlayFields
  <2> HIDE DEF taken
  <2>4. entry = 2505
    BY <1>5, <2>1, <2>2, <2>3
  <2>. QED
    BY <1>3, <1>5, <2>4
<1>. QED
  BY <1>2, <1>4, <1>5

-----------------------------------------------------------------------------
(* The word of the entry ROM *)

QueueFields == {"fetched", "popped", "k1", "inflight", "fault", "reported"}

\* What the front end's registers hold; a repeat prefix leaves its mark in rep_lock.
FrontType ==
  /\ code \in Code /\ code.bytes # << >>
  /\ D \in Bit /\ PE \in Bit
  /\ DOMAIN queue = QueueFields /\ queue.fetched \in 0..Len(code.bytes) /\ queue.k1 \in Nat
  /\ prefix \in [p66 : Bit, p67 : Bit, p0f : Bit, rep : Bit, rep_lock : {"none", "lock", "rep"},
                 seg : 0..256, count : 0..15]
  /\ prefix.rep = 1 => prefix.rep_lock # "none"

\* The word the ROM shows, read at the window D1 would move to and held while D2 refuses, is
\* of the opcode D1 has in view and the prefixes before it.
WordInView == RomCurrent = <<opcode, prefix.rep, prefix.p0f>>

FrontInv == FrontType /\ WordInView

\* The bytes in view are of the code.
LEMMA InView1 ==
  ASSUME FrontType, K1Avail >= 1
  PROVE  queue.k1 < queue.fetched /\ opcode \in 0..255 /\ opcode = code.bytes[queue.k1 + 1]
<1>1. queue.k1 \in Nat /\ queue.fetched \in 0..Len(code.bytes) /\ code.bytes \in Seq(0..255)
  BY DEF FrontType, Code
<1>2. queue.k1 < queue.fetched
  BY <1>1 DEF K1Avail, Clamp
<1>3. opcode = code.bytes[queue.k1 + 1] /\ queue.k1 + 1 \in 1..Len(code.bytes)
  BY <1>1, <1>2 DEF opcode, Byte
<1>4. code.bytes[queue.k1 + 1] \in 0..255
  BY <1>1, <1>3, ElementOfSeq
<1>. QED
  BY <1>2, <1>3, <1>4

LEMMA InView2 ==
  ASSUME FrontType, NEW i \in 1..8
  PROVE  D1Bytes[i] \in 0..256 /\ (K1Avail >= i => D1Bytes[i] \in 0..255)
<1>1. queue.k1 \in Nat /\ queue.fetched \in 0..Len(code.bytes) /\ code.bytes \in Seq(0..255)
  BY DEF FrontType, Code
<1>2. D1Bytes[i] = IF queue.k1 + i - 1 < queue.fetched THEN code.bytes[queue.k1 + i - 1 + 1] ELSE 256
  BY <1>1 DEF D1Bytes, Bytes, Byte, Junk
<1>3. K1Avail >= i => queue.k1 + i - 1 < queue.fetched
  BY <1>1 DEF K1Avail, Clamp
<1>4. queue.k1 + i - 1 < queue.fetched => queue.k1 + i - 1 + 1 \in 1..Len(code.bytes)
  BY <1>1
<1>5. \A n \in 1..Len(code.bytes) : code.bytes[n] \in 0..255
  BY <1>1, ElementOfSeq
<1>6. CASE queue.k1 + i - 1 < queue.fetched
  <2>1. D1Bytes[i] = code.bytes[queue.k1 + i - 1 + 1]
    BY <1>2, <1>6
  <2>2. D1Bytes[i] \in 0..255
    BY <1>4, <1>5, <1>6, <2>1
  <2>. QED
    BY <2>2
<1>7. CASE ~(queue.k1 + i - 1 < queue.fetched)
  BY <1>2, <1>3, <1>7
<1>. QED
  BY <1>6, <1>7

\* The instruction D1 has in view: an opcode, and its ModR/M byte if it has one.
LEMMA ReadyBytes ==
  ASSUME FrontType, PrereadHandoff
  PROVE  /\ K1Avail >= 1 /\ opcode \in 0..255 /\ queue.k1 < queue.fetched
         /\ HasModrm(Control[<<prefix.p0f, opcode>>]) => D1Bytes[2] \in 0..255
<1>1. K1Avail >= 1 /\ K1Avail >= ModrmBytes
  BY DEF PrereadHandoff, D1Ready
<1>2. HasModrm(Control[<<prefix.p0f, opcode>>]) => K1Avail >= 2
  BY <1>1 DEF ModrmBytes
<1>. QED
  BY <1>1, <1>2, InView1, InView2

LEMMA Modes32 ==
  ASSUME FrontType
  PROVE  data32 \in Bit /\ addr32 \in Bit /\ prefix.p0f \in Bit /\ prefix.rep \in Bit /\ PE \in Bit
<1>1. D \in {0, 1} /\ prefix.p66 \in {0, 1} /\ prefix.p67 \in {0, 1} /\ PE \in {0, 1}
      /\ prefix.p0f \in {0, 1} /\ prefix.rep \in {0, 1}
  BY DEF FrontType, Bit
<1>. QED
  BY <1>1 DEF data32, addr32, Bit

\* The sizes of an immediate, with a ModR/M byte and without.
LEMMA ImmediateSizes ==
  ASSUME NEW ctl \in Nat, NEW f, NEW op, NEW d, NEW a, NEW hi
  PROVE  ModrmImmediate(ctl, op, d, hi) \in 0..4 /\ PlainImmediate(ctl, f, op, d, a) \in 0..6
<1>1. ModrmImmediate(ctl, op, d, hi) \in 0..4
  <2>1. Bits(ctl, 11, 10) \in 0..3
    BY SMT DEF Bits
  <2>. QED
    BY <2>1 DEF ModrmImmediate
<1>2. PlainImmediate(ctl, f, op, d, a) \in 0..6
  BY DEF PlainImmediate
<1>. QED
  BY <1>1, <1>2

\* The reg input of the opcode table is what the immediate of F6 and F7 depends on.
LEMMA HighRegIs ==
  ASSUME NEW modrm \in Nat
  PROVE  Bits(modrm, 5, 3) >= 2 <=> HighReg(modrm) = 1
<1>1. (modrm \div 8) % 8 >= 2 <=> (modrm \div 16) % 4 # 0
  BY SMT
<1>2. 2^3 = 8 /\ 2^4 = 16 /\ 2^(5 - 3 + 1) = 8 /\ 2^(5 - 4 + 1) = 4
  BY SMT
<1>3. Bits(modrm, 5, 3) = (modrm \div 8) % 8 /\ Bits(modrm, 5, 4) = (modrm \div 16) % 4
  BY <1>2 DEF Bits
<1>. QED
  BY <1>1, <1>3 DEF HighReg, Flag

\* The serial terms of a displacement are those of the ModR/M table.
LEMMA DisplacementIs ==
  ASSUME NEW a \in Bit, NEW modrm \in Nat, NEW sib \in Nat
  PROVE  LET mod == Bits(modrm, 7, 6)
             rm == Bits(modrm, 2, 0)
             side == ModrmSide(a, mod, rm, Bits(sib, 2, 0))
         IN /\ IF a = 1 /\ mod # 3 /\ rm = 4 THEN side = 1 + ModrmDispSize(a, modrm, sib, TRUE)
                                             ELSE side = ModrmDispSize(a, modrm, 0, FALSE)
            /\ ModrmDispSize(a, modrm, sib, TRUE) \in 0..4 /\ ModrmDispSize(a, modrm, 0, FALSE) \in 0..4
<1>1. PICK mod, rm, base : mod = Bits(modrm, 7, 6) /\ rm = Bits(modrm, 2, 0) /\ base = Bits(sib, 2, 0)
  OBVIOUS
<1>2. mod \in 0..3 /\ rm \in Regs /\ base \in Regs
  BY <1>1, ModrmParts
<1>3. mod \in {0, 1, 2, 3} /\ a \in {0, 1} /\ rm \in Int /\ base \in Int
  BY <1>2 DEF Bit, Regs
<1>4. ModrmSide(a, mod, rm, base) =
        IF mod = 3 THEN 0
        ELSE (IF a = 1 /\ rm = 4 THEN 1 ELSE 0)
               + (IF mod = 1 THEN 1 ELSE IF mod = 2 THEN (IF a = 1 THEN 4 ELSE 2)
                  ELSE IF (IF a = 1 /\ rm = 4 THEN base # 5 ELSE rm # (IF a = 1 THEN 5 ELSE 6)) THEN 0
                  ELSE IF a = 1 THEN 4 ELSE 2)
  BY <1>3 DEF ModrmSide, Flag
<1>5. ModrmDispSize(a, modrm, sib, TRUE) =
        IF mod = 3 THEN 0 ELSE IF mod = 1 THEN 1 ELSE IF mod = 2 THEN (IF a = 1 THEN 4 ELSE 2)
        ELSE IF a = 1 THEN (IF base = 5 THEN 4 ELSE 0) ELSE IF rm = 6 THEN 2 ELSE 0
  BY <1>1, <1>3 DEF ModrmDispSize
<1>6. ModrmDispSize(a, modrm, 0, FALSE) =
        IF mod = 3 THEN 0 ELSE IF mod = 1 THEN 1 ELSE IF mod = 2 THEN (IF a = 1 THEN 4 ELSE 2)
        ELSE IF a = 1 THEN (IF rm = 5 THEN 4 ELSE 0) ELSE IF rm = 6 THEN 2 ELSE 0
  BY <1>1, <1>3 DEF ModrmDispSize
<1>7. PICK s, x, y : /\ s = ModrmSide(a, mod, rm, base) /\ x = ModrmDispSize(a, modrm, sib, TRUE)
                     /\ y = ModrmDispSize(a, modrm, 0, FALSE)
  OBVIOUS
<1>8. x \in 0..4 /\ y \in 0..4
  <2>1. x = IF mod = 3 THEN 0 ELSE IF mod = 1 THEN 1 ELSE IF mod = 2 THEN (IF a = 1 THEN 4 ELSE 2)
            ELSE IF a = 1 THEN (IF base = 5 THEN 4 ELSE 0) ELSE IF rm = 6 THEN 2 ELSE 0
    BY Zenon, <1>5, <1>7
  <2>2. y = IF mod = 3 THEN 0 ELSE IF mod = 1 THEN 1 ELSE IF mod = 2 THEN (IF a = 1 THEN 4 ELSE 2)
            ELSE IF a = 1 THEN (IF rm = 5 THEN 4 ELSE 0) ELSE IF rm = 6 THEN 2 ELSE 0
    BY Zenon, <1>6, <1>7
  <2>3. x \in 0..4
    BY ONLY <2>1, SMT
  <2>4. y \in 0..4
    BY ONLY <2>2, SMT
  <2>. QED
    BY <2>3, <2>4
<1>9. a = 1 /\ mod # 3 /\ rm = 4 => s = 1 + x
  <2>1. ASSUME a = 1, rm = 4, mod # 3 PROVE s = 1 + x
    <3>1. s = 1 + (IF mod = 1 THEN 1 ELSE IF mod = 2 THEN 4 ELSE IF base # 5 THEN 0 ELSE 4)
      BY <1>4, <1>7, <2>1
    <3>2. x = IF mod = 1 THEN 1 ELSE IF mod = 2 THEN 4 ELSE IF base = 5 THEN 4 ELSE 0
      BY <1>5, <1>7, <2>1
    <3>. QED
      BY <3>1, <3>2
  <2>. QED
    BY <2>1
<1>10. ~(a = 1 /\ mod # 3 /\ rm = 4) => s = y
  <2>1. CASE mod = 3
    BY <1>4, <1>6, <1>7, <2>1
  <2>2. CASE mod # 3 /\ a = 1 /\ rm # 4
    <3>1. s = IF mod = 1 THEN 1 ELSE IF mod = 2 THEN 4 ELSE IF rm # 5 THEN 0 ELSE 4
      BY <1>4, <1>7, <2>2
    <3>2. y = IF mod = 1 THEN 1 ELSE IF mod = 2 THEN 4 ELSE IF rm = 5 THEN 4 ELSE 0
      BY <1>6, <1>7, <2>2
    <3>. QED
      BY <3>1, <3>2
  <2>3. CASE mod # 3 /\ a = 0
    <3>1. s = IF mod = 1 THEN 1 ELSE IF mod = 2 THEN 2 ELSE IF rm # 6 THEN 0 ELSE 2
      BY <1>4, <1>7, <2>3
    <3>2. y = IF mod = 1 THEN 1 ELSE IF mod = 2 THEN 2 ELSE IF rm = 6 THEN 2 ELSE 0
      BY <1>6, <1>7, <2>3
    <3>. QED
      BY <3>1, <3>2
  <2>. QED
    BY <1>3, <2>1, <2>2, <2>3
<1>. QED
  BY Zenon, <1>1, <1>7, <1>8, <1>9, <1>10

\* The SIB byte adds itself and the displacement it decides.
LEMMA SibLengthens ==
  ASSUME NEW w, DOMAIN w = Fields, NEW sib
  PROVE  LET disp == ModrmDispSize(w.addr32, w.modrm, sib, TRUE)
         IN /\ CaptureSib(w, sib).length = (w.length + 1 + disp) % 32
            /\ CaptureSib(w, sib).body = w.body + 1 + disp
<1>1. PICK disp : disp = ModrmDispSize(w.addr32, w.modrm, sib, TRUE)
  OBVIOUS
<1>2. PICK longer : longer = [w EXCEPT !.sib = sib, !.length = (w.length + 1 + disp) % 32,
                                       !.body = w.body + 1 + disp]
  OBVIOUS
<1>3. DOMAIN longer = Fields /\ longer.length = (w.length + 1 + disp) % 32 /\ longer.body = w.body + 1 + disp
  BY <1>2 DEF Fields, HeadFields
<1>4. PICK p : p = Plan(longer, "DISP", disp, disp = 1, FALSE)
  OBVIOUS
<1>5. DOMAIN p = Fields /\ p.length = longer.length /\ p.body = longer.body
  BY <1>3, <1>4 DEF Plan, Fields, HeadFields
<1>6. PICK q : q = Plan(p, "IMM", w.pending.total, w.pending.sext, FALSE)
  OBVIOUS
<1>7. q.length = p.length /\ q.body = p.body
  BY <1>5, <1>6 DEF Plan, Fields, HeadFields
<1>8. CaptureSib(w, sib) = q
  BY <1>1, <1>2, <1>4, <1>6 DEF CaptureSib
<1>. QED
  BY Zenon, <1>1, <1>3, <1>5, <1>7, <1>8

\* The opcode table's entry from the serial terms of the immediate.
OpcodeByte == 0..255

LEMMA TableIs ==
  ASSUME NEW f \in Bit, NEW op \in OpcodeByte, NEW d \in Bit, NEW a \in Bit, NEW modrm \in Nat
  PROVE  LET ctl == Control[<<f, op>>]
             imm == Immediate(ctl, op, modrm, f, d, a).total
         IN /\ imm \in 0..6 /\ (HasModrm(ctl) => imm \in 0..4)
            /\ HasModrm(ctl) => D1Length(f, op, d, a, modrm) = 10 + imm
            /\ ~HasModrm(ctl) => D1Length(f, op, d, a, modrm) = 1 + imm
<1>0. op \in 0..255
  BY DEF OpcodeByte
<1>1. PICK ctl, imm : ctl = Control[<<f, op>>] /\ imm = Immediate(ctl, op, modrm, f, d, a).total
  OBVIOUS
<1>2. ctl \in Nat
  BY <1>0, <1>1, ControlWords DEF Bit
<1>3. PICK x, y : x = ModrmImmediate(ctl, op, d, HighReg(modrm)) /\ y = PlainImmediate(ctl, f, op, d, a)
  OBVIOUS
<1>4. (imm = IF HasModrm(ctl) THEN x ELSE y) /\ x \in 0..4 /\ y \in 0..6
  <2>1. PICK n : n = IF op \div 2 = 123 /\ Bits(modrm, 5, 3) >= 2 THEN 0
                     ELSE <<1, IF d = 1 THEN 4 ELSE 2, 0, 1>>[Bits(ctl, 11, 10) + 1]
    OBVIOUS
  <2>2. x = n
    BY <1>3, <2>1, HighRegIs DEF ModrmImmediate, NoImmediate
  <2>3. HasModrm(ctl) => imm = n
    BY <1>1, <2>1 DEF Immediate
  <2>4. ~HasModrm(ctl) => imm = y
    BY <1>1, <1>3 DEF Immediate
  <2>5. ModrmImmediate(ctl, op, d, HighReg(modrm)) \in 0..4 /\ PlainImmediate(ctl, f, op, d, a) \in 0..6
    BY Zenon, <1>2, ImmediateSizes
  <2>. QED
    BY <1>3, <2>2, <2>3, <2>4, <2>5
<1>5. PICK s : s = OpcodeSide(f, op, d, a, HighReg(modrm))
  OBVIOUS
<1>6. s = IF HasModrm(ctl) THEN <<1, 2 + x>> ELSE <<0, 1 + y>>
  BY Zenon, <1>1, <1>3, <1>5 DEF OpcodeSide
<1>7. D1Length(f, op, d, a, modrm) = s[1] * 8 + s[2]
  BY ZenonT(60), <1>0, <1>5, OpcodeTableIs
<1>8. PICK h \in BOOLEAN : h = HasModrm(ctl)
  BY DEF HasModrm
<1>9. /\ imm \in 0..6 /\ (h => imm \in 0..4)
      /\ s[1] * 8 + s[2] = IF h THEN 10 + imm ELSE 1 + imm
  BY <1>4, <1>6, <1>8
<1>. QED
  BY ZenonT(60), <1>1, <1>7, <1>8, <1>9

\* The lengths before the SIB byte is in: D1's cursor has it, the serial terms do not.
LEMMA InViewLengths ==
  ASSUME FrontType, PrereadHandoff
  PROVE  LET modrm == D1Bytes[2]
             sib == D1Bytes[3]
             h == HasModrm(Control[<<prefix.p0f, opcode>>])
             hassib == h /\ addr32 = 1 /\ Bits(modrm, 7, 6) # 3 /\ Bits(modrm, 2, 0) = 4
         IN /\ InView.has_sib = hassib
            /\ hassib => h
            /\ InView.body \in 1..11 /\ InView.length = InView.body + prefix.count + prefix.p0f
            /\ InView.adv = IF hassib THEN InView.body + 1 + ModrmDispSize(addr32, modrm, sib, TRUE)
                            ELSE InView.body
            /\ ModrmDispSize(addr32, modrm, sib, TRUE) \in 0..4
            /\ hassib => InView.body \in 1..6
<1>1. PICK op, m, sib, f, d, a, c : /\ op = opcode /\ m = D1Bytes[2] /\ sib = D1Bytes[3] /\ f = prefix.p0f
                                    /\ d = data32 /\ a = addr32 /\ c = prefix.count
  OBVIOUS
<1>2. op \in 0..255 /\ m \in Nat /\ sib \in Nat /\ D1Bytes[1] = op
  <2>1. opcode \in 0..255 /\ D1Bytes[2] \in 0..256 /\ D1Bytes[3] \in 0..256
    BY ReadyBytes, InView2
  <2>2. D1Bytes[1] = opcode
    BY DEF FrontType, D1Bytes, Bytes, opcode
  <2>. QED
    BY <1>1, <2>1, <2>2
<1>3. f \in Bit /\ d \in Bit /\ a \in Bit /\ c \in 0..15
  BY <1>1, Modes32 DEF FrontType
<1>4. PICK ctl, imm, table : /\ ctl = Control[<<f, op>>] /\ imm = Immediate(ctl, op, m, f, d, a).total
                             /\ table = D1Length(f, op, d, a, m)
  OBVIOUS
<1>5. PICK h : h = HasModrm(ctl)
  OBVIOUS
<1>6. h \in BOOLEAN /\ imm \in 0..6 /\ (h => imm \in 0..4) /\ table = IF h THEN 10 + imm ELSE 1 + imm
  <2>1. HasModrm(ctl) \in BOOLEAN
    BY DEF HasModrm
  <2>2. op \in OpcodeByte /\ m \in Nat
    BY <1>2 DEF OpcodeByte
  <2>3. /\ imm \in 0..6 /\ (HasModrm(ctl) => imm \in 0..4)
        /\ HasModrm(ctl) => table = 10 + imm
        /\ ~HasModrm(ctl) => table = 1 + imm
    <3>1. LET word == Control[<<f, op>>]
              total == Immediate(word, op, m, f, d, a).total
          IN /\ total \in 0..6 /\ (HasModrm(word) => total \in 0..4)
             /\ HasModrm(word) => D1Length(f, op, d, a, m) = 10 + total
             /\ ~HasModrm(word) => D1Length(f, op, d, a, m) = 1 + total
      BY ZenonT(60), <1>3, <2>2, TableIs
    <3>. QED
      BY ZenonT(60), <1>4, <3>1
  <2>. QED
    BY <1>5, <2>1, <2>3
<1>7. PICK d0, ds, side : /\ d0 = ModrmDispSize(a, m, 0, FALSE) /\ ds = ModrmDispSize(a, m, sib, TRUE)
                          /\ side = D1ModrmLength(a, m, sib)
  OBVIOUS
<1>8. PICK far : far = (a = 1 /\ Bits(m, 7, 6) # 3 /\ Bits(m, 2, 0) = 4)
  OBVIOUS
<1>9. far \in BOOLEAN /\ (side = IF far THEN 1 + ds ELSE d0) /\ ds \in 0..4 /\ d0 \in 0..4
  <2>1. far \in BOOLEAN
    BY <1>8
  <2>2. side = ModrmSide(a, Bits(m, 7, 6), Bits(m, 2, 0), Bits(sib, 2, 0))
    BY ZenonT(60), <1>2, <1>3, <1>7, ModrmTableIs
  <2>. QED
    BY ZenonT(60), <1>2, <1>3, <1>7, <1>8, <2>1, <2>2, DisplacementIs
<1>10. PICK hassib : hassib = (h /\ a = 1 /\ Bits(m, 7, 6) # 3 /\ Bits(m, 2, 0) = 4)
  OBVIOUS
<1>11. hassib <=> h /\ far
  BY Zenon, <1>6, <1>8, <1>10
<1>12. PICK disp : disp = IF h /\ ~hassib THEN d0 ELSE 0
  OBVIOUS
<1>13. /\ InView.has_sib = hassib
       /\ InView.length = (c + f + (IF h THEN 2 ELSE 1) + disp + imm) % 32
       /\ InView.body = (table % 8) + (IF table < 8 THEN 0 ELSE disp)
       /\ InView.adv = (table % 8) + (IF table < 8 THEN 0 ELSE side)
  <2>1. InView.has_sib = hassib
    BY Zenon, <1>1, <1>2, <1>4, <1>5, <1>10 DEF InView, Structure
  <2>2. InView.length = (c + f + (IF h THEN 2 ELSE 1) + disp + imm) % 32
    BY Zenon, <1>1, <1>2, <1>4, <1>5, <1>7, <1>10, <1>12 DEF InView, Structure
  <2>3. InView.body = (table % 8) + (IF table < 8 THEN 0 ELSE disp)
    BY Zenon, <1>1, <1>2, <1>4, <1>5, <1>7, <1>10, <1>12 DEF InView, Structure
  <2>4. InView.adv = (table % 8) + (IF table < 8 THEN 0 ELSE side)
    BY Zenon, <1>1, <1>2, <1>4, <1>7 DEF InView, Structure
  <2>. QED
    BY <2>1, <2>2, <2>3, <2>4
<1>14. hassib \in BOOLEAN
  BY <1>10
<1>15. /\ hassib => h
       /\ InView.body \in 1..11 /\ InView.length = InView.body + c + f
       /\ InView.adv = IF hassib THEN InView.body + 1 + ds ELSE InView.body
       /\ hassib => InView.body \in 1..6
  <2>1. PICK body, length, adv : body = InView.body /\ length = InView.length /\ adv = InView.adv
    OBVIOUS
  <2>2. f \in 0..1
    BY <1>3 DEF Bit
  <2>3. CASE ~h
    <3>1. table = 1 + imm /\ table % 8 = 1 + imm /\ table < 8 /\ ~hassib /\ disp = 0
      BY <1>6, <1>11, <1>12, <2>3
    <3>2. body = 1 + imm /\ adv = 1 + imm
      BY <1>13, <2>1, <3>1
    <3>3. length = (c + f + 1 + imm) % 32
      <4>1. length = (c + f + (IF h THEN 2 ELSE 1) + disp + imm) % 32
        BY Zenon, <1>13, <2>1
      <4>. QED
        BY <1>3, <1>6, <2>2, <2>3, <3>1, <4>1
    <3>. QED
      BY <1>3, <1>6, <2>1, <2>2, <2>3, <3>1, <3>2, <3>3
  <2>4. CASE h /\ hassib
    <3>1. table = 10 + imm /\ table % 8 = 2 + imm /\ ~(table < 8) /\ imm \in 0..4 /\ disp = 0 /\ far
      BY <1>6, <1>11, <1>12, <2>4
    <3>2. body = 2 + imm /\ adv = 2 + imm + 1 + ds /\ side = 1 + ds
      BY <1>9, <1>13, <2>1, <3>1
    <3>. QED
      BY <1>3, <1>9, <1>13, <2>1, <2>2, <2>4, <3>1, <3>2
  <2>5. CASE h /\ ~hassib
    <3>1. table = 10 + imm /\ table % 8 = 2 + imm /\ ~(table < 8) /\ imm \in 0..4 /\ disp = d0 /\ ~far
      BY <1>6, <1>11, <1>12, <2>5
    <3>2. body = 2 + imm + d0 /\ adv = 2 + imm + d0
      BY <1>9, <1>13, <2>1, <3>1
    <3>. QED
      BY <1>3, <1>9, <1>13, <2>1, <2>2, <2>5, <3>1, <3>2
  <2>. QED
    BY <1>6, <1>14, <2>3, <2>4, <2>5
<1>. QED
  BY Zenon, <1>1, <1>4, <1>5, <1>7, <1>9, <1>10, <1>13, <1>15

\* The lengths of the instruction handed over agree.
LEMMA HandoffLengths ==
  ASSUME FrontType, PrereadHandoff
  PROVE  /\ Handoff.adv \in Nat /\ Handoff.adv = Handoff.body
         /\ Handoff.length = Handoff.body + prefix.count + prefix.p0f
<1>1. PICK s, w, sib, ds, b : /\ s = InView /\ w = PlanLiterals(s) /\ sib = D1Bytes[3]
                              /\ ds = ModrmDispSize(w.addr32, w.modrm, sib, TRUE)
                              /\ b = IF w.has_sib THEN CaptureSib(w, sib) ELSE w
  OBVIOUS
<1>2. PICK h : h = HasModrm(Control[<<prefix.p0f, opcode>>])
  OBVIOUS
<1>3. /\ DOMAIN s = Fields
      /\ s.addr32 = addr32 /\ (s.modrm = IF h THEN D1Bytes[2] ELSE 0)
  <2>1. D1Bytes[1] = opcode
    BY DEF FrontType, D1Bytes, Bytes, opcode
  <2>. QED
    BY Zenon, <1>1, <1>2, <2>1, InViewIs
<1>4. /\ DOMAIN w = Fields
      /\ \A x \in Fields \ {"lit1", "lit2"} : w[x] = s[x]
  BY <1>1, <1>3, LiteralsKeep DEF Fields
<1>5. /\ w.addr32 = s.addr32 /\ w.modrm = s.modrm /\ w.has_sib = s.has_sib
      /\ w.length = s.length /\ w.body = s.body /\ w.adv = s.adv
  BY <1>4 DEF Fields, HeadFields
<1>6. PICK hassib : hassib = s.has_sib
  OBVIOUS
<1>7. PICK dm : dm = ModrmDispSize(addr32, D1Bytes[2], sib, TRUE)
  OBVIOUS
<1>8. /\ hassib \in BOOLEAN /\ (hassib => h)
      /\ s.body \in 1..11 /\ s.length = s.body + prefix.count + prefix.p0f
      /\ s.adv = IF hassib THEN s.body + 1 + dm ELSE s.body
      /\ dm \in 0..4 /\ (hassib => s.body \in 1..6)
  <2>1. PICK t : t = (h /\ addr32 = 1 /\ Bits(D1Bytes[2], 7, 6) # 3 /\ Bits(D1Bytes[2], 2, 0) = 4)
    OBVIOUS
  <2>2. t \in BOOLEAN
    BY <2>1
  <2>. QED
    BY Zenon, <1>1, <1>2, <1>6, <1>7, <2>1, <2>2, InViewLengths
<1>9. hassib => ds = dm
  BY Zenon, <1>1, <1>3, <1>5, <1>7, <1>8
<1>10. /\ b.length = IF hassib THEN (w.length + 1 + ds) % 32 ELSE w.length
       /\ b.body = IF hassib THEN w.body + 1 + ds ELSE w.body
       /\ b.adv = w.adv /\ DOMAIN b = Fields
  <2>1. CaptureSib(w, sib).length = (w.length + 1 + ds) % 32 /\ CaptureSib(w, sib).body = w.body + 1 + ds
    BY Zenon, <1>1, <1>4, SibLengthens
  <2>2. DOMAIN CaptureSib(w, sib) = Fields /\ CaptureSib(w, sib).adv = w.adv
    BY <1>4, SibKeeps DEF HeadFields
  <2>. QED
    BY <1>1, <1>4, <1>5, <1>6, <1>8, <2>1, <2>2
<1>11. Handoff = Issued(b, EffectiveEntry(w.entry, w.opcode, w.modrm))
  BY <1>1 DEF Handoff, StructWork, InView, Completed
<1>12. Handoff.length = b.length /\ Handoff.body = b.body /\ Handoff.adv = b.adv
  <2>1. PICK e : e = EffectiveEntry(w.entry, w.opcode, w.modrm)
    OBVIOUS
  <2>2. Handoff = Issued(b, e)
    BY Zenon, <1>11, <2>1
  <2>. QED
    BY <1>10, <2>2 DEF Issued, Fields, HeadFields
<1>13. prefix.count \in 0..15 /\ prefix.p0f \in 0..1
  BY DEF FrontType, Bit
<1>14. PICK c, f, body, adv, len :
         c = prefix.count /\ f = prefix.p0f /\ body = s.body /\ adv = s.adv /\ len = s.length
  OBVIOUS
<1>15. c \in 0..15 /\ f \in 0..1 /\ body \in 1..11 /\ len = body + c + f /\ dm \in 0..4
  BY <1>8, <1>13, <1>14
<1>16. CASE hassib
  <2>1. /\ Handoff.length = (len + 1 + dm) % 32 /\ Handoff.body = body + 1 + dm
        /\ Handoff.adv = body + 1 + dm
    BY <1>5, <1>8, <1>9, <1>10, <1>12, <1>14, <1>16
  <2>2. body \in 1..6
    BY <1>8, <1>14, <1>16
  <2>3. len + 1 + dm = body + c + f + 1 + dm /\ len + 1 + dm \in 0..31
    BY <1>15, <2>2
  <2>4. (len + 1 + dm) % 32 = body + 1 + dm + c + f /\ body + 1 + dm \in Nat
    BY <1>15, <2>2, <2>3
  <2>. QED
    BY Zenon, <1>14, <2>1, <2>4
<1>17. CASE ~hassib
  <2>1. Handoff.length = len /\ Handoff.body = body /\ Handoff.adv = body
    BY <1>5, <1>8, <1>10, <1>12, <1>14, <1>17
  <2>. QED
    BY <1>14, <1>15, <2>1
<1>. QED
  BY <1>8, <1>16, <1>17

\* A clock by its parts: what the fetch leaves, whether D1 hands over or is held.
FetchedTo(response) == IF response = "line" THEN Least(Len(code.bytes), LineEnd(queue.fetched)) ELSE queue.fetched
HandsOver(issue) == Handoff.v /\ (~skel.v \/ issue)
HeldBack(issue) == Handoff.v /\ ~HandsOver(issue)
MovesBy(issue) == IF HeldBack(issue) THEN 0 ELSE PrereadAdvance(Handoff)

LEMMA ClockIs ==
  ASSUME NEW response, NEW issue \in BOOLEAN, Clock(response, issue, Handoff)
  PROVE  /\ UNCHANGED <<code, D, PE>>
         /\ Fetch(response, FetchedTo(response), MovesBy(issue), IF issue THEN skel.length ELSE 0, Handoff)
         /\ Preread(FetchedTo(response), HeldBack(issue), Handoff)
         /\ prefix' = CASE HandsOver(issue) -> NoPrefix
                        [] ConsumePrefix \/ Consume0f -> NextPrefix
                        [] OTHER -> prefix
  BY Zenon DEF Clock, FetchedTo, HandsOver, HeldBack, MovesBy

LEMMA FetchedIs ==
  ASSUME FrontType, NEW response
  PROVE  FetchedTo(response) \in queue.fetched..Len(code.bytes)
<1>1. PICK n, f, o : n = Len(code.bytes) /\ f = queue.fetched /\ o = code.off
  OBVIOUS
<1>2. n \in Nat /\ f \in 0..n /\ o \in 0..15
  BY <1>1, LenProperties DEF FrontType, Code
<1>3. LineEnd(f) \in Int /\ LineEnd(f) > f
  <2>1. LineEnd(f) = 16 * ((o + f) \div 16 + 1) - o
    BY <1>1 DEF LineEnd
  <2>2. (o + f) \div 16 \in Int /\ 16 * ((o + f) \div 16 + 1) > o + f
    BY <1>2
  <2>. QED
    BY <1>2, <2>1, <2>2
<1>4. Least(n, LineEnd(f)) \in f..n
  BY <1>2, <1>3 DEF Least
<1>. QED
  BY <1>1, <1>2, <1>4 DEF FetchedTo

\* What D1 shows it has: a prefix, 0F, or an instruction.
LEMMA HandoffV ==
  ASSUME FrontType
  PROVE  /\ Handoff.v <=> PrereadHandoff
         /\ PrereadHandoff => ~ConsumePrefix /\ ~Consume0f
         /\ ~(ConsumePrefix /\ Consume0f)
<1>1. queue.k1 \in Int
  BY DEF FrontType
<1>2. PrereadHandoff => Handoff.v = TRUE
  BY Zenon, <1>1, HandoffHead
<1>3. ~PrereadHandoff => Handoff.v = FALSE
  BY DEF Handoff, None
<1>4. ~(ConsumePrefix /\ Consume0f)
  BY DEF ConsumePrefix, Consume0f, PrefixBytes, SegPrefixes
<1>5. PrereadHandoff => ~ConsumePrefix /\ ~Consume0f
  BY DEF PrereadHandoff
<1>. QED
  BY Zenon, <1>2, <1>3, <1>4, <1>5

\* The prefixes after one more.
LEMMA NextPrefixIs ==
  ASSUME FrontType, ConsumePrefix \/ Consume0f
  PROVE  /\ NextPrefix \in [p66 : Bit, p67 : Bit, p0f : Bit, rep : Bit, rep_lock : {"none", "lock", "rep"},
                            seg : 0..256, count : 0..15]
         /\ NextPrefix.rep = 1 => NextPrefix.rep_lock # "none"
         /\ NextPrefix.p0f = IF Consume0f THEN 1 ELSE prefix.p0f
         /\ Consume0f => NextPrefix.rep = prefix.rep
<1> DEFINE T == [p66 : Bit, p67 : Bit, p0f : Bit, rep : Bit, rep_lock : {"none", "lock", "rep"},
                 seg : 0..256, count : 0..15]
<1>1. prefix \in T /\ (prefix.rep = 1 => prefix.rep_lock # "none") /\ 0 \in Bit /\ 1 \in Bit
  BY DEF FrontType, Bit
<1>2. K1Avail >= 1
  BY DEF ConsumePrefix, Consume0f
<1>3. opcode \in 0..255
  BY <1>2, InView1
<1>4. CASE Consume0f
  <2>1. NextPrefix = [prefix EXCEPT !.p0f = 1]
    BY <1>4 DEF NextPrefix
  <2>. QED
    BY <1>1, <1>4, <2>1
<1>5. CASE ~Consume0f
  <2> DEFINE c == (prefix.count + 1) % 16
             a == IF opcode = 102 THEN 1 ELSE prefix.p66
             b == IF opcode = 103 THEN 1 ELSE prefix.p67
             r == IF opcode \in {242, 243} THEN 1 ELSE prefix.rep
             l == CASE opcode = 240 -> "lock" [] opcode \in {242, 243} -> "rep" [] OTHER -> prefix.rep_lock
             s == IF opcode \in SegPrefixes THEN opcode ELSE prefix.seg
  <2>1. NextPrefix = [prefix EXCEPT !.count = c, !.p66 = a, !.p67 = b, !.rep = r, !.rep_lock = l, !.seg = s]
    BY <1>5 DEF NextPrefix
  <2>2. c \in 0..15
    BY <1>1
  <2>3. a \in Bit /\ b \in Bit /\ r \in Bit /\ s \in 0..256
    BY <1>1, <1>3
  <2>4. l \in {"none", "lock", "rep"} /\ (r = 1 => l # "none")
    BY <1>1
  <2> HIDE DEF a, b, c, r, l, s
  <2>5. /\ NextPrefix \in T /\ NextPrefix.rep = r /\ NextPrefix.rep_lock = l /\ NextPrefix.p0f = prefix.p0f
    BY ZenonT(60), <1>1, <2>1, <2>2, <2>3, <2>4
  <2>. QED
    BY <1>5, <2>4, <2>5
<1>. QED
  BY <1>4, <1>5

\* A new start: the queue at the redirect's target, with the first line of it or none.
LEMMA RestartIs ==
  ASSUME NEW p \in Code, p.bytes # << >>, NEW hit \in BOOLEAN
  PROVE  /\ DOMAIN Restarted(p, hit) = QueueFields /\ Restarted(p, hit).k1 = 0
         /\ Restarted(p, hit).fetched \in 0..Len(p.bytes)
         /\ hit <=> Restarted(p, hit).fetched > 0
<1> DEFINE n == Len(p.bytes)
           first == IF hit THEN Least(n, 16 - p.off) ELSE 0
<1>1. n \in Nat /\ n > 0 /\ p.off \in 0..15
  BY EmptySeq, LenProperties DEF Code
<1>2. first \in 0..n /\ (hit <=> first > 0)
  <2>1. 16 - p.off \in Int /\ 16 - p.off > 0
    BY <1>1
  <2>2. Least(n, 16 - p.off) \in 1..n
    BY <1>1, <2>1 DEF Least
  <2>3. CASE hit
    BY <2>2, <2>3
  <2>4. CASE ~hit
    BY <1>1, <2>4
  <2>. QED
    BY <2>3, <2>4
<1>3. DOMAIN Restarted(p, hit) = QueueFields /\ Restarted(p, hit).k1 = 0 /\ Restarted(p, hit).fetched = first
  BY DEF Restarted, QueueFields
<1>. QED
  BY <1>2, <1>3

LEMMA NoPrefixIs ==
  /\ NoPrefix \in [p66 : Bit, p67 : Bit, p0f : Bit, rep : Bit, rep_lock : {"none", "lock", "rep"},
                   seg : 0..256, count : 0..15]
  /\ NoPrefix.rep = 0 /\ NoPrefix.p0f = 0
  BY DEF NoPrefix, Bit

LEMMA FrontInit == Init => FrontInv
<1> SUFFICES ASSUME Init PROVE FrontInv
  OBVIOUS
<1>1. code \in Code /\ code.bytes # << >> /\ D = code.d32 /\ PE = code.pe
  BY ProgramAssumption DEF Init
<1>2. /\ queue = Restarted(code, FALSE) /\ prefix = NoPrefix
      /\ rom = [q |-> <<Junk, 0, 0>>, hold |-> <<Junk, 0, 0>>, use_q |-> TRUE]
  BY DEF Init
<1>3. PICK hit \in BOOLEAN : ~hit /\ queue = Restarted(code, hit)
  BY <1>2
<1>4. DOMAIN queue = QueueFields /\ queue.k1 = 0 /\ queue.fetched \in 0..Len(code.bytes) /\ ~(queue.fetched > 0)
  BY <1>1, <1>3, RestartIs
<1>5. FrontType
  <2>1. D \in Bit /\ PE \in Bit
    BY <1>1 DEF Code
  <2>2. prefix \in [p66 : Bit, p67 : Bit, p0f : Bit, rep : Bit, rep_lock : {"none", "lock", "rep"},
                    seg : 0..256, count : 0..15] /\ ~(prefix.rep = 1)
    BY <1>2, NoPrefixIs
  <2>. QED
    BY <1>1, <1>4, <2>1, <2>2 DEF FrontType
<1>6. opcode = Junk
  BY <1>4 DEF opcode, Byte
<1>7. RomCurrent = <<Junk, 0, 0>>
  BY <1>2 DEF RomCurrent
<1>. QED
  BY <1>2, <1>5, <1>6, <1>7, NoPrefixIs DEF FrontInv, WordInView

LEMMA FrontFlush ==
  ASSUME FrontInv, NEW p \in Targets, NEW hit \in BOOLEAN, Flush(p, hit)
  PROVE  FrontInv'
<1>1. p \in Code /\ p.bytes # << >>
  BY ProgramAssumption
<1>2. /\ code' = p /\ D' = p.d32 /\ PE' = p.pe /\ queue' = Restarted(p, hit) /\ prefix' = NoPrefix
      /\ rom' = [q |-> <<IF hit THEN p.bytes[1] ELSE Junk, 0, 0>>, hold |-> RomCurrent, use_q |-> TRUE]
  BY DEF Flush
<1>3. /\ DOMAIN queue' = QueueFields /\ (queue').k1 = 0 /\ (queue').fetched \in 0..Len(p.bytes)
      /\ hit <=> (queue').fetched > 0
  BY <1>1, <1>2, RestartIs
<1>4. FrontType'
  BY <1>1, <1>2, <1>3, NoPrefixIs DEF FrontType, Code
<1>5. opcode' = IF hit THEN p.bytes[1] ELSE Junk
  BY <1>2, <1>3 DEF opcode, Byte
<1>6. RomCurrent' = <<IF hit THEN p.bytes[1] ELSE Junk, 0, 0>>
  BY <1>2 DEF RomCurrent
<1>. QED
  BY <1>2, <1>4, <1>5, <1>6, NoPrefixIs DEF FrontInv, WordInView

\* In a clock the word keeps up with the window, or is held with it.
LEMMA FrontClock ==
  ASSUME FrontInv, NEW response, NEW issue \in BOOLEAN, Clock(response, issue, Handoff)
  PROVE  FrontInv'
<1> DEFINE fetched == FetchedTo(response)
           by == MovesBy(issue)
<1>1. /\ code' = code /\ D' = D /\ PE' = PE
      /\ Fetch(response, fetched, by, IF issue THEN skel.length ELSE 0, Handoff)
      /\ Preread(fetched, HeldBack(issue), Handoff)
      /\ prefix' = CASE HandsOver(issue) -> NoPrefix
                     [] ConsumePrefix \/ Consume0f -> NextPrefix
                     [] OTHER -> prefix
  BY ClockIs
<1>2. FrontType /\ WordInView
  BY DEF FrontInv
<1>3. fetched \in queue.fetched..Len(code.bytes)
  BY <1>2, FetchedIs
<1>4. DOMAIN queue' = QueueFields /\ (queue').fetched = fetched /\ (queue').k1 = queue.k1 + by
  <2> HIDE DEF fetched, by
  <2>. QED
    BY <1>1, <1>2 DEF Fetch, FrontType, QueueFields
<1>5. /\ Handoff.v <=> PrereadHandoff
      /\ PrereadHandoff => ~ConsumePrefix /\ ~Consume0f
      /\ ~(ConsumePrefix /\ Consume0f)
  BY <1>2, HandoffV
<1>6. by \in Nat
  <2>1. PrereadHandoff => Handoff.adv \in Nat
    BY <1>2, HandoffLengths
  <2>2. PrereadAdvance(Handoff) \in Nat
    BY <1>5, <2>1 DEF PrereadAdvance
  <2>. QED
    BY <2>2 DEF MovesBy
<1>7. opcode' = Byte(queue.k1 + by, fetched)
  <2> HIDE DEF fetched, by
  <2>. QED
    BY <1>1, <1>4 DEF opcode, Byte
<1>8. rom' = [q |-> <<Byte(queue.k1 + PrereadAdvance(Handoff), fetched),
                      IF Handoff.v THEN 0 ELSE IF ConsumePrefix THEN NextPrefix.rep ELSE prefix.rep,
                      IF Handoff.v THEN 0 ELSE IF Consume0f THEN 1 ELSE prefix.p0f>>,
              hold |-> RomCurrent, use_q |-> ~HeldBack(issue)]
  BY <1>1 DEF Preread
<1> DEFINE word == <<Byte(queue.k1 + PrereadAdvance(Handoff), fetched),
                     IF Handoff.v THEN 0 ELSE IF ConsumePrefix THEN NextPrefix.rep ELSE prefix.rep,
                     IF Handoff.v THEN 0 ELSE IF Consume0f THEN 1 ELSE prefix.p0f>>
<1>9. /\ HeldBack(issue) => RomCurrent' = RomCurrent
      /\ ~HeldBack(issue) => RomCurrent' = word
  <2> HIDE DEF word
  <2>1. PICK u, h : u = ~HeldBack(issue) /\ h = RomCurrent
    OBVIOUS
  <2>3. rom' = [q |-> word, hold |-> h, use_q |-> u]
    BY Zenon, <1>8, <2>1 DEF word
  <2>4. (rom').q = word /\ (rom').hold = h /\ (rom').use_q = u
    BY <2>3
  <2>2. RomCurrent' = IF (rom').use_q THEN (rom').q ELSE (rom').hold
    BY DEF RomCurrent
  <2>. QED
    BY Zenon, <2>1, <2>2, <2>4
<1>10. (queue').k1 \in Nat /\ (queue').fetched \in 0..Len(code.bytes)
  BY <1>2, <1>3, <1>4, <1>6 DEF FrontType
<1> HIDE DEF fetched, by
<1>11. CASE HandsOver(issue)
  <2>1. prefix' = NoPrefix
    BY Zenon, <1>1, <1>5, <1>11 DEF HandsOver
  <2>2. Handoff.v /\ ~HeldBack(issue) /\ by = PrereadAdvance(Handoff)
    BY <1>11 DEF HandsOver, HeldBack, MovesBy, by
  <2>3. RomCurrent' = <<opcode', 0, 0>>
    BY <1>7, <1>9, <2>2
  <2>. QED
    BY <1>1, <1>2, <1>4, <1>10, <2>1, <2>3, NoPrefixIs DEF FrontInv, FrontType, WordInView
<1>12. CASE HeldBack(issue)
  <2>1. Handoff.v /\ ~HandsOver(issue) /\ by = 0
    BY <1>12 DEF HeldBack, MovesBy, by
  <2>2. prefix' = prefix
    BY Zenon, <1>1, <1>5, <2>1
  <2>3. queue.k1 < queue.fetched /\ queue.k1 < fetched
    BY <1>2, <1>3, <1>5, <2>1, ReadyBytes DEF FrontType
  <2>4. opcode' = opcode
    BY <1>2, <1>7, <2>1, <2>3 DEF opcode, Byte, FrontType
  <2>5. RomCurrent' = RomCurrent
    BY <1>9, <1>12
  <2>. QED
    BY <1>1, <1>2, <1>4, <1>10, <2>2, <2>4, <2>5 DEF FrontInv, FrontType, WordInView
<1>13. CASE ~Handoff.v
  <2>1. ~HandsOver(issue) /\ ~HeldBack(issue) /\ by = PrereadAdvance(Handoff)
    BY <1>13 DEF HandsOver, HeldBack, MovesBy, by
  <2>2. RomCurrent' = word
    BY <1>9, <2>1
  <2>3. CASE ConsumePrefix \/ Consume0f
    <3>1. prefix' = NextPrefix
      BY Zenon, <1>1, <2>1, <2>3
    <3>2. word[2] = NextPrefix.rep /\ word[3] = NextPrefix.p0f
      BY <1>2, <1>5, <1>13, <2>3, NextPrefixIs
    <3>3. RomCurrent' = <<opcode', NextPrefix.rep, NextPrefix.p0f>>
      BY <1>7, <2>1, <2>2, <3>2
    <3>4. FrontType'
      BY <1>1, <1>2, <1>4, <1>10, <2>3, <3>1, NextPrefixIs DEF FrontType
    <3>. QED
      BY <3>1, <3>3, <3>4 DEF FrontInv, WordInView
  <2>4. CASE ~(ConsumePrefix \/ Consume0f)
    <3>1. prefix' = prefix
      BY Zenon, <1>1, <2>1, <2>4
    <3>2. word[2] = prefix.rep /\ word[3] = prefix.p0f
      BY <1>13, <2>4
    <3>3. RomCurrent' = <<opcode', prefix.rep, prefix.p0f>>
      BY <1>7, <2>1, <2>2, <3>2
    <3>. QED
      BY <1>1, <1>2, <1>4, <1>10, <3>1, <3>3 DEF FrontInv, FrontType, WordInView
  <2>. QED
    BY <2>3, <2>4
<1>. QED
  BY Zenon, <1>11, <1>12, <1>13 DEF HeldBack

LEMMA FrontStep == FrontInv /\ [Next]_vars => FrontInv'
<1> SUFFICES ASSUME FrontInv, [Next]_vars PROVE FrontInv'
  OBVIOUS
<1>1. CASE \E response \in {"none", "line", "fault"}, issue \in BOOLEAN : Clock(response, issue, Handoff)
  BY <1>1, FrontClock
<1>2. CASE \E p \in Targets, hit \in BOOLEAN : Flush(p, hit)
  BY <1>2, FrontFlush
<1>3. CASE SwitchMode
  <2>1. D' \in Bit /\ PE' \in Bit
    BY <1>3 DEF SwitchMode, FrontInv, FrontType, Bit
  <2>2. UNCHANGED <<code, queue, prefix, rom>>
    BY <1>3 DEF SwitchMode
  <2>. QED
    BY <2>1, <2>2 DEF FrontInv, FrontType, WordInView, RomCurrent, opcode, Byte
<1>4. CASE UNCHANGED vars
  BY <1>4 DEF vars, FrontInv, FrontType, WordInView, RomCurrent, opcode, Byte
<1>. QED
  BY <1>1, <1>2, <1>3, <1>4 DEF Next

-----------------------------------------------------------------------------
(* The entry D1 hands over *)

\* An opcode without a ModR/M byte is decoded the same whatever byte is behind it.
LEMMA LockIgnoresModrm ==
  ASSUME NEW h \in BOOLEAN, ~h, NEW m, NEW n, NEW rl, NEW f, NEW op
  PROVE  LockInvalid(rl, f, op, h, m) <=> LockInvalid(rl, f, op, h, n)
<1>1. (LockInvalid(rl, f, op, h, m) <=> rl = "lock") /\ (LockInvalid(rl, f, op, h, n) <=> rl = "lock")
  BY DEF LockInvalid
<1>. QED
  BY Zenon, <1>1

\* XCHG EAX, EAX takes no LOCK.
LEMMA LockedNop ==
  ASSUME NEW f, NEW h \in BOOLEAN, NEW m, NEW rl, rl = "lock", NEW op, op = 144
  PROVE  LockInvalid(rl, f, op, h, m)
<1>1. ~ (op < 64) /\ op \div 4 = 36 /\ op \div 2 = 72
  BY SMT
<1>. QED
  BY <1>1 DEF LockInvalid

\* The entry of what D1 hands over is the effective entry of the two passes of the PLA.
LEMMA HandoffEntry ==
  ASSUME RomBuilds, RowsIgnoreRep, FrontInv, PrereadHandoff, <<prefix.p0f, opcode>> \in Opcodes
  PROVE  LET w == Handoff
             chained == ChainedEntry(opcode, w.has_0f, w.rep, <<w.data32, PE>>, w.has_modrm, w.modrm)
         IN /\ w.has_modrm \in BOOLEAN /\ w.modrm \in 0..255 /\ <<w.data32, PE>> \in Modes
            /\ w.has_modrm <=> HasModrm(Control[<<w.has_0f, w.opcode>>])
            /\ w.entry = EffectiveEntry(
                 IF LockInvalid(w.rep_lock, w.has_0f, opcode, w.has_modrm, w.modrm) THEN Invalid ELSE chained,
                 opcode, w.modrm)
<1> DEFINE f == prefix.p0f
           op == opcode
           rep == prefix.rep
           mode == <<data32, PE>>
           h == HasModrm(Control[<<f, op>>])
           raw == D1Bytes[2]
           m == IF h THEN raw ELSE 0
           w == Handoff
<1>1. FrontType /\ RomCurrent = <<op, rep, f>> /\ queue.k1 \in Int
  BY DEF FrontInv, WordInView, FrontType
<1>2. op \in 0..255 /\ (h => raw \in 0..255) /\ f \in Bit /\ rep \in Bit /\ mode \in Modes
  BY <1>1, ReadyBytes, Modes32 DEF Modes
<1>3. h \in BOOLEAN /\ m \in 0..255
  BY <1>2 DEF HasModrm
<1>4. /\ w.opcode = op /\ w.has_0f = f /\ w.rep = rep /\ w.rep_lock = prefix.rep_lock
      /\ w.data32 = data32 /\ w.has_modrm = h /\ w.modrm = m
      /\ w.entry = EffectiveEntry(
           IF LockInvalid(prefix.rep_lock, f, op, h, raw) THEN Invalid
           ELSE EntryFinal(<<op, rep, f>>, mode, op, f, h, raw), op, m)
  BY Zenon, <1>1, HandoffHead
<1>5. /\ LockInvalid(prefix.rep_lock, f, op, h, raw) <=> LockInvalid(prefix.rep_lock, f, op, h, m)
      /\ EntryFinal(<<op, rep, f>>, mode, op, f, h, raw) = EntryFinal(<<op, rep, f>>, mode, op, f, h, m)
  <2>1. CASE h
    BY Zenon, <2>1
  <2>2. CASE ~h
    <3> HIDE DEF f, op, rep, mode, h, raw, m, w
    <3>1. h \in BOOLEAN
      BY <1>3
    <3>2. LockInvalid(prefix.rep_lock, f, op, h, raw) <=> LockInvalid(prefix.rep_lock, f, op, h, m)
      BY Zenon, <2>2, <3>1, LockIgnoresModrm
    <3>3. PICK word : word = <<op, rep, f>>
      OBVIOUS
    <3>4. /\ EntryFinal(word, mode, op, f, h, raw) = First(word[1], word[2], mode, word[3])
          /\ EntryFinal(word, mode, op, f, h, m) = First(word[1], word[2], mode, word[3])
      BY Zenon, <2>2, <3>1 DEF EntryFinal
    <3>. QED
      BY Zenon, <3>2, <3>3, <3>4
  <2>. QED
    BY <2>1, <2>2
<1>6. EntryFinal(<<op, rep, f>>, mode, op, f, h, m) = ChainedEntry(op, f, rep, mode, h, m)
  <2>1. h <=> HasModrm(Control[<<f, op>>])
    OBVIOUS
  <2>2. <<f, op>> \in Opcodes
    OBVIOUS
  <2> HIDE DEF f, op, rep, mode, h, raw, m
  <2>. QED
    BY ZenonT(120), <1>2, <1>3, <2>1, <2>2, SelectsChained
<1>7. w.entry = EffectiveEntry(
        IF LockInvalid(prefix.rep_lock, f, op, h, m) THEN Invalid ELSE ChainedEntry(op, f, rep, mode, h, m),
        op, m)
  <2> HIDE DEF f, op, rep, mode, h, raw, m, w
  <2>. QED
    BY Zenon, <1>4, <1>5, <1>6
<1>8. h <=> HasModrm(Control[<<w.has_0f, w.opcode>>])
  <2>1. w.has_0f = f /\ w.opcode = op
    BY <1>4
  <2>. QED
    BY Zenon, <2>1
<1> HIDE DEF h, m, raw, w
<1>. QED
  BY Zenon, <1>2, <1>3, <1>4, <1>7, <1>8 DEF w

\* It goes back to the PLA's, and to the invalid one where LOCK is not allowed.
LEMMA HandoffGoesBack ==
  ASSUME RomBuilds, RowsIgnoreRep, FrontInv, PrereadHandoff, <<prefix.p0f, opcode>> \in Opcodes
  PROVE  LET w == Handoff
         IN EntryAgrees(w, ChainedEntry(opcode, w.has_0f, w.rep, <<w.data32, PE>>, w.has_modrm, w.modrm))
<1>1. PICK w : w = Handoff
  OBVIOUS
<1> DEFINE c == ChainedEntry(opcode, w.has_0f, w.rep, <<w.data32, PE>>, w.has_modrm, w.modrm)
           lock == LockInvalid(w.rep_lock, w.has_0f, opcode, w.has_modrm, w.modrm)
           e == IF lock THEN Invalid ELSE c
<1>2. /\ w.has_modrm \in BOOLEAN /\ w.modrm \in 0..255 /\ <<w.data32, PE>> \in Modes
      /\ w.entry = EffectiveEntry(e, opcode, w.modrm)
  BY Zenon, <1>1, HandoffEntry
<1>3. opcode \in 0..255 /\ w.has_0f \in Bit /\ w.rep \in Bit
  <2>1. FrontType /\ queue.k1 \in Int
    BY DEF FrontInv, FrontType
  <2>2. w.has_0f = prefix.p0f /\ w.rep = prefix.rep
    BY Zenon, <1>1, <2>1, HandoffHead
  <2>. QED
    BY <2>1, <2>2, ReadyBytes, Modes32
<1>4. c \notin Own /\ (c = 182 => opcode = 144)
  <2>1. c \notin Own /\ OnlyXchg(c, opcode)
    BY ZenonT(120), <1>2, <1>3, ChainedIs
  <2> HIDE DEF c
  <2>. QED
    BY <2>1 DEF OnlyXchg
<1>5. lock \in BOOLEAN /\ (lock => w.rep_lock = "lock")
  BY Zenon DEF LockInvalid
<1>6. w.rep_lock = "lock" /\ opcode = 144 => lock
  BY <1>2, LockedNop
<1>7. e \notin Own /\ (e = 182 => c = 182 /\ ~lock) /\ (~lock => e = c) /\ (lock => e = Invalid)
  <2> HIDE DEF c, lock
  <2>. QED
    BY <1>4, OwnIs DEF Invalid
<1> HIDE DEF e, c, lock
<1>8. FallbackEntry(w.entry) = IF e = 182 /\ opcode = 144 THEN Recipe.nop[1] ELSE e
  BY <1>2, <1>7, GoesBack
<1>9. FallbackEntry(w.entry) =
        CASE lock -> Invalid
          [] w.rep_lock # "lock" /\ c = 182 -> Recipe.nop[1]
          [] OTHER -> c
  <2>1. CASE lock
    BY <1>5, <1>7, <1>8, <2>1
  <2>2. CASE ~lock /\ w.rep_lock # "lock" /\ c = 182
    BY <1>4, <1>7, <1>8, <2>2
  <2>3. CASE ~lock /\ ~(w.rep_lock # "lock" /\ c = 182)
    <3>1. ~(e = 182 /\ opcode = 144)
      BY <1>6, <1>7, <2>3
    <3>. QED
      BY <1>7, <1>8, <2>3, <3>1
  <2>. QED
    BY <2>1, <2>2, <2>3
<1>. QED
  BY Zenon, <1>1, <1>9 DEF EntryAgrees, c, lock

-----------------------------------------------------------------------------
(* Port B's class *)

\* The ModR/M byte counts by its reg field and memory form only.
SameForm(m, n) == (Bits(m, 7, 6) # 3 <=> Bits(n, 7, 6) # 3) /\ Bits(m, 5, 3) = Bits(n, 5, 3)

LEMMA FormOf ==
  ASSUME NEW m \in 0..255
  PROVE  LET reg == Bits(m, 5, 3)
             mem == Flag(Bits(m, 7, 6) # 3)
         IN reg \in Regs /\ mem \in Bit /\ Modrm(reg, mem, 0) \in 0..255 /\ SameForm(m, Modrm(reg, mem, 0))
<1> DEFINE reg == Bits(m, 5, 3)
           mem == Flag(Bits(m, 7, 6) # 3)
           n == Modrm(reg, mem, 0)
<1>1. reg \in 0..7 /\ mem \in {0, 1} /\ (mem = 1 <=> Bits(m, 7, 6) # 3)
  BY SMT DEF Bits, Flag
<1>2. n = (IF mem = 1 THEN 0 ELSE 192) + 8 * reg
  BY <1>1 DEF Modrm
<1> HIDE DEF reg, mem, n
<1>3. n \in 0..255 /\ (n \div 64) % 4 = (IF mem = 1 THEN 0 ELSE 3) /\ (n \div 8) % 8 = reg
  BY <1>1, <1>2
<1>4. Bits(n, 7, 6) = (IF mem = 1 THEN 0 ELSE 3) /\ Bits(n, 5, 3) = reg
  <2>1. 2^6 = 64 /\ 2^(7 - 6 + 1) = 4 /\ 2^3 = 8 /\ 2^(5 - 3 + 1) = 8
    BY SMT
  <2>. QED
    BY <1>3, <2>1 DEF Bits
<1>5. SameForm(m, n)
  BY <1>1, <1>4 DEF SameForm, reg
<1>. QED
  BY <1>1, <1>3, <1>5 DEF reg, mem, n, Regs, Bit

LEMMA QualifiesByForm ==
  ASSUME NEW m, NEW n, SameForm(m, n), NEW name, NEW op
  PROVE  Qualifies(name, op, m) <=> Qualifies(name, op, n)
  BY ZenonT(60) DEF Qualifies, SameForm

\* Two instructions alike but for what the ModR/M byte leaves open.
Alike(e, g) ==
  /\ e.entry = g.entry /\ e.opcode = g.opcode /\ e.has_0f = g.has_0f
  /\ e.has_modrm = g.has_modrm /\ e.rep_lock = g.rep_lock /\ SameForm(e.modrm, g.modrm)

LEMMA FormsAlike ==
  ASSUME NEW e, NEW g, Alike(e, g), NEW name
  PROVE  /\ RegisterForm(name, e) <=> RegisterForm(name, g)
         /\ ShiftForm(name, e) <=> ShiftForm(name, g)
         /\ MemoryForm(name, e) <=> MemoryForm(name, g)
         /\ ControlForm(name, e) <=> ControlForm(name, g)
         /\ grp(e) = grp(g) /\ (Mem(e) <=> Mem(g))
<1>1. Mem(e) <=> Mem(g)
  BY DEF Mem, Alike, SameForm
<1>2. grp(e) = grp(g)
  BY DEF grp, Alike, SameForm
<1>3. AluImm(e) <=> AluImm(g)
  BY DEF AluImm, Alike
<1>4. /\ e.opcode = g.opcode /\ e.has_0f = g.has_0f /\ e.has_modrm = g.has_modrm
      /\ Bits(e.modrm, 5, 3) = Bits(g.modrm, 5, 3)
  BY DEF Alike, SameForm
<1>5. RegisterForm(name, e) <=> RegisterForm(name, g)
  BY <1>1, <1>2, <1>3, <1>4 DEF RegisterForm
<1>6. ShiftForm(name, e) <=> ShiftForm(name, g)
  BY <1>1, <1>4 DEF ShiftForm
<1>7. MemoryForm(name, e) <=> MemoryForm(name, g)
  BY <1>1, <1>2, <1>4 DEF MemoryForm
<1>8. ControlForm(name, e) <=> ControlForm(name, g)
  BY <1>4 DEF ControlForm
<1>. QED
  BY <1>1, <1>2, <1>5, <1>6, <1>7, <1>8

\* The entries that have a recipe, and the name of each.
Entries == {Recipe[n][1] : n \in DOMAIN Recipe}
NameOf(entry) == CHOOSE n \in DOMAIN Recipe : Recipe[n][1] = entry

PlainNames == {"nop", "mov_r_r", "mov_r_imm", "alu_r_r", "cmp_test_r_r", "inc_dec_not_neg_r", "alu_r_imm",
               "cmp_test_r_imm", "shift_r_imm", "shift_r_cl", "shxd_r_imm", "shxd_r_cl", "shift_r_one",
               "szext_r_16", "szext_r_32"}
MemoryNames == {"store_r", "store_imm", "load_r", "alu_r_m", "cmp_r_m", "cmp_test_m_imm", "cmp_test_m_r",
                "rmw_m_imm", "rmw_m_r", "szext_m_16", "szext_m_32"}
JumpNames == {"jcc_rel", "jmp_rel"}
StackNames == {"lea", "call_rel", "ret_near", "push_r", "push_seg", "push_imm", "pop_r"}

LEMMA RecipeNames == DOMAIN Recipe = PlainNames \cup MemoryNames \cup JumpNames \cup StackNames
  BY DEF Recipe, PlainNames, MemoryNames, JumpNames, StackNames

LEMMA RecipeEntries ==
  /\ Recipe.nop[1] = 2505 /\ Recipe.mov_r_r[1] = 3 /\ Recipe.mov_r_imm[1] = 5 /\ Recipe.alu_r_r[1] = 29
  /\ Recipe.cmp_test_r_r[1] = 31 /\ Recipe.inc_dec_not_neg_r[1] = 33 /\ Recipe.alu_r_imm[1] = 35
  /\ Recipe.cmp_test_r_imm[1] = 37 /\ Recipe.lea[1] = 185 /\ Recipe.shift_r_imm[1] = 249
  /\ Recipe.shift_r_cl[1] = 255 /\ Recipe.shxd_r_imm[1] = 252 /\ Recipe.shxd_r_cl[1] = 258
  /\ Recipe.shift_r_one[1] = 261 /\ Recipe.szext_r_16[1] = 488 /\ Recipe.szext_r_32[1] = 496
  /\ Recipe.store_r[1] = 19 /\ Recipe.store_imm[1] = 21 /\ Recipe.load_r[1] = 25 /\ Recipe.alu_r_m[1] = 39
  /\ Recipe.cmp_r_m[1] = 44 /\ Recipe.cmp_test_m_imm[1] = 49 /\ Recipe.cmp_test_m_r[1] = 53
  /\ Recipe.rmw_m_imm[1] = 57 /\ Recipe.rmw_m_r[1] = 74 /\ Recipe.szext_m_16[1] = 491
  /\ Recipe.szext_m_32[1] = 499 /\ Recipe.jcc_rel[1] = 101 /\ Recipe.jmp_rel[1] = 106
  /\ Recipe.call_rel[1] = 117 /\ Recipe.ret_near[1] = 114 /\ Recipe.push_r[1] = 134
  /\ Recipe.push_seg[1] = 155 /\ Recipe.push_imm[1] = 157 /\ Recipe.pop_r[1] = 159
  BY DEF Recipe

LEMMA RecipeKinds ==
  /\ \A n \in PlainNames : Recipe[n][2] = "NONE"
  /\ \A n \in JumpNames : Recipe[n][2] = "BRANCH"
  /\ \A n \in MemoryNames \cup StackNames : Recipe[n][2] \in {"EA", "LOAD", "STORE", "RMW", "STACK"}
  BY DEF Recipe, PlainNames, MemoryNames, JumpNames, StackNames

\* No two recipes share an entry, nor one with an overlay.
LEMMA RecipesDistinct ==
  ASSUME NEW a \in DOMAIN Recipe
  PROVE  /\ \A b \in DOMAIN Recipe : Recipe[a][1] = Recipe[b][1] => a = b
         /\ Recipe[a][1] \notin Own
<1>1. \A n \in PlainNames :
        Recipe[n][1] \in {2505, 3, 5, 29, 31, 33, 35, 37, 249, 255, 252, 258, 261, 488, 496}
  BY RecipeEntries DEF PlainNames
<1>2. \A n \in MemoryNames : Recipe[n][1] \in {19, 21, 25, 39, 44, 49, 53, 57, 74, 491, 499}
  BY RecipeEntries DEF MemoryNames
<1>3. \A n \in JumpNames : Recipe[n][1] \in {101, 106}
  BY RecipeEntries DEF JumpNames
<1>4. \A n \in StackNames : Recipe[n][1] \in {185, 117, 114, 134, 155, 157, 159}
  BY RecipeEntries DEF StackNames
<1>5. Recipe[a][1] \notin Own
  BY <1>1, <1>2, <1>3, <1>4, RecipeNames, OwnIs
<1>6. ASSUME NEW b \in DOMAIN Recipe, Recipe[a][1] = Recipe[b][1] PROVE a = b
  <2>1. CASE a \in PlainNames
    <3>1. b \in PlainNames
      BY <1>1, <1>2, <1>3, <1>4, <1>6, <2>1, RecipeNames
    <3>. QED
      BY <1>6, <2>1, <3>1, RecipeEntries DEF PlainNames
  <2>2. CASE a \in MemoryNames
    <3>1. b \in MemoryNames
      BY <1>1, <1>2, <1>3, <1>4, <1>6, <2>2, RecipeNames
    <3>. QED
      BY <1>6, <2>2, <3>1, RecipeEntries DEF MemoryNames
  <2>3. CASE a \in JumpNames
    <3>1. b \in JumpNames
      BY <1>1, <1>2, <1>3, <1>4, <1>6, <2>3, RecipeNames
    <3>. QED
      BY <1>6, <2>3, <3>1, RecipeEntries DEF JumpNames
  <2>4. CASE a \in StackNames
    <3>1. b \in StackNames
      BY <1>1, <1>2, <1>3, <1>4, <1>6, <2>4, RecipeNames
    <3>. QED
      BY <1>6, <2>4, <3>1, RecipeEntries DEF StackNames
  <2>. QED
    BY <2>1, <2>2, <2>3, <2>4, RecipeNames
<1>. QED
  BY <1>5, <1>6

LEMMA NameIs ==
  ASSUME NEW entry \in Entries
  PROVE  NameOf(entry) \in DOMAIN Recipe /\ Recipe[NameOf(entry)][1] = entry
  BY DEF Entries, NameOf

\* An entry's early kind is its recipe's.
LEMMA KindIs ==
  ASSUME NEW entry \in Entries
  PROVE  EarlyKind(entry) = Recipe[NameOf(entry)][2]
<1>1. PICK name : name = NameOf(entry)
  OBVIOUS
<1>2. name \in DOMAIN Recipe /\ Recipe[name][1] = entry
  BY <1>1, NameIs
<1> DEFINE of == {n \in DOMAIN Recipe : Recipe[n][1] = entry}
<1>3. of = {name}
  BY <1>2, RecipesDistinct
<1>4. of # {} /\ (CHOOSE n \in of : TRUE) = name
  <2> HIDE DEF of
  <2>. QED
    BY <1>3
<1>5. EarlyKind(entry) = Recipe[CHOOSE n \in of : TRUE][2]
  <2>1. entry \notin {2501, 2507, 2510, 2513}
    BY <1>2, RecipesDistinct, OwnIs
  <2>2. PICK k : k = Recipe[CHOOSE n \in of : TRUE][2]
    OBVIOUS
  <2>3. EarlyKind(entry) = CASE of # {} -> k
                             [] entry = 2501 -> "LOAD"
                             [] entry = 2513 -> "NONE"
                             [] entry \in {2507, 2510} -> "RMW"
                             [] OTHER -> "SEQ"
    BY Zenon, <2>2 DEF EarlyKind
  <2> HIDE DEF of
  <2>. QED
    BY <1>4, <2>1, <2>2, <2>3
<1> HIDE DEF of
<1>. QED
  BY <1>1, <1>4, <1>5

FitsRecipe(name, e) == RegisterForm(name, e) \/ ShiftForm(name, e) \/ MemoryForm(name, e) \/ ControlForm(name, e)
ReadsFlags(name, e) == \/ name = "jcc_rel"
                       \/ name \in {"alu_r_r", "alu_r_imm", "alu_r_m"} /\ grp(e) \in {2, 3}
UsesEa(name, e) == name \in StackNames \/ MemoryForm(name, e)
Taken(name, flags, ea) ==
  [hardwired |-> TRUE, reads_flags |-> flags, uses_ea |-> ea, jcc |-> name = "jcc_rel",
   br_rel |-> name \in {"jcc_rel", "jmp_rel", "call_rel"}, reads |-> RecipeReads(name)]
Overlaid(entry) == [NoRecipe EXCEPT !.uses_ea = entry # Overlay.x87_reg[2]]

\* The recipe of an instruction, case by case.
LEMMA MetadataIs ==
  ASSUME NEW e
  PROVE  LET name == NameOf(e.entry)
             fits == e.entry \in Entries /\ FitsRecipe(name, e)
         IN /\ e.rep_lock # "none" => Metadata(e) = NoRecipe
            /\ e.rep_lock = "none" /\ e.entry \in Own => Metadata(e) = Overlaid(e.entry)
            /\ e.rep_lock = "none" /\ fits => Metadata(e) = Taken(name, ReadsFlags(name, e), UsesEa(name, e))
            /\ e.rep_lock = "none" /\ e.entry \notin Own /\ ~fits => Metadata(e) = NoRecipe
<1> DEFINE name == NameOf(e.entry)
           fits == e.entry \in Entries /\ FitsRecipe(name, e)
           none == e.rep_lock = "none"
           own == e.entry \in Own
<1>1. fits => ~own
  <2>1. ASSUME e.entry \in Entries PROVE e.entry \notin Own
    BY <2>1, NameIs, RecipesDistinct
  <2>. QED
    BY <2>1
<1>2. Metadata(e) = CASE ~none -> NoRecipe
                      [] none /\ own -> Overlaid(e.entry)
                      [] none /\ fits -> Taken(name, ReadsFlags(name, e), UsesEa(name, e))
                      [] OTHER -> NoRecipe
  <2>1. own <=> e.entry \in {o[2] : o \in {Overlay[n] : n \in DOMAIN Overlay}}
    BY DEF Own
  <2>. QED
    BY Zenon, <2>1 DEF Metadata, NameOf, Entries, FitsRecipe, ReadsFlags, UsesEa, Taken, Overlaid, StackNames
<1> HIDE DEF name, fits, none, own
<1>3. /\ ~none => Metadata(e) = NoRecipe
      /\ none /\ own => Metadata(e) = Overlaid(e.entry)
      /\ none /\ fits => Metadata(e) = Taken(name, ReadsFlags(name, e), UsesEa(name, e))
      /\ none /\ ~own /\ ~fits => Metadata(e) = NoRecipe
  BY Zenon, <1>1, <1>2
<1>. QED
  BY Zenon, <1>3 DEF name, fits, none, own

\* The recipe, the class and the registers taken to be read are those of any instruction alike.
LEMMA AlikeInClass ==
  ASSUME NEW e, NEW g, Alike(e, g)
  PROVE  Metadata(e) = Metadata(g) /\ Class(e) = Class(g) /\ PbReads(e) = PbReads(g)
         /\ \A r : PbB1Type(e, r) <=> PbB1Type(g, r)
<1> DEFINE name == NameOf(e.entry)
<1>1. e.entry = g.entry /\ e.rep_lock = g.rep_lock /\ e.opcode = g.opcode /\ e.has_0f = g.has_0f
  BY DEF Alike
<1>2. FitsRecipe(name, e) <=> FitsRecipe(name, g)
  BY FormsAlike DEF FitsRecipe
<1>3. ReadsFlags(name, e) = ReadsFlags(name, g) /\ UsesEa(name, e) = UsesEa(name, g)
  BY FormsAlike DEF ReadsFlags, UsesEa
<1>4. NameOf(g.entry) = name
  BY <1>1
<1>5. Metadata(e) = Metadata(g)
  <2> DEFINE te == Taken(name, ReadsFlags(name, e), UsesEa(name, e))
             tg == Taken(name, ReadsFlags(name, g), UsesEa(name, g))
             fe == e.entry \in Entries /\ FitsRecipe(name, e)
             fg == g.entry \in Entries /\ FitsRecipe(name, g)
  <2>1. te = tg
    BY Zenon, <1>3
  <2>2. /\ e.rep_lock # "none" => Metadata(e) = NoRecipe
        /\ e.rep_lock = "none" /\ e.entry \in Own => Metadata(e) = Overlaid(e.entry)
        /\ e.rep_lock = "none" /\ fe => Metadata(e) = te
        /\ e.rep_lock = "none" /\ e.entry \notin Own /\ ~fe => Metadata(e) = NoRecipe
    BY Zenon, MetadataIs
  <2>3. /\ g.rep_lock # "none" => Metadata(g) = NoRecipe
        /\ g.rep_lock = "none" /\ g.entry \in Own => Metadata(g) = Overlaid(g.entry)
        /\ g.rep_lock = "none" /\ fg => Metadata(g) = tg
        /\ g.rep_lock = "none" /\ g.entry \notin Own /\ ~fg => Metadata(g) = NoRecipe
    BY Zenon, <1>4, MetadataIs
  <2>4. fe <=> fg
    BY Zenon, <1>1, <1>2
  <2> HIDE DEF te, tg, fe, fg, name
  <2>. QED
    BY Zenon, <1>1, <2>1, <2>2, <2>3, <2>4
<1>6. \A r : PbB1Type(e, r) <=> PbB1Type(g, r)
  BY Zenon, <1>1 DEF PbB1Type
<1>7. Class(e) = Class(g)
  <2>1. PbB1Type(e, Metadata(e)) <=> PbB1Type(g, Metadata(g))
    BY Zenon, <1>5, <1>6
  <2>2. Flag(PbB1Type(e, Metadata(e))) = Flag(PbB1Type(g, Metadata(g)))
    BY Zenon, <2>1 DEF Flag
  <2>. QED
    BY Zenon, <1>5, <2>2 DEF Class, Packed
<1>8. PbReads(e) = PbReads(g)
  <2>1. Mem(e) <=> Mem(g)
    BY FormsAlike
  <2>. QED
    BY <1>1, <2>1 DEF PbReads
<1>. QED
  BY <1>5, <1>6, <1>7, <1>8

\* The forms a recipe is qualified by.
LEMMA FormsByName ==
  ASSUME NEW e
  PROVE  /\ \A name \in PlainNames : ~ MemoryForm(name, e) /\ name \notin StackNames \cup {"jcc_rel", "jmp_rel"}
         /\ \A name \in MemoryNames : ~ RegisterForm(name, e) /\ ~ ShiftForm(name, e) /\ ~ ControlForm(name, e)
<1>1. ASSUME NEW name \in PlainNames
      PROVE  ~ MemoryForm(name, e) /\ name \notin StackNames \cup {"jcc_rel", "jmp_rel"}
  BY DEF PlainNames, StackNames, MemoryForm
<1>2. ASSUME NEW name \in MemoryNames PROVE ~ RegisterForm(name, e)
  BY DEF MemoryNames, RegisterForm
<1>3. ASSUME NEW name \in MemoryNames PROVE ~ ShiftForm(name, e) /\ ~ ControlForm(name, e)
  BY DEF MemoryNames, ShiftForm, ControlForm
<1>. QED
  BY <1>1, <1>2, <1>3

LEMMA TakenIs ==
  ASSUME NEW name, NEW flags \in BOOLEAN, NEW ea \in BOOLEAN
  PROVE  LET r == Taken(name, flags, ea)
         IN /\ r.hardwired /\ (r.uses_ea <=> ea) /\ (r.reads_flags <=> flags)
            /\ (r.br_rel <=> name \in {"jcc_rel", "jmp_rel", "call_rel"})
            /\ r.uses_ea \in BOOLEAN /\ r.reads_flags \in BOOLEAN /\ r.jcc \in BOOLEAN
<1>1. (name = "jcc_rel") \in BOOLEAN
  OBVIOUS
<1>. QED
  BY Zenon, <1>1 DEF Taken

\* A recipe is of an entry that has one, and of a form it is for.
LEMMA HardwiredIs ==
  ASSUME NEW e, Metadata(e).hardwired
  PROVE  LET name == NameOf(e.entry)
         IN /\ e.rep_lock = "none" /\ e.entry \in Entries /\ FitsRecipe(name, e)
            /\ Metadata(e) = Taken(name, ReadsFlags(name, e), UsesEa(name, e))
<1>1. ~ NoRecipe.hardwired /\ ~ Overlaid(e.entry).hardwired
  BY DEF NoRecipe, Overlaid
<1>. QED
  BY Zenon, <1>1, MetadataIs

\* A recipe's early role is the role its hazards are computed from.
LEMMA EarlyRole ==
  ASSUME NEW e, Metadata(e).hardwired
  PROVE  LET r == Metadata(e)
         IN CASE EarlyKind(e.entry) = "NONE" -> ~r.uses_ea /\ ~r.br_rel
              [] EarlyKind(e.entry) = "BRANCH" -> r.br_rel
              [] EarlyKind(e.entry) = "SEQ" -> FALSE
              [] OTHER -> r.uses_ea
<1> DEFINE name == NameOf(e.entry)
           kind == EarlyKind(e.entry)
           r == Metadata(e)
           ea == UsesEa(name, e)
<1>1. e.entry \in Entries /\ FitsRecipe(name, e) /\ r = Taken(name, ReadsFlags(name, e), ea)
  BY Zenon, HardwiredIs
<1>2. name \in DOMAIN Recipe /\ kind = Recipe[name][2]
  BY <1>1, NameIs, KindIs
<1>3. (r.uses_ea <=> ea) /\ (r.br_rel <=> name \in {"jcc_rel", "jmp_rel", "call_rel"})
  <2>1. ea \in BOOLEAN /\ ReadsFlags(name, e) \in BOOLEAN
    BY DEF UsesEa, ReadsFlags
  <2> HIDE DEF name, ea, r
  <2>. QED
    BY Zenon, <1>1, <2>1, TakenIs
<1>4. CASE name \in PlainNames
  <2>1. kind = "NONE"
    BY <1>2, <1>4, RecipeKinds
  <2>2. ~ ea /\ name \notin {"jcc_rel", "jmp_rel", "call_rel"}
    BY <1>4, FormsByName DEF UsesEa, StackNames
  <2> HIDE DEF name, kind, r, ea
  <2>3. (CASE kind = "NONE" -> ~r.uses_ea /\ ~r.br_rel
           [] kind = "BRANCH" -> r.br_rel
           [] kind = "SEQ" -> FALSE
           [] OTHER -> r.uses_ea)
    BY <1>3, <2>1, <2>2
  <2>. QED
    BY Zenon, <2>3 DEF kind, r
<1>5. CASE name \in JumpNames
  <2>1. kind = "BRANCH"
    BY <1>2, <1>5, RecipeKinds
  <2>2. name \in {"jcc_rel", "jmp_rel", "call_rel"}
    BY <1>5 DEF JumpNames
  <2> HIDE DEF name, kind, r, ea
  <2>3. (CASE kind = "NONE" -> ~r.uses_ea /\ ~r.br_rel
           [] kind = "BRANCH" -> r.br_rel
           [] kind = "SEQ" -> FALSE
           [] OTHER -> r.uses_ea)
    BY <1>3, <2>1, <2>2
  <2>. QED
    BY Zenon, <2>3 DEF kind, r
<1>6. CASE name \in MemoryNames \cup StackNames
  <2>1. kind \in {"EA", "LOAD", "STORE", "RMW", "STACK"}
    BY <1>2, <1>6, RecipeKinds
  <2>2. ea
    BY <1>1, <1>6, FormsByName DEF FitsRecipe, UsesEa
  <2> HIDE DEF name, kind, r, ea
  <2>3. (CASE kind = "NONE" -> ~r.uses_ea /\ ~r.br_rel
           [] kind = "BRANCH" -> r.br_rel
           [] kind = "SEQ" -> FALSE
           [] OTHER -> r.uses_ea)
    BY <1>3, <2>1, <2>2
  <2>. QED
    BY Zenon, <2>3 DEF kind, r
<1> HIDE DEF name
<1>. QED
  BY Zenon, <1>2, <1>4, <1>5, <1>6, RecipeNames

\* The type bit of a class gates the rest of it.
LEMMA ClassBits ==
  ASSUME NEW e
  PROVE  /\ PbB1Type(e, Metadata(e)) => Class(e) \in 8..15 /\ DropDontCare(Class(e)) = Class(e)
         /\ ~ PbB1Type(e, Metadata(e)) => DropDontCare(Class(e)) = 0
<1> DEFINE t == PbB1Type(e, Metadata(e))
           r == Metadata(e)
<1>1. PICK a, b, c : a = Flag(r.reads_flags) /\ b = Flag(r.uses_ea) /\ c = Flag(r.jcc)
  OBVIOUS
<1>2. a \in {0, 1} /\ b \in {0, 1} /\ c \in {0, 1}
  BY <1>1 DEF Flag
<1>3. PICK k : k = Flag(t)
  OBVIOUS
<1>4. Class(e) = 8 * k + 4 * a + 2 * b + c /\ (t => k = 1) /\ (~t => k = 0)
  BY Zenon, <1>1, <1>3 DEF Class, Packed, Flag
<1> HIDE DEF t, r
<1>5. (t => Class(e) \in 8..15) /\ (~t => Class(e) \in 0..7)
  <2>1. CASE t
    BY <1>2, <1>4, <2>1
  <2>2. CASE ~t
    BY <1>2, <1>4, <2>2
  <2>. QED
    BY <2>1, <2>2
<1>6. /\ t => Class(e) \in 8..15 /\ DropDontCare(Class(e)) = Class(e)
      /\ ~t => DropDontCare(Class(e)) = 0
  BY <1>5 DEF DropDontCare
<1>. QED
  BY Zenon, <1>6 DEF t

\* Only the form of the ModR/M byte counts for the entry.
LEMMA FieldsByForm ==
  ASSUME NEW m, NEW n, SameForm(m, n)
  PROVE  Reg(m) = Reg(n) /\ Memory(m) = Memory(n)
<1>1. Reg(m) = Reg(n)
  BY DEF SameForm, Reg
<1>2. Memory(m) = Memory(n)
  BY Zenon DEF SameForm, Memory, Flag
<1>. QED
  BY <1>1, <1>2

LEMMA EffectiveByForm ==
  ASSUME NEW m, NEW n, SameForm(m, n), NEW entry, NEW op
  PROVE  EffectiveEntry(entry, op, m) = EffectiveEntry(entry, op, n)
<1> DEFINE taken(x) == {name \in DOMAIN Overlay : Overlay[name][1] = entry /\ Qualifies(name, op, x)}
<1>1. taken(m) = taken(n)
  BY Zenon, QualifiesByForm
<1>2. \A x : EffectiveEntry(entry, op, x) =
        IF taken(x) # {} THEN Overlay[CHOOSE name \in taken(x) : TRUE][2]
        ELSE IF entry = 182 /\ op = 144 THEN Recipe.nop[1] ELSE entry
  BY DEF EffectiveEntry
<1> HIDE DEF taken
<1>. QED
  BY <1>1, <1>2

\* The decoder's select by the fields it uses.
Select(group, h, word, mode, reg, mem) ==
  IF group.valid /\ h THEN CHOOSE e \in GroupEntryRom[<<group.row, reg, mem>>] : TRUE
  ELSE First(word[1], word[2], mode, word[3])

\* Without prefixes that count, what D1 hands over is the instruction the script builds for its
\* opcode, mode and form of ModR/M.
LEMMA HandoffAlike ==
  ASSUME RomBuilds, RowsIgnoreRep, FrontInv, PrereadHandoff, <<prefix.p0f, opcode>> \in Opcodes,
         prefix.rep_lock = "none"
  PROVE  LET w == Handoff
             n == Modrm(Bits(w.modrm, 5, 3), Flag(Bits(w.modrm, 7, 6) # 3), 0)
         IN Alike(w, Bare(w.has_0f, w.opcode, <<w.data32, PE>>, n))
<1>1. PICK w : w = Handoff
  OBVIOUS
<1>2. PICK f, op, m, n, mode, h :
        /\ f = w.has_0f /\ op = w.opcode /\ m = w.modrm /\ mode = <<w.data32, PE>>
        /\ n = Modrm(Bits(w.modrm, 5, 3), Flag(Bits(w.modrm, 7, 6) # 3), 0)
        /\ h = w.has_modrm
  OBVIOUS
<1>3. FrontType /\ queue.k1 \in Int
  BY DEF FrontInv, FrontType
<1>4. w.opcode = opcode /\ w.has_0f = prefix.p0f /\ w.rep = prefix.rep /\ w.rep_lock = prefix.rep_lock
  BY Zenon, <1>1, <1>3, HandoffHead
<1>5. w.rep = 0 /\ op = opcode /\ w.rep_lock = "none"
  BY <1>2, <1>3, <1>4 DEF FrontType, Bit
<1>6. op \in 0..255 /\ f \in Bit /\ <<f, op>> \in Opcodes
  BY <1>2, <1>3, <1>4, <1>5, ReadyBytes, Modes32
<1> DEFINE chained == ChainedEntry(op, f, 0, mode, h, m)
<1>7. /\ h \in BOOLEAN /\ m \in 0..255 /\ mode \in Modes /\ (h <=> HasModrm(Control[<<f, op>>]))
      /\ w.entry = EffectiveEntry(chained, op, m)
  <2>1. /\ w.has_modrm \in BOOLEAN /\ w.modrm \in 0..255 /\ <<w.data32, PE>> \in Modes
        /\ w.has_modrm <=> HasModrm(Control[<<w.has_0f, w.opcode>>])
        /\ w.entry = EffectiveEntry(
             IF LockInvalid(w.rep_lock, w.has_0f, opcode, w.has_modrm, w.modrm) THEN Invalid
             ELSE ChainedEntry(opcode, w.has_0f, w.rep, <<w.data32, PE>>, w.has_modrm, w.modrm),
             opcode, w.modrm)
    BY Zenon, <1>1, HandoffEntry
  <2>2. ~ LockInvalid(w.rep_lock, w.has_0f, opcode, w.has_modrm, w.modrm)
    BY <1>5 DEF LockInvalid
  <2>. QED
    BY Zenon, <1>2, <1>5, <2>1, <2>2
<1>8. n \in 0..255 /\ SameForm(m, n)
  BY <1>2, <1>7, FormOf
<1> DEFINE word == <<op, 0, f>>
<1>9. EntryFinal(word, mode, op, f, h, m) = chained
  <2>1. 0 \in Bit
    BY DEF Bit
  <2>. QED
    BY ZenonT(120), <1>6, <1>7, <2>1, SelectsChained
<1>10. EntryFinal(word, mode, op, f, h, n) = chained
  <2>1. Reg(m) = Reg(n) /\ Memory(m) = Memory(n)
    BY <1>8, FieldsByForm
  <2>2. /\ EntryFinal(word, mode, op, f, h, m) = Select(GroupLookup(f, op, mode), h, word, mode, Reg(m), Memory(m))
        /\ EntryFinal(word, mode, op, f, h, n) = Select(GroupLookup(f, op, mode), h, word, mode, Reg(n), Memory(n))
    BY Zenon DEF EntryFinal, Select
  <2> HIDE DEF word, chained
  <2>. QED
    BY Zenon, <1>9, <2>1, <2>2
<1> DEFINE g == Bare(f, op, mode, n)
<1>11. /\ g.entry = EffectiveEntry(EntryFinal(word, mode, op, f, HasModrm(Control[<<f, op>>]), n), op, n)
       /\ g.opcode = op /\ g.has_0f = f /\ g.modrm = n /\ g.rep_lock = "none"
  BY DEF Bare
<1>12. g.has_modrm = HasModrm(Control[<<f, op>>])
  BY Zenon DEF Bare
<1>13. h = HasModrm(Control[<<f, op>>])
  BY <1>7 DEF HasModrm
<1>14. g.entry = EffectiveEntry(chained, op, n) /\ g.has_modrm = h
  <2> HIDE DEF word, chained, g
  <2>. QED
    BY Zenon, <1>10, <1>11, <1>12, <1>13
<1>15. w.entry = g.entry
  <2> HIDE DEF chained, g
  <2>. QED
    BY ZenonT(60), <1>7, <1>8, <1>14, EffectiveByForm
<1>16. Alike(w, g)
  <2> HIDE DEF g
  <2>. QED
    BY Zenon, <1>2, <1>5, <1>8, <1>11, <1>14, <1>15 DEF Alike
<1>. QED
  BY Zenon, <1>1, <1>2, <1>16

\* Port B is told the class of the instruction in view.
LEMMA HandoffClass ==
  ASSUME RomBuilds, RowsIgnoreRep, TableBuilds, ReadsCovered,
         FrontInv, PrereadHandoff, <<prefix.p0f, opcode>> \in Opcodes
  PROVE  ClassAgrees(Handoff, Metadata(Handoff), PbnType(Handoff))
<1>1. PICK w, r : w = Handoff /\ r = Metadata(w)
  OBVIOUS
<1>2. queue.k1 \in Int
  BY DEF FrontInv, FrontType
<1>3. w.opcode = opcode /\ w.has_0f = prefix.p0f /\ w.rep_lock = prefix.rep_lock
  BY Zenon, <1>1, <1>2, HandoffHead
<1> DEFINE t == PbB1Type(w, r)
<1>4. /\ PbnType(w) <=> t
      /\ t => PbnClass(w) = Class(w) /\ r.reads \subseteq PbReads(w)
  <2>1. CASE prefix.rep_lock # "none"
    <3>1. ~ PbnType(w)
      BY <1>3, <2>1 DEF PbnType
    <3>2. r = NoRecipe
      BY Zenon, <1>1, <1>3, <2>1, MetadataIs
    <3>3. ~ t
      BY <3>2 DEF PbB1Type, NoRecipe
    <3>. QED
      BY Zenon, <3>1, <3>3
  <2>2. CASE prefix.rep_lock = "none"
    <3>1. PICK f, op, mode, reg, mem, k :
            /\ f = w.has_0f /\ op = w.opcode /\ mode = <<w.data32, PE>> /\ k = <<f, op>>
            /\ reg = Bits(w.modrm, 5, 3) /\ mem = Flag(Bits(w.modrm, 7, 6) # 3)
      OBVIOUS
    <3>2. PICK g : g = Bare(f, op, mode, Modrm(reg, mem, 0))
      OBVIOUS
    <3>3. Alike(w, g)
      BY Zenon, <1>1, <2>2, <3>1, <3>2, HandoffAlike
    <3>4. w.modrm \in 0..255 /\ mode \in Modes
      BY Zenon, <1>1, <3>1, HandoffEntry
    <3>5. reg \in Regs /\ mem \in Bit
      BY <3>1, <3>4, FormOf
    <3>6. k \in Opcodes /\ k[1] = f /\ k[2] = op /\ 0 \in 0..7
      BY <1>3, <3>1
    <3>7. PbnClass(w) = RowLookup(ClassTable[k], reg, mem)
      BY Zenon, <3>1 DEF PbnClass, Mem
    <3>8. RowLookup(ClassTable[k], reg, mem) = DropDontCare(Class(g))
      <4>1. RowLookup(ClassTable[k], reg, mem)
              = DropDontCare(Class(Bare(k[1], k[2], mode, Modrm(reg, mem, 0))))
        BY Zenon, <3>4, <3>5, <3>6, PortBTableIsExact
      <4>. QED
        BY Zenon, <3>2, <3>6, <4>1
    <3>9. /\ Metadata(g) = r /\ Class(g) = Class(w) /\ PbReads(g) = PbReads(w)
          /\ PbB1Type(g, Metadata(g)) <=> t
      BY Zenon, <1>1, <3>3, AlikeInClass
    <3>10. PbnClass(w) = DropDontCare(Class(w))
      BY Zenon, <3>7, <3>8, <3>9
    <3>11. /\ t => Class(w) \in 8..15 /\ DropDontCare(Class(w)) = Class(w)
           /\ ~ t => DropDontCare(Class(w)) = 0
      BY Zenon, <1>1, ClassBits
    <3>12. t => r.reads \subseteq PbReads(w)
      <4>1. PbB1Type(g, Metadata(g)) => Metadata(g).reads \subseteq PbReads(g)
        BY Zenon, <3>2, <3>4, <3>5, <3>6 DEF ReadsCovered
      <4>. QED
        BY Zenon, <3>9, <4>1
    <3>13. PbnType(w) <=> t
      <4>1. PbnType(w) <=> PbnClass(w) >= 8
        BY <1>3, <2>2 DEF PbnType
      <4> HIDE DEF t
      <4>. QED
        BY <3>10, <3>11, <4>1
    <3>. QED
      BY Zenon, <3>10, <3>11, <3>12, <3>13
  <2>. QED
    BY Zenon, <2>1, <2>2
<1>5. PbnType(w) = t
  BY <1>4 DEF PbnType, PbB1Type
<1>6. r.hardwired => CASE EarlyKind(w.entry) = "NONE" -> ~r.uses_ea /\ ~r.br_rel
                       [] EarlyKind(w.entry) = "BRANCH" -> r.br_rel
                       [] EarlyKind(w.entry) = "SEQ" -> FALSE
                       [] OTHER -> r.uses_ea
  BY Zenon, <1>1, EarlyRole
<1>. QED
  BY Zenon, <1>1, <1>4, <1>5, <1>6 DEF ClassAgrees

-----------------------------------------------------------------------------
(* Dispatch *)

\* The word of the entry ROM that D1 uses is of the opcode in its view and the prefixes before
\* it, in every state: read one clock earlier at the window D1 would move to, held while D2
\* refuses the instruction, restarted by a redirect.
THEOREM WordIsInView == Spec => []WordInView
<1>1. FrontInv => WordInView
  BY DEF FrontInv
<1>. QED
  BY <1>1, FrontInit, FrontStep, PTL DEF Spec

\* Dispatch is told the entry and the port-B class of the instruction that was decoded, for every
\* program, fetch and redirect, once the generators' checks on the tables have passed.
THEOREM DispatchIsRight ==
  ASSUME RomBuilds, RowsIgnoreRep, TableBuilds, ReadsCovered
  PROVE  Spec => []DispatchAgrees
<1>1. FrontInv => DispatchAgrees
  <2> SUFFICES ASSUME FrontInv, PrereadHandoff, <<prefix.p0f, opcode>> \in Opcodes
               PROVE  RightlyDispatched(Handoff)
    BY DEF DispatchAgrees
  <2>. QED
    BY Zenon, HandoffGoesBack, HandoffClass DEF RightlyDispatched
<1>. QED
  BY <1>1, FrontInit, FrontStep, PTL DEF Spec

-----------------------------------------------------------------------------
(* The cursors *)

\* The bytes of the instruction in D2, and the words its queue spans.
InD2 == IF skel.v THEN skel.length ELSE 0
Span(off, fetched, popped) == (off + fetched + 3) \div 4 - (off + popped) \div 4

\* D1's cursor stands behind D2's instruction and the prefixes taken since, which are in the
\* code; a fetch is out only while a line fits.
PrefixesBehind ==
  \A j \in 1..prefix.count : code.bytes[queue.k1 - prefix.p0f - prefix.count + j] \in PrefixBytes

CursorInv ==
  /\ FrontInv /\ code \in Programs \cup Targets
  /\ queue.popped \in Nat
  /\ skel = None \/ (skel.v = TRUE /\ skel.length \in Nat)
  /\ queue.k1 = queue.popped + prefix.count + prefix.p0f + InD2
  /\ PrefixesBehind
  /\ Span(code.off, queue.fetched, queue.popped) <= 8
  /\ queue.inflight => Span(code.off, queue.fetched, queue.popped) <= 4

LEMMA SpanIs ==
  ASSUME NEW off \in 0..15, NEW f \in Nat, NEW p \in Nat
  PROVE  /\ Span(off, f, p) \in Int
         /\ f = p => Span(off, f, p) <= 1
         /\ \A q \in Nat : q >= p => Span(off, f, q) <= Span(off, f, p)
         /\ \A g \in Nat : g <= 16 * ((off + f) \div 16 + 1) - off => Span(off, g, p) <= Span(off, f, p) + 4
<1>1. Span(off, f, p) \in Int
  BY DEF Span
<1>2. f = p => Span(off, f, p) <= 1
  BY DEF Span
<1>3. ASSUME NEW q \in Nat, q >= p PROVE Span(off, f, q) <= Span(off, f, p)
  <2>1. (off + q) \div 4 >= (off + p) \div 4
    BY <1>3
  <2>. QED
    BY <2>1 DEF Span
<1>4. ASSUME NEW g \in Nat, g <= 16 * ((off + f) \div 16 + 1) - off
      PROVE  Span(off, g, p) <= Span(off, f, p) + 4
  <2>1. PICK k \in Nat : k = (off + f) \div 16 /\ off + f >= 16 * k /\ off + f < 16 * k + 16
    BY SMT
  <2>2. off + g + 3 <= 16 * k + 19
    BY <1>4, <2>1
  <2>3. (off + g + 3) \div 4 <= 4 * k + 4
    BY <2>1, <2>2
  <2>4. (off + f + 3) \div 4 >= 4 * k
    BY <2>1
  <2>. QED
    BY <2>1, <2>3, <2>4 DEF Span
<1>. QED
  BY <1>1, <1>2, <1>3, <1>4

\* A clock by its parts: the instruction in D2, the cursors and the fetch.
LEMMA ClockCursors ==
  ASSUME FrontType, NEW response, NEW issue \in BOOLEAN, Clock(response, issue, Handoff)
  PROVE  /\ skel' = IF HandsOver(issue) THEN Handoff ELSE IF issue THEN None ELSE skel
         /\ issue => skel.v
         /\ (queue').fetched = FetchedTo(response)
         /\ (queue').k1 = queue.k1 + MovesBy(issue)
         /\ (queue').popped = queue.popped + IF issue THEN skel.length ELSE 0
         /\ (queue').inflight =
              IF queue.inflight /\ response = "none" THEN TRUE ELSE CanFetch(FetchedTo(response), Handoff)
         /\ response # "none" => queue.inflight
<1>1. /\ skel' = IF HandsOver(issue) THEN Handoff ELSE IF issue THEN None ELSE skel
      /\ issue => D2Push
      /\ response # "none" => queue.inflight
  BY Zenon DEF Clock, HandsOver
<1>2. D2Push => skel.v
  BY DEF D2Push
<1>3. Fetch(response, FetchedTo(response), MovesBy(issue), IF issue THEN skel.length ELSE 0, Handoff)
  BY ClockIs
<1>4. PICK f, a, p, d, c : /\ f = FetchedTo(response) /\ a = MovesBy(issue) /\ d = Handoff
                           /\ p = IF issue THEN skel.length ELSE 0
                           /\ c = IF queue.inflight /\ response = "none" THEN TRUE ELSE CanFetch(f, d)
  OBVIOUS
<1>5. Fetch(response, f, a, p, d)
  BY Zenon, <1>3, <1>4
<1>6. PICK u, r : queue' = [queue EXCEPT !.fetched = f, !.k1 = queue.k1 + a, !.popped = queue.popped + p,
                                         !.fault = u, !.reported = r, !.inflight = c]
  BY Zenon, <1>4, <1>5 DEF Fetch
<1>7. DOMAIN queue = QueueFields
  BY DEF FrontType
<1>8. /\ (queue').fetched = f /\ (queue').k1 = queue.k1 + a /\ (queue').popped = queue.popped + p
      /\ (queue').inflight = c
  BY <1>6, <1>7 DEF QueueFields
<1>. QED
  BY Zenon, <1>1, <1>2, <1>4, <1>8

LEMMA CursorsAre ==
  ASSUME CursorInv
  PROVE  /\ queue.popped \in Nat /\ InD2 \in Nat /\ prefix.count \in 0..15 /\ prefix.p0f \in 0..1
         /\ queue.k1 = queue.popped + prefix.count + prefix.p0f + InD2
<1>1. prefix.count \in 0..15 /\ prefix.p0f \in 0..1
  BY DEF CursorInv, FrontInv, FrontType, Bit
<1>2. None.v = FALSE
  BY DEF None
<1>3. skel = None \/ (skel.v = TRUE /\ skel.length \in Nat)
  BY DEF CursorInv
<1>4. InD2 \in Nat
  BY <1>2, <1>3 DEF InD2
<1>. QED
  BY <1>1, <1>4 DEF CursorInv

\* The count of prefixes never wraps: there are not sixteen of them in a row.
LEMMA CountFits ==
  ASSUME ShortPrefixes, CursorInv, ConsumePrefix
  PROVE  prefix.count < 15
<1>1. FrontType /\ K1Avail >= 1 /\ prefix.p0f = 0 /\ opcode \in PrefixBytes
  BY DEF CursorInv, FrontInv, ConsumePrefix
<1>2. PICK c, k, n, q : c = prefix.count /\ k = queue.k1 /\ n = Len(code.bytes) /\ q = queue.fetched
  OBVIOUS
<1>3. c \in 0..15 /\ k \in Nat /\ q \in 0..n /\ n \in Nat
  BY <1>1, <1>2, LenProperties DEF FrontType, Code
<1>4. k < q /\ opcode = code.bytes[k + 1]
  BY <1>1, <1>2, InView1
<1>5. k >= c
  <2>1. PICK p, d, z : p = queue.popped /\ d = InD2 /\ z = prefix.p0f
    OBVIOUS
  <2>2. p \in Nat /\ d \in Nat /\ z \in 0..1 /\ k = p + c + z + d
    BY Zenon, <1>2, <2>1, CursorsAre
  <2>. QED
    BY <1>3, <2>2
<1>6. \A j \in 1..c : code.bytes[k - c + j] \in PrefixBytes
  BY <1>1, <1>2, <1>3 DEF CursorInv, PrefixesBehind
<1>7. SUFFICES ASSUME c = 15 PROVE FALSE
  <2>1. prefix.count = c /\ c \in 0..15
    BY <1>2, <1>3
  <2>. QED
    BY SMTT(60), <2>1
<1>8. PICK at : at = k - 15
  OBVIOUS
<1>9. at \in 0..n - 16 /\ k = at + 15
  BY <1>3, <1>4, <1>5, <1>7, <1>8
<1>10. PICK j \in 1..16 : code.bytes[at + j] \notin PrefixBytes
  BY <1>2, <1>9 DEF CursorInv, ShortPrefixes
<1>11. CASE j = 16
  <2>1. at + j = k + 1
    BY <1>9, <1>11
  <2>. QED
    BY <1>1, <1>4, <1>10, <2>1
<1>12. CASE j \in 1..15
  <2>1. at + j = k - c + j
    BY <1>7, <1>8
  <2>. QED
    BY <1>6, <1>7, <1>10, <1>12, <2>1
<1>. QED
  BY <1>10, <1>11, <1>12

\* A prefix or 0F taken counts one more byte.
LEMMA OneMore ==
  ASSUME ShortPrefixes, CursorInv, ConsumePrefix \/ Consume0f
  PROVE  /\ NextPrefix.count \in Nat /\ NextPrefix.p0f \in Nat
         /\ NextPrefix.count + NextPrefix.p0f = prefix.count + prefix.p0f + 1
         /\ NextPrefix.count = IF Consume0f THEN prefix.count ELSE prefix.count + 1
         /\ NextPrefix.p0f = IF Consume0f THEN 1 ELSE 0
<1>1. prefix \in [p66 : Bit, p67 : Bit, p0f : Bit, rep : Bit, rep_lock : {"none", "lock", "rep"},
                  seg : 0..256, count : 0..15] /\ prefix.p0f = 0
  BY DEF CursorInv, FrontInv, FrontType, ConsumePrefix, Consume0f
<1>2. CASE Consume0f
  <2>1. NextPrefix = [prefix EXCEPT !.p0f = 1]
    BY <1>2 DEF NextPrefix
  <2>. QED
    BY <1>1, <1>2, <2>1
<1>3. CASE ~Consume0f
  <2> DEFINE a == IF opcode = 102 THEN 1 ELSE prefix.p66
             b == IF opcode = 103 THEN 1 ELSE prefix.p67
             r == IF opcode \in {242, 243} THEN 1 ELSE prefix.rep
             l == CASE opcode = 240 -> "lock" [] opcode \in {242, 243} -> "rep" [] OTHER -> prefix.rep_lock
             g == IF opcode \in SegPrefixes THEN opcode ELSE prefix.seg
  <2>1. NextPrefix = [prefix EXCEPT !.count = (prefix.count + 1) % 16, !.p66 = a, !.p67 = b, !.rep = r,
                                    !.rep_lock = l, !.seg = g]
    BY <1>3 DEF NextPrefix
  <2> HIDE DEF a, b, r, l, g
  <2>2. prefix.count < 15
    BY <1>3, CountFits
  <2>3. NextPrefix.count = (prefix.count + 1) % 16 /\ NextPrefix.p0f = prefix.p0f
    BY <1>1, <2>1
  <2>. QED
    BY <1>1, <1>3, <2>2, <2>3
<1>. QED
  BY <1>2, <1>3

\* The bytes taken stay the prefixes of the instruction in view.
LEMMA PrefixesMore ==
  ASSUME ShortPrefixes, CursorInv, ConsumePrefix \/ Consume0f,
         code' = code, prefix' = NextPrefix, (queue').k1 = queue.k1 + 1
  PROVE  PrefixesBehind'
<1>1. PICK c, k, z : c = prefix.count /\ k = queue.k1 /\ z = NextPrefix.count
  OBVIOUS
<1>2. /\ c \in 0..15 /\ k \in Nat /\ prefix.p0f = 0 /\ FrontType /\ K1Avail >= 1
      /\ z = IF Consume0f THEN c ELSE c + 1
      /\ NextPrefix.p0f = IF Consume0f THEN 1 ELSE 0
  BY <1>1, OneMore DEF CursorInv, FrontInv, FrontType, ConsumePrefix, Consume0f
<1>3. \A j \in 1..c : code.bytes[k - c + j] \in PrefixBytes
  BY <1>1, <1>2 DEF CursorInv, PrefixesBehind
<1>4. /\ (prefix').count = z /\ (prefix').p0f = NextPrefix.p0f /\ (code').bytes = code.bytes
      /\ (queue').k1 = k + 1
  BY <1>1
<1>5. SUFFICES ASSUME NEW j \in 1..(prefix').count
               PROVE  (code').bytes[(queue').k1 - (prefix').p0f - (prefix').count + j] \in PrefixBytes
  BY Zenon DEF PrefixesBehind
<1>6. PICK i : i = (queue').k1 - (prefix').p0f - (prefix').count + j
  OBVIOUS
<1>7. i = k + 1 - NextPrefix.p0f - z + j /\ j \in 1..z
  BY <1>2, <1>4, <1>6
<1>8. code.bytes[i] \in PrefixBytes
  <2>1. CASE Consume0f
    <3>1. i = k - c + j /\ j \in 1..c
      BY <1>2, <1>7, <2>1
    <3>. QED
      BY <1>3, <3>1
  <2>2. CASE ~Consume0f
    <3>1. i = k - c + j
      BY <1>2, <1>7, <2>2
    <3>2. CASE j \in 1..c
      BY <1>3, <3>1, <3>2
    <3>3. CASE j = c + 1
      <4>1. i = k + 1
        BY <1>2, <3>1, <3>3
      <4>2. code.bytes[k + 1] \in PrefixBytes
        BY <1>1, <1>2, <2>2, InView1 DEF ConsumePrefix
      <4>. QED
        BY <4>1, <4>2
    <3>. QED
      BY <1>2, <1>7, <2>2, <3>2, <3>3
  <2>. QED
    BY <2>1, <2>2
<1>. QED
  BY Zenon, <1>4, <1>6, <1>8

\* A line fits the queue it was asked for.
LEMMA SpanClock ==
  ASSUME CursorInv, NEW response \in {"none", "line", "fault"}, NEW issue \in BOOLEAN,
         Clock(response, issue, Handoff), (queue').popped \in Nat, (queue').popped >= queue.popped
  PROVE  /\ Span(code.off, (queue').fetched, (queue').popped) <= 8
         /\ (queue').inflight => Span(code.off, (queue').fetched, (queue').popped) <= 4
<1>1. PICK off, f, p, g, q, n : /\ off = code.off /\ f = queue.fetched /\ p = queue.popped /\ n = Len(code.bytes)
                                /\ g = (queue').fetched /\ q = (queue').popped
  OBVIOUS
<1>2. FrontType
  BY DEF CursorInv, FrontInv
<1>3. /\ g = FetchedTo(response)
      /\ (queue').inflight =
              IF queue.inflight /\ response = "none" THEN TRUE ELSE CanFetch(FetchedTo(response), Handoff)
      /\ response # "none" => queue.inflight
  BY <1>1, <1>2, ClockCursors
<1>4. off \in 0..15 /\ f \in Nat /\ p \in Nat /\ q \in Nat /\ q >= p /\ n \in Nat /\ g \in f..n
  <2>1. n \in Nat /\ off \in 0..15 /\ f \in 0..n
    BY <1>1, <1>2, LenProperties DEF FrontType, Code
  <2>2. g \in f..n
    BY <1>1, <1>2, <1>3, FetchedIs
  <2>. QED
    BY <1>1, <2>1, <2>2 DEF CursorInv
<1>5. g \in Nat
  BY <1>4
<1>6. /\ Span(off, f, p) <= 8 /\ (queue.inflight => Span(off, f, p) <= 4)
      /\ Span(off, f, p) \in Int /\ Span(off, g, p) \in Int /\ Span(off, g, q) \in Int
  BY <1>1, <1>4, <1>5, SpanIs DEF CursorInv
<1>7. Span(off, g, q) <= Span(off, g, p)
  BY <1>4, <1>5, SpanIs
<1>8. ASSUME response = "line" PROVE Span(off, g, q) <= 8
  <2>1. g = Least(n, LineEnd(f)) /\ LineEnd(f) = 16 * ((off + f) \div 16 + 1) - off
    BY <1>1, <1>3, <1>8 DEF FetchedTo, LineEnd
  <2>2. g <= 16 * ((off + f) \div 16 + 1) - off
    BY <1>4, <2>1 DEF Least
  <2>3. Span(off, g, p) <= Span(off, f, p) + 4
    BY <1>4, <1>5, <2>2, SpanIs
  <2>4. Span(off, g, p) <= 8
    BY <1>3, <1>6, <1>8, <2>3
  <2>. QED
    BY <1>6, <1>7, <2>4
<1>9. ASSUME response # "line" PROVE Span(off, g, q) <= 8
  <2>1. g = f
    BY <1>1, <1>3, <1>9 DEF FetchedTo
  <2>. QED
    BY <1>6, <1>7, <2>1
<1>10. Span(off, g, q) <= 8
  BY <1>8, <1>9
<1>11. ASSUME (queue').inflight PROVE Span(off, g, p) <= 4
  <2>1. CASE queue.inflight /\ response = "none"
    <3>1. g = f
      BY <1>1, <1>3, <2>1 DEF FetchedTo
    <3>. QED
      BY <1>6, <2>1, <3>1
  <2>2. CASE ~(queue.inflight /\ response = "none")
    <3>1. CanFetch(g, Handoff)
      BY <1>3, <1>11, <2>2
    <3>2. Words(g, p) <= 4
      BY <1>1, <3>1 DEF CanFetch
    <3>3. CASE g = p
      <4>1. Span(off, g, p) <= 1
        BY <1>4, <1>5, <3>3, SpanIs
      <4>. QED
        BY <1>6, <4>1
    <3>4. CASE g # p
      BY <1>1, <3>2, <3>4 DEF Words, Span
    <3>. QED
      BY <3>3, <3>4
  <2>. QED
    BY <2>1, <2>2
<1>. QED
  BY <1>1, <1>6, <1>7, <1>10, <1>11

\* A clock keeps the cursors together: D1 goes one prefix or one instruction on, or waits.
LEMMA CursorClock ==
  ASSUME ShortPrefixes, CursorInv, NEW response \in {"none", "line", "fault"}, NEW issue \in BOOLEAN,
         Clock(response, issue, Handoff)
  PROVE  CursorInv'
<1> DEFINE by == MovesBy(issue)
<1>1. FrontType /\ FrontInv' /\ code' = code
  <2>1. FrontInv
    BY DEF CursorInv
  <2>. QED
    BY <2>1, FrontClock, ClockIs DEF FrontInv
<1>2. /\ skel' = IF HandsOver(issue) THEN Handoff ELSE IF issue THEN None ELSE skel
      /\ issue => skel.v
      /\ (queue').k1 = queue.k1 + by
      /\ (queue').popped = queue.popped + IF issue THEN skel.length ELSE 0
  BY <1>1, ClockCursors
<1>3. prefix' = CASE HandsOver(issue) -> NoPrefix
                  [] ConsumePrefix \/ Consume0f -> NextPrefix
                  [] OTHER -> prefix
  BY ClockIs
<1>4. /\ Handoff.v <=> PrereadHandoff
      /\ PrereadHandoff => ~ConsumePrefix /\ ~Consume0f
  BY <1>1, HandoffV
<1>5. /\ queue.popped \in Nat /\ InD2 \in Nat /\ prefix.count \in 0..15 /\ prefix.p0f \in 0..1
      /\ queue.k1 = queue.popped + prefix.count + prefix.p0f + InD2
  BY CursorsAre
<1>6. /\ skel = None \/ (skel.v = TRUE /\ skel.length \in Nat)
      /\ None.v = FALSE
  BY DEF CursorInv, None
<1>7. PICK pop : pop = (queue').popped
  OBVIOUS
<1>8. pop \in Nat /\ pop >= queue.popped /\ (issue => pop = queue.popped + InD2) /\ (~issue => pop = queue.popped)
  BY <1>2, <1>5, <1>6, <1>7 DEF InD2
<1>9. /\ Span(code.off, (queue').fetched, (queue').popped) <= 8
      /\ (queue').inflight => Span(code.off, (queue').fetched, (queue').popped) <= 4
  BY <1>7, <1>8, SpanClock
<1>10. (code' \in Programs \cup Targets) /\ PrefixesBehind
  BY <1>1 DEF CursorInv
<1>11. NoPrefix.count = 0 /\ NoPrefix.p0f = 0
  BY DEF NoPrefix
<1>12. SUFFICES /\ skel' = None \/ ((skel').v = TRUE /\ (skel').length \in Nat)
                /\ (queue').k1 = pop + (prefix').count + (prefix').p0f + InD2'
                /\ PrefixesBehind'
  BY <1>1, <1>7, <1>8, <1>9, <1>10 DEF CursorInv
<1> HIDE DEF by
<1>13. CASE HandsOver(issue)
  <2>1. Handoff.v /\ PrereadHandoff /\ (issue \/ ~skel.v)
    BY <1>4, <1>13 DEF HandsOver
  <2>2. Handoff.v = TRUE
    BY Zenon, <1>1, <2>1, HandoffHead DEF FrontType
  <2>3. by = Handoff.adv
    BY <1>4, <1>13, <2>1 DEF by, MovesBy, HeldBack, PrereadAdvance
  <2>4. /\ Handoff.adv \in Nat /\ Handoff.adv = Handoff.body
        /\ Handoff.length = Handoff.body + prefix.count + prefix.p0f
    BY <1>1, <2>1, HandoffLengths
  <2>5. skel' = Handoff /\ prefix' = NoPrefix
    <3>1. skel' = Handoff
      BY Zenon, <1>2, <1>13
    <3>2. prefix' = NoPrefix
      BY Zenon, <1>3, <1>4, <1>13, <2>1
    <3>. QED
      BY <3>1, <3>2
  <2>6. InD2' = Handoff.length
    BY <2>2, <2>5 DEF InD2
  <2>7. ~skel.v => InD2 = 0
    BY DEF InD2
  <2>8. queue.k1 = pop + prefix.count + prefix.p0f
    BY <1>5, <1>8, <2>1, <2>7
  <2>9. Handoff.length \in Nat
    BY <1>5, <2>4
  <2>10. (queue').k1 = pop + InD2'
    BY <1>2, <1>5, <1>8, <2>3, <2>4, <2>6, <2>8
  <2>11. PrefixesBehind'
    <3>1. (prefix').count = 0
      BY <1>11, <2>5
    <3>. QED
      BY <3>1 DEF PrefixesBehind
  <2>. QED
    BY <1>8, <1>11, <2>2, <2>5, <2>6, <2>9, <2>10, <2>11
<1>14. CASE HeldBack(issue)
  <2>1. Handoff.v /\ ~HandsOver(issue) /\ by = 0 /\ skel.v /\ ~issue
    BY <1>14 DEF HeldBack, HandsOver, MovesBy, by
  <2>2. skel' = skel /\ prefix' = prefix
    BY Zenon, <1>2, <1>3, <1>4, <2>1
  <2>3. InD2' = InD2
    BY <2>2 DEF InD2
  <2>4. (queue').k1 = queue.k1
    BY <1>2, <1>5, <2>1
  <2>5. PrefixesBehind'
    BY Zenon, <1>1, <1>10, <2>2, <2>4 DEF PrefixesBehind
  <2>. QED
    BY <1>5, <1>6, <1>8, <2>1, <2>2, <2>3, <2>4, <2>5
<1>15. CASE ~Handoff.v
  <2>1. ~HandsOver(issue) /\ by = IF ConsumePrefix \/ Consume0f THEN 1 ELSE 0
    BY <1>15 DEF HeldBack, HandsOver, MovesBy, PrereadAdvance, by
  <2>2. skel' = IF issue THEN None ELSE skel
    BY Zenon, <1>2, <2>1
  <2>3. pop + InD2' = queue.popped + InD2 /\ InD2' \in Nat
    <3>1. CASE issue
      <4>1. InD2' = 0
        BY <1>6, <2>2, <3>1 DEF InD2
      <4>. QED
        BY <1>5, <1>8, <3>1, <4>1
    <3>2. CASE ~issue
      <4>1. InD2' = InD2
        BY <2>2, <3>2 DEF InD2
      <4>. QED
        BY <1>5, <1>8, <3>2, <4>1
    <3>. QED
      BY <3>1, <3>2
  <2>4. CASE ConsumePrefix \/ Consume0f
    <3>1. prefix' = NextPrefix /\ by = 1
      BY Zenon, <1>3, <2>1, <2>4
    <3>2. (queue').k1 = queue.k1 + 1
      BY <1>2, <3>1
    <3>3. PrefixesBehind'
      BY <1>1, <2>4, <3>1, <3>2, PrefixesMore
    <3>4. /\ NextPrefix.count \in Nat /\ NextPrefix.p0f \in Nat
          /\ NextPrefix.count + NextPrefix.p0f = prefix.count + prefix.p0f + 1
      BY <2>4, OneMore
    <3>5. (prefix').count = NextPrefix.count /\ (prefix').p0f = NextPrefix.p0f
      BY <3>1
    <3>6. (queue').k1 = pop + (prefix').count + (prefix').p0f + InD2'
      <4>1. PICK x, y, d, e : x = NextPrefix.count /\ y = NextPrefix.p0f /\ d = InD2' /\ e = InD2
        OBVIOUS
      <4>2. x \in Nat /\ y \in Nat /\ d \in Nat /\ e \in Nat /\ pop + d = queue.popped + e
            /\ x + y = prefix.count + prefix.p0f + 1
        BY <1>5, <2>3, <3>4, <4>1
      <4>3. (queue').k1 = queue.popped + prefix.count + prefix.p0f + e + 1
        BY <1>5, <3>2, <4>1
      <4>4. (queue').k1 = pop + x + y + d
        BY <1>5, <1>8, <4>2, <4>3
      <4>. QED
        BY <3>5, <4>1, <4>4
    <3>. QED
      BY <1>6, <2>2, <3>3, <3>6
  <2>5. CASE ~(ConsumePrefix \/ Consume0f)
    <3>1. prefix' = prefix /\ by = 0
      BY Zenon, <1>3, <2>1, <2>5
    <3>2. (queue').k1 = queue.k1
      BY <1>2, <1>5, <3>1
    <3>3. PrefixesBehind'
      BY Zenon, <1>1, <1>10, <3>1, <3>2 DEF PrefixesBehind
    <3>4. (queue').k1 = pop + (prefix').count + (prefix').p0f + InD2'
      BY <1>5, <1>8, <2>3, <3>1, <3>2
    <3>. QED
      BY <1>6, <2>2, <3>3, <3>4
  <2>. QED
    BY <2>4, <2>5
<1>. QED
  BY Zenon, <1>13, <1>14, <1>15 DEF HeldBack

\* A restart has one line at most.
LEMMA SpanRestart ==
  ASSUME NEW p \in Code, NEW hit
  PROVE  /\ Restarted(p, hit).popped = 0 /\ Restarted(p, hit).k1 = 0
         /\ Span(p.off, Restarted(p, hit).fetched, 0) <= 4
         /\ Span(p.off, Restarted(p, hit).fetched, 0) <= 8
<1>1. PICK n, off, f : n = Len(p.bytes) /\ off = p.off /\ f = IF hit THEN Least(n, 16 - off) ELSE 0
  OBVIOUS
<1>2. n \in Nat /\ off \in 0..15
  BY <1>1, LenProperties DEF Code
<1>3. f \in Nat /\ f <= 16 - off
  <2>1. PICK l : l = Least(n, 16 - off)
    OBVIOUS
  <2>2. l \in Nat /\ l <= 16 - off
    BY <1>2, <2>1 DEF Least
  <2>3. f = IF hit THEN l ELSE 0
    BY Zenon, <1>1, <2>1
  <2>. QED
    BY <1>2, <2>2, <2>3
<1>4. Restarted(p, hit).fetched = f /\ Restarted(p, hit).popped = 0 /\ Restarted(p, hit).k1 = 0
  BY <1>1 DEF Restarted
<1>5. Span(off, f, 0) <= 4 /\ Span(off, f, 0) \in Int
  <2>1. (off + f + 3) \div 4 <= 4 /\ (off + 0) \div 4 >= 0
    BY <1>2, <1>3
  <2>. QED
    BY <1>2, <1>3, <2>1 DEF Span
<1>. QED
  BY <1>1, <1>4, <1>5

LEMMA NothingBehind ==
  NoPrefix.count = 0 /\ NoPrefix.p0f = 0 /\ None.v = FALSE
  BY DEF NoPrefix, None

LEMMA CursorInit == Init => CursorInv
<1> SUFFICES ASSUME Init PROVE CursorInv
  OBVIOUS
<1>1. FrontInv
  BY FrontInit
<1>2. /\ code \in Programs \cup Targets /\ code \in Code
      /\ queue = Restarted(code, FALSE) /\ prefix = NoPrefix /\ skel = None
  BY ProgramAssumption DEF Init
<1>3. /\ queue.popped = 0 /\ queue.k1 = 0
      /\ Span(code.off, queue.fetched, queue.popped) <= 8 /\ Span(code.off, queue.fetched, queue.popped) <= 4
  BY <1>2, SpanRestart
<1>4. InD2 = 0 /\ prefix.count = 0 /\ prefix.p0f = 0
  BY <1>2, NothingBehind DEF InD2
<1>5. PrefixesBehind
  BY <1>4 DEF PrefixesBehind
<1>6. queue.popped \in Nat /\ queue.k1 = queue.popped + prefix.count + prefix.p0f + InD2
  BY <1>3, <1>4
<1>. QED
  BY ZenonT(60), <1>1, <1>2, <1>3, <1>5, <1>6 DEF CursorInv

LEMMA CursorFlush ==
  ASSUME CursorInv, NEW p \in Targets, NEW hit \in BOOLEAN, Flush(p, hit)
  PROVE  CursorInv'
<1>1. FrontInv'
  BY FrontFlush DEF CursorInv
<1>2. /\ p \in Code /\ code' = p /\ queue' = Restarted(p, hit) /\ prefix' = NoPrefix /\ skel' = None
  BY ProgramAssumption DEF Flush
<1>3. /\ (queue').popped = 0 /\ (queue').k1 = 0
      /\ Span((code').off, (queue').fetched, (queue').popped) <= 8
      /\ Span((code').off, (queue').fetched, (queue').popped) <= 4
  BY <1>2, SpanRestart
<1>4. InD2' = 0 /\ (prefix').count = 0 /\ (prefix').p0f = 0
  BY <1>2, NothingBehind DEF InD2
<1>5. PrefixesBehind'
  BY <1>4 DEF PrefixesBehind
<1>. QED
  BY <1>1, <1>2, <1>3, <1>4, <1>5 DEF CursorInv

LEMMA CursorSame ==
  ASSUME CursorInv, FrontInv', UNCHANGED <<code, queue, prefix, skel>>
  PROVE  CursorInv'
<1>1. code' = code /\ queue' = queue /\ prefix' = prefix /\ skel' = skel
  OBVIOUS
<1>2. InD2' = InD2
  BY <1>1 DEF InD2
<1>3. PrefixesBehind' <=> PrefixesBehind
  BY <1>1 DEF PrefixesBehind
<1>. QED
  BY <1>1, <1>2, <1>3 DEF CursorInv

LEMMA CursorStep == ShortPrefixes /\ CursorInv /\ [Next]_vars => CursorInv'
<1> SUFFICES ASSUME ShortPrefixes, CursorInv, [Next]_vars PROVE CursorInv'
  OBVIOUS
<1>1. CASE \E response \in {"none", "line", "fault"}, issue \in BOOLEAN : Clock(response, issue, Handoff)
  BY <1>1, CursorClock
<1>2. CASE \E p \in Targets, hit \in BOOLEAN : Flush(p, hit)
  BY <1>2, CursorFlush
<1>3. CASE SwitchMode \/ UNCHANGED vars
  <2>1. FrontInv'
    BY FrontStep DEF CursorInv
  <2>2. UNCHANGED <<code, queue, prefix, skel>>
    BY <1>3 DEF SwitchMode, vars
  <2>. QED
    BY <2>1, <2>2, CursorSame
<1>. QED
  BY <1>1, <1>2, <1>3 DEF Next

\* The two cursors of the queue never part and the queue never overflows, whatever the code:
\* for every opcode, in every mode and for every ModR/M and SIB byte, the length D1's cursor
\* moves by, read from the two flat tables, is the one D2 pops, summed from the serial terms;
\* so D1 always stands behind the instruction in D2 and the prefixes taken since. The count of
\* the prefixes has four bits, so the code has no sixteen of them in a row.
THEOREM CursorsStayInStep == ASSUME ShortPrefixes PROVE Spec => []CursorsInStep
<1>1. CursorInv => CursorsInStep
  <2> SUFFICES ASSUME CursorInv PROVE CursorsInStep
    OBVIOUS
  <2>1. FrontType
    BY DEF CursorInv, FrontInv
  <2>2. PrereadHandoff => LengthsAgree(Handoff)
    <3>1. PrereadHandoff => /\ Handoff.adv = Handoff.body
                            /\ Handoff.length = Handoff.body + prefix.count + prefix.p0f
      BY <2>1, HandoffLengths
    <3>. QED
      BY <3>1 DEF LengthsAgree
  <2>3. queue.k1 = queue.popped + prefix.count + prefix.p0f + IF skel.v THEN skel.length ELSE 0
    BY CursorsAre DEF InD2
  <2>4. Words(queue.fetched, queue.popped) <= 8
    <3>1. Span(code.off, queue.fetched, queue.popped) <= 8
      BY DEF CursorInv
    <3>. QED
      BY <3>1 DEF Words, Span
  <2>. QED
    BY <2>2, <2>3, <2>4 DEF CursorsInStep
<1>. QED
  BY <1>1, CursorInit, CursorStep, PTL DEF Spec
=============================================================================
