--------------------------- MODULE DecodeReference ---------------------------
(***************************************************************************)
(* What the decoder promises: the instructions of the code, byte after     *)
(* byte as the architecture encodes them. The reference reads them from    *)
(* sets of opcodes, not from the layout PLA.                               *)
(***************************************************************************)
EXTENDS Decoder, PortBClass, SequencesExt

\* Opcodes with a ModR/M byte in the two maps.
ModrmOpcodes(has_0f) == IF has_0f = 1 THEN {0, 1, 164, 175, 182}
                        ELSE {1, 99, 105, 129, 131, 137, 141, 143, 199, 211, 246, 247, 254}

RefByte(at) == code.bytes[at + 1]
RefPrefixes(at) == CHOOSE n \in 0..Len(code.bytes) :
  /\ RefByte(at + n) \notin PrefixBytes
  /\ \A k \in 0..n - 1 : RefByte(at + k) \in PrefixBytes

\* The literals behind the structure in their order: where each goes, its size, its sign.
Imm(size) == <<[to |-> "imm", size |-> size, sext |-> FALSE]>>
SignedImm == <<[to |-> "imm", size |-> 1, sext |-> TRUE]>>
Disp(size) == <<[to |-> "disp", size |-> size, sext |-> FALSE]>>
SignedDisp == <<[to |-> "disp", size |-> 1, sext |-> TRUE]>>

Operands(has_0f, op, reg, wide, addr) ==
  IF has_0f = 1
  THEN CASE op = 132 -> Disp(wide)
         [] op = 164 -> Imm(1)
         [] OTHER -> <<>>
  ELSE CASE op \in {129, 105, 199, 184} -> Imm(wide)
         [] op \in {131, 106} -> SignedImm
         [] op = 246 /\ reg < 2 -> Imm(1)
         [] op = 247 /\ reg < 2 -> Imm(wide)
         [] op = 194 -> Imm(2)
         [] op = 161 -> Disp(addr)
         [] op = 200 -> Imm(2) \o Disp(1)
         [] op = 154 -> Imm(wide) \o Disp(2)
         [] op = 232 -> Disp(wide)
         [] op = 235 -> SignedDisp
         [] OTHER -> <<>>

\* The entry by the PLA alone, its two passes one after the other; INVLPG comes before it.
ChainedEntry(op, has_0f, rep, mode, has_modrm, modrm) ==
  LET first == First(op, rep, mode, has_0f)
  IN CASE has_modrm /\ has_0f = 1 /\ op = 1 /\ Reg(modrm) = 7 /\ Memory(modrm) = 1 -> 2503
       [] has_modrm /\ first < 64 /\ ~(has_0f = 1 /\ op = 1 /\ Reg(modrm) = 7 /\ Memory(modrm) = 1) ->
            Casez(GroupRows, <<first, Reg(modrm), Memory(modrm), mode[1], has_0f>>)
       [] OTHER -> first

\* The instruction at a place of the code.
Instruction(at) ==
  LET n == RefPrefixes(at)
      run == {RefByte(at + k) : k \in 0..n - 1}
      has_0f == IF RefByte(at + n) = 15 THEN 1 ELSE 0
      op == RefByte(at + n + has_0f)
      o32 == (code.d32 + Flag(102 \in run)) % 2
      a32 == (code.d32 + Flag(103 \in run)) % 2
      wide == IF o32 = 1 THEN 4 ELSE 2
      addr == IF a32 = 1 THEN 4 ELSE 2
      m == at + n + has_0f + 1
      modrm == op \in ModrmOpcodes(has_0f)
      mod == RefByte(m) \div 64
      rm == RefByte(m) % 8
      sib == modrm /\ a32 = 1 /\ mod # 3 /\ rm = 4
      direct == IF sib THEN RefByte(m + 1) % 8 = 5 ELSE rm = IF a32 = 1 THEN 5 ELSE 6
      disp == IF ~modrm \/ mod = 3 \/ (mod = 0 /\ ~direct) THEN <<>>
              ELSE IF mod = 1 THEN SignedDisp ELSE Disp(addr)
      base == n + has_0f + 1 + (IF modrm THEN 1 ELSE 0) + (IF sib THEN 1 ELSE 0)
      literals == disp \o Operands(has_0f, op, IF modrm THEN (RefByte(m) \div 8) % 8 ELSE 0,
                                   wide, addr)
      segs == {k \in 0..n - 1 : RefByte(at + k) \in SegPrefixes}
      Start(j) == at + base + (IF j = 2 THEN literals[1].size ELSE 0)
  IN [opcode |-> op, has_0f |-> has_0f, data32 |-> o32, addr32 |-> a32,
      rep |-> Flag({242, 243} \cap run # {}),
      rep_lock |-> LET last == {k \in 0..n - 1 : RefByte(at + k) \in {240, 242, 243}}
                   IN IF last = {} THEN "none"
                      ELSE IF RefByte(at + CHOOSE k \in last : \A s \in last : s <= k) = 240
                           THEN "lock" ELSE "rep",
      seg |-> IF segs = {} THEN 0 ELSE RefByte(at + CHOOSE k \in segs : \A s \in segs : s <= k),
      modrm |-> IF modrm THEN RefByte(m) ELSE 0, sib |-> IF sib THEN RefByte(m + 1) ELSE 0,
      literals |-> [j \in DOMAIN literals |->
                      [to |-> literals[j].to, sext |-> literals[j].sext,
                       bytes |-> SubSeq(code.bytes, Start(j) + 1, Start(j) + literals[j].size)]],
      length |-> base + FoldSeq(LAMBDA l, s : l.size + s, 0, literals)]

\* A captured field holds a literal: its bytes, and above a signed byte its sign.
Holds(field, lit) ==
  \A k \in 1..4 : field[k] = IF k <= Len(lit.bytes) THEN lit.bytes[k]
                             ELSE IF lit.sext THEN IF lit.bytes[1] >= 128 THEN 255 ELSE 0
                             ELSE field[k]

Agrees(w, insn) ==
  /\ \A f \in {"opcode", "has_0f", "data32", "addr32", "rep", "rep_lock", "seg", "modrm", "sib", "length"} :
        w[f] = insn[f]
  /\ \A j \in DOMAIN insn.literals :
        Holds(IF insn.literals[j].to = "imm" THEN w.imm ELSE w.disp, insn.literals[j])

-----------------------------------------------------------------------------
(* Properties *)

\* No sixteen prefixes follow one another in the code: D1 counts them in four bits.
ShortPrefixes ==
  \A p \in Programs \cup Targets : \A at \in 0..Len(p.bytes) - 16 :
    \E j \in 1..16 : p.bytes[at + j] \notin PrefixBytes

LengthsAgree(w) ==
  /\ w.adv = w.body
  /\ w.length = w.body + prefix.count + prefix.p0f

\* The two flat tables and the serial terms give one length for every instruction D1
\* decodes; D1's cursor moves by the first and D2 pops the second, so the cursors never
\* part: D1 stands behind the instruction of D2 and the prefixes it took, and the queue
\* never overflows.
CursorsInStep ==
  /\ PrereadHandoff => LengthsAgree(Handoff)
  /\ queue.k1 = queue.popped + prefix.count + prefix.p0f + IF skel.v THEN skel.length ELSE 0
  /\ Words(queue.fetched, queue.popped) <= 8

\* The tables looked up side by side give the entry that the PLA gives in two passes, in
\* every mode, for every form of ModR/M and whatever the prefixes; an entry of the optimizer
\* goes back to it, and a LOCK that is not allowed takes the invalid entry.
EntryAgrees(w, chained) ==
  FallbackEntry(w.entry) =
    CASE LockInvalid(w.rep_lock, w.has_0f, opcode, w.has_modrm, w.modrm) -> Invalid
      [] w.rep_lock # "lock" /\ chained = 182 -> Recipe.nop[1]
      [] OTHER -> chained

\* What port B takes from the opcode and ModR/M alone agrees with the recipe r of the entry:
\* the class, for an instruction without prefixes, and at least the registers it reads; and
\* a recipe's early role is the role its hazards are computed from.
ClassAgrees(w, r, type) ==
  /\ type = PbB1Type(w, r)
  /\ type => PbnClass(w) = Class(w) /\ r.reads \subseteq PbReads(w)
  /\ r.hardwired => CASE EarlyKind(w.entry) = "NONE" -> ~r.uses_ea /\ ~r.br_rel
                      [] EarlyKind(w.entry) = "BRANCH" -> r.br_rel
                      [] EarlyKind(w.entry) = "SEQ" -> FALSE
                      [] OTHER -> r.uses_ea

RightlyDispatched(w) ==
  /\ EntryAgrees(w, ChainedEntry(opcode, w.has_0f, w.rep, <<w.data32, PE>>, w.has_modrm, w.modrm))
  /\ ClassAgrees(w, Metadata(w), PbnType(w))

\* Dispatch is told the entry and the port-B class of the instruction that was decoded.
DispatchAgrees ==
  PrereadHandoff /\ <<prefix.p0f, opcode>> \in Opcodes => RightlyDispatched(Handoff)

\* What D2 offers is the instruction at the pop cursor, literals included, whether its bytes
\* came with D1's window, late, or in two phases; and all its bytes are in the queue. D1 gave
\* it its architectural length before its literals were there.
OffersTheCode ==
  /\ PrereadHandoff /\ Running =>
       Handoff.length = Instruction(queue.k1 - prefix.count - prefix.p0f).length
  /\ D2Push /\ Running =>
       /\ queue.popped + skel.length <= queue.fetched
       /\ Agrees([D2Final EXCEPT !.length = skel.length], Instruction(queue.popped))

\* A prefetch fault is reported only for an instruction that has bytes in the faulted line.
FaultsNeeded ==
  [][Running /\ ~queue.reported /\ queue'.reported =>
       /\ queue.popped < Len(code.bytes)
       /\ queue.popped + Instruction(queue.popped).length > queue.fault]_vars

\* The front end never wedges, not even with the fetch halted behind a jump whose literals
\* are missing, or the queue full: until the code is taken, a fetch is out or can start, D1
\* or D2 has a step to make, EX has an instruction to take or the core a fault.
NeverWedged ==
  \/ queue.popped = Len(code.bytes) \/ queue.reported \/ ~Running
  \/ queue.inflight \/ CanFetch(queue.fetched, Handoff)
  \/ ConsumePrefix \/ Consume0f \/ (PrereadHandoff /\ ~skel.v)
  \/ StepA \/ LateCapture \/ D2Push
  \/ Suspended /\ FetchBlocked
=============================================================================
