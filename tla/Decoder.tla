------------------------------- MODULE Decoder -------------------------------
(***************************************************************************)
(* The decoder and the queue it reads (decoder.sv, the two cursors of      *)
(* prefetch.sv). D1 decodes the structure of an instruction at its own     *)
(* cursor, one prefix per clock, and hands it to D2, which captures the    *)
(* literals behind it and offers it to EX; the bytes leave the queue when  *)
(* EX takes it. The cursor's advance comes from the two flat tables of     *)
(* LengthTable, the entry from a ROM read one clock before it is used, at  *)
(* a window D2 may refuse, and from the tables of EntryTables; Recipes     *)
(* makes it the optimizer's own where an overlay qualifies.                *)
(***************************************************************************)
EXTENDS Recipes

CONSTANTS Programs,        \* code after reset: [bytes, d32, pe, off], off its place in its line
          Targets,         \* code a redirect goes to
          MaxFlushes,      \* redirects of the front end
          MapsWhileWaiting \* a page may be mapped between a fetch's fault and its retry

Code == [bytes : Seq(0..255), d32 : Bit, pe : Bit, off : 0..15]
ASSUME ProgramAssumption == \A p \in Programs \cup Targets : p \in Code /\ p.bytes # << >>

VARIABLES code,    \* the program behind the last redirect
          flushes, \* redirects so far
          D,       \* the code segment's default size; code32_r follows it
          PE,      \* CR0.PE
          queue,   \* bytes fetched and popped, D1's cursor, the fetch and its fault
          prefix,  \* the prefixes D1 has consumed
          rom,     \* the preread of the entry ROM: its output, the held one, which is current
          skel,    \* the instruction in D2, or None
          window   \* D2's literal window and the phase it is in
vars == <<code, flushes, D, PE, queue, prefix, rom, skel, window>>

None == [v |-> FALSE]
Junk == 256                    \* what the queue shows where nothing was fetched yet
Byte(i, fetched) == IF i < fetched THEN code.bytes[i + 1] ELSE Junk
Bytes(from, n, fetched) == [k \in 1..n |-> Byte(from + k - 1, fetched)]

NoPrefix == [p66 |-> 0, p67 |-> 0, p0f |-> 0, rep |-> 0, rep_lock |-> "none", seg |-> 0, count |-> 0]
NoLiteral == [kind |-> "NONE", size |-> 0, sext |-> FALSE, mirror |-> FALSE]
NoWindow == [bytes |-> <<0, 0, 0, 0>>, off |-> 0, raw |-> FALSE, valid |-> FALSE, phaseB |-> FALSE,
             workB |-> None]

-----------------------------------------------------------------------------
(* Structural decode *)

SegPrefixes == {38, 46, 54, 62, 100, 101}
PrefixBytes == SegPrefixes \cup {102, 103, 240, 242, 243}

\* The displacement after the ModR/M byte, the SIB byte known or not.
ModrmDispSize(addr32, modrm, sib, has_sib) ==
  LET mod == Bits(modrm, 7, 6)
      rm == Bits(modrm, 2, 0)
      base == IF has_sib THEN Bits(sib, 2, 0) = 5 ELSE rm = 5
  IN CASE mod = 3 -> 0
       [] mod = 1 -> 1
       [] mod = 2 -> IF addr32 = 1 THEN 4 ELSE 2
       [] mod = 0 -> IF addr32 = 1 THEN IF base THEN 4 ELSE 0
                     ELSE IF rm = 6 THEN 2 ELSE 0

\* A literal takes the first free field of the plan.
Plan(w, kind, size, sext, mirror) ==
  LET lit == [kind |-> kind, size |-> size, sext |-> sext, mirror |-> mirror]
  IN IF size = 0 THEN w
     ELSE IF w.lit1.kind = "NONE" THEN [w EXCEPT !.lit1 = lit] ELSE [w EXCEPT !.lit2 = lit]

\* The immediate's size and sign extension, and how many bytes its first field takes.
Immediate(ctl, opcode, modrm, has_0f, data32, addr32) ==
  LET sel == Bits(ctl, 11, 6)
      total == PlainImmediate(ctl, has_0f, opcode, data32, addr32)
      moffs == has_0f = 0 /\ opcode \div 4 = 40
  IN IF HasModrm(ctl)
     THEN LET n == IF opcode \div 2 = 123 /\ Bits(modrm, 5, 3) >= 2 THEN 0
                   ELSE <<1, IF data32 = 1 THEN 4 ELSE 2, 0, 1>>[Bits(ctl, 11, 10) + 1]
          IN [total |-> n, first |-> n, sext |-> Bits(ctl, 11, 10) = 3]
     ELSE [total |-> total, sext |-> ~moffs /\ sel \in {7, 34},
           first |-> IF moffs THEN total
                     ELSE CASE sel = 34 -> 0
                            [] sel = 47 -> 2
                            [] sel = 63 -> IF data32 = 1 THEN 4 ELSE 2
                            [] OTHER -> total]

\* A LOCK prefix takes a read-modify-write of memory.
LockInvalid(rep_lock, has_0f, op, has_modrm, modrm) ==
  LET mem == has_modrm /\ Bits(modrm, 7, 6) # 3
      reg == Bits(modrm, 5, 3)
      valid == IF has_0f = 1
               THEN op \in {171, 176, 177, 179, 187, 192, 193} \/ (op = 186 /\ reg >= 5)
               ELSE \/ op < 64 /\ Bits(op, 2, 0) <= 1 /\ Bits(op, 5, 3) # 7
                    \/ op \div 4 = 32 /\ reg # 7
                    \/ op \div 2 = 123 /\ reg \in {2, 3}
                    \/ op \div 2 = 127 /\ reg \in {0, 1}
                    \/ op \div 2 = 67
  IN rep_lock = "lock" /\ ~(mem /\ valid)

\* The literals go into the plan at once, or wait for the SIB byte.
PlanLiterals(w) ==
  LET imm == w.pending
      disp == ModrmDispSize(w.addr32, w.modrm, 0, FALSE)
  IN IF w.has_sib THEN w
     ELSE IF w.has_modrm
     THEN Plan(Plan(w, "DISP", disp, disp = 1, FALSE), "IMM", imm.total, imm.sext, FALSE)
     ELSE Plan(Plan(w, "IMM", imm.first, imm.sext /\ imm.first = 1, TRUE),
               "DISP", imm.total - imm.first, imm.sext, FALSE)

Structure(bytes, p, data32, addr32, word) ==
  LET opcode == bytes[1]
      modrm == bytes[2]
      ctl == Control[<<p.p0f, opcode>>]
      has_modrm == HasModrm(ctl)
      has_sib == has_modrm /\ addr32 = 1 /\ Bits(modrm, 7, 6) # 3 /\ Bits(modrm, 2, 0) = 4
      disp == IF has_modrm /\ ~has_sib THEN ModrmDispSize(addr32, modrm, 0, FALSE) ELSE 0
      imm == Immediate(ctl, opcode, modrm, p.p0f, data32, addr32)
      table == D1Length(p.p0f, opcode, data32, addr32, modrm)
      final == EntryFinal(word, <<data32, PE>>, opcode, p.p0f, has_modrm, modrm)
  IN [v |-> TRUE, opcode |-> opcode, has_0f |-> p.p0f, rep |-> p.rep, seg |-> p.seg,
      rep_lock |-> p.rep_lock, data32 |-> data32, addr32 |-> addr32, has_modrm |-> has_modrm,
      modrm |-> IF has_modrm THEN modrm ELSE 0, sib |-> 0, has_sib |-> has_sib,
      entry |-> IF LockInvalid(p.rep_lock, p.p0f, opcode, has_modrm, modrm) THEN Invalid
                ELSE final,
      action |-> "NONE", lit1 |-> NoLiteral, lit2 |-> NoLiteral,
      length |-> (p.count + p.p0f + (IF has_modrm THEN 2 ELSE 1) + disp + imm.total) % 32,
      body |-> (table % 8) + (IF table < 8 THEN 0 ELSE disp),
      adv |-> (table % 8) + (IF table < 8 THEN 0 ELSE D1ModrmLength(addr32, modrm, bytes[3])),
      imm |-> <<0, 0, 0, 0>>, disp |-> <<0, 0, 0, 0>>, pending |-> imm]

StructWork(bytes, p, data32, addr32, word) ==
  PlanLiterals(Structure(bytes, p, data32, addr32, word))

\* The SIB byte completes the lengths and the plan.
CaptureSib(w, sib) ==
  LET disp == ModrmDispSize(w.addr32, w.modrm, sib, TRUE)
      longer == [w EXCEPT !.sib = sib, !.length = (@ + 1 + disp) % 32, !.body = @ + 1 + disp]
  IN Plan(Plan(longer, "DISP", disp, disp = 1, FALSE),
          "IMM", w.pending.total, w.pending.sext, FALSE)

-----------------------------------------------------------------------------
(* Literal capture *)

LiteralValue(bytes, size, sext) ==
  LET fill == IF size = 1 /\ sext /\ bytes[1] >= 128 THEN 255 ELSE 0
  IN [k \in 1..4 |-> IF k <= size THEN bytes[k] ELSE fill]

\* Field by field; a second displacement keeps the mirrored bytes above it.
CaptureLiteral(w, bytes, lit) ==
  LET value == LiteralValue(bytes, lit.size, lit.sext)
      kept == w.lit1.kind = "NONE"
      out == CASE lit.kind = "IMM" -> [w EXCEPT !.imm = value,
                                                !.disp = IF lit.mirror THEN value ELSE @]
               [] lit.kind = "DISP" ->
                    [w EXCEPT !.disp = [k \in 1..4 |-> IF kept /\ k > lit.size THEN @[k]
                                                       ELSE value[k]]]
               [] OTHER -> w
  IN IF lit.kind = w.lit1.kind THEN [out EXCEPT !.lit1 = NoLiteral]
                               ELSE [out EXCEPT !.lit2 = NoLiteral]

Fits(w) == w.lit2.kind = "NONE" \/ w.lit1.size + w.lit2.size <= 4
LiteralSize(w) == w.lit1.size + w.lit2.size
JmpCall(w) == w.has_0f = 0 /\ w.opcode \in {232, 233, 235}

-----------------------------------------------------------------------------
(* The queue *)

Clamp(n) == IF n < 0 THEN 0 ELSE n
K1Avail == Clamp(queue.fetched - queue.k1)
K2Avail(off) == Clamp(queue.fetched - queue.popped - off)
LineEnd(fetched) == 16 * ((code.off + fetched) \div 16 + 1) - code.off
Least(a, b) == IF a < b THEN a ELSE b

\* Words between the pop cursor and the fill pointer: the queue has eight.
Words(fetched, popped) ==
  IF fetched = popped THEN 0
  ELSE (code.off + fetched + 3) \div 4 - (code.off + popped) \div 4

-----------------------------------------------------------------------------
(* D1 *)

opcode == Byte(queue.k1, queue.fetched)
data32 == (D + prefix.p66) % 2
addr32 == (D + prefix.p67) % 2

ConsumePrefix == prefix.p0f = 0 /\ K1Avail >= 1 /\ opcode \in PrefixBytes
Consume0f == prefix.p0f = 0 /\ K1Avail >= 1 /\ opcode = 15

RomCurrent == IF rom.use_q THEN rom.q ELSE rom.hold

D1Bytes == Bytes(queue.k1, 8, queue.fetched)
ModrmBytes == IF HasModrm(Control[<<prefix.p0f, opcode>>]) THEN 2 ELSE 1
NeedSib ==
  /\ ModrmBytes = 2
  /\ addr32 = 1 /\ Bits(D1Bytes[2], 7, 6) # 3 /\ Bits(D1Bytes[2], 2, 0) = 4
D1Ready ==
  /\ K1Avail >= 1 /\ K1Avail >= ModrmBytes
  /\ NeedSib => K1Avail >= 3
PrereadHandoff == ~ConsumePrefix /\ ~Consume0f /\ D1Ready

\* The entry handed over is the effective one.
Issued(w, point) == [w EXCEPT !.entry = point, !.action = Action(point)]
Completed(w) == Issued(IF w.has_sib THEN CaptureSib(w, D1Bytes[3]) ELSE w,
                       EffectiveEntry(w.entry, w.opcode, w.modrm))

\* What D1 hands over, None until the structure is there.
Handoff ==
  IF PrereadHandoff THEN Completed(StructWork(D1Bytes, prefix, data32, addr32, RomCurrent)) ELSE None

\* Below, d1 is the Handoff of the clock.
PrereadAdvance(d1) == IF ConsumePrefix \/ Consume0f THEN 1 ELSE IF d1.v THEN d1.adv ELSE 0

\* All bytes of the instruction are in view, and one window holds its literals.
HandoffOneD2(d1) == d1.v /\ Fits(d1) /\ K1Avail >= d1.adv
RawNeed(w) == IF Fits(w) THEN LiteralSize(w) ELSE w.lit1.size
RawOffset(w) == w.body - LiteralSize(w)

NextPrefix ==
  IF Consume0f THEN [prefix EXCEPT !.p0f = 1]
  ELSE [prefix EXCEPT !.count = (@ + 1) % 16,
                      !.p66 = IF opcode = 102 THEN 1 ELSE @,
                      !.p67 = IF opcode = 103 THEN 1 ELSE @,
                      !.rep = IF opcode \in {242, 243} THEN 1 ELSE @,
                      !.rep_lock = CASE opcode = 240 -> "lock"
                                     [] opcode \in {242, 243} -> "rep"
                                     [] OTHER -> @,
                      !.seg = IF opcode \in SegPrefixes THEN opcode ELSE @]

-----------------------------------------------------------------------------
(* D2 *)

\* The literal offset follows the pop cursor: the length less the literals.
SkelOffset == skel.length - LiteralSize(skel)
PrefetchFieldB == window.valid /\ ~window.phaseB /\ skel.lit2.kind # "NONE" /\ ~Fits(skel)
\* Mutant: the early window of the second field is taken at the first field.
K2OffFirst == SkelOffset + IF window.phaseB THEN skel.lit1.size ELSE 0

K2Off == SkelOffset + IF window.phaseB \/ PrefetchFieldB THEN skel.lit1.size ELSE 0
K2Bytes == Bytes(queue.popped + K2Off, 4, queue.fetched)

LiteralWindow == IF window.raw THEN SubSeq(window.bytes, window.off + 1, window.off + 4)
                 ELSE window.bytes
Behind(bytes, n) == [k \in 1..4 |-> IF n \in 1..3 /\ k + n <= 4 THEN bytes[k + n] ELSE 0]

Finishing == window.phaseB \/ Fits(skel)
NeedNow == CASE window.phaseB -> skel.lit2.size
             [] ~window.phaseB /\ Fits(skel) -> LiteralSize(skel)
             [] OTHER -> skel.lit1.size

BytesOk == K2Avail(K2Off) >= NeedNow
D2Push == skel.v /\ window.valid /\ Finishing
StepA == skel.v /\ window.valid /\ ~Finishing
LateCapture == skel.v /\ ~window.valid /\ BytesOk

\* The instruction D2 offers, its literals captured.
CapA == CaptureLiteral(skel, LiteralWindow, skel.lit1)
D2Final ==
  LET capAB == CaptureLiteral(CapA, Behind(LiteralWindow, skel.lit1.size), CapA.lit2)
  IN CASE window.phaseB -> CaptureLiteral(window.workB, LiteralWindow, window.workB.lit2)
       [] ~window.phaseB /\ skel.lit1.kind = "NONE" -> skel
       [] ~window.phaseB /\ skel.lit1.kind # "NONE" /\ skel.lit2.kind = "NONE" -> CapA
       [] OTHER -> IF Fits(skel) THEN capAB ELSE CapA

\* Mutant: an empty skeleton is enough, whatever D1 has in view.
FetchBlockedEmpty ==
  \/ ~skel.v
  \/ skel.v /\ ~window.valid /\ ~BytesOk

FetchBlocked ==
  \/ ~skel.v /\ ~ConsumePrefix /\ ~Consume0f /\ ~D1Ready
  \/ skel.v /\ ~window.valid /\ ~BytesOk

\* Mutant: the jump halts the fetch before its literals are there.
HasJmpCallEarly(d1) ==
  \/ skel.v /\ JmpCall(skel)
  \/ d1.v /\ JmpCall(d1)

\* A resident JMP or CALL halts the fetch of what follows it.
HasJmpCall(d1) ==
  \/ D2Push /\ JmpCall(skel)
  \/ HandoffOneD2(d1) /\ JmpCall(d1)

-----------------------------------------------------------------------------
(* Actions *)

\* The mode is the one the code runs in: no far transfer or mode switch is under way.
Running == D = code.d32 /\ PE = code.pe

Suspended == queue.fault >= 0

\* One fetch at a time, for as long as a whole line fits.
CanFetch(fetched, d1) ==
  Words(fetched, queue.popped) <= 4 /\ ~Suspended /\ ~HasJmpCall(d1) /\ fetched < Len(code.bytes)

\* The retained fault goes to the core once, when decode is blocked on bytes.
Fetch(response, fetched, advance, pop, d1) ==
  queue' = [queue EXCEPT !.fetched = fetched, !.k1 = @ + advance, !.popped = @ + pop,
                         !.fault = IF response = "fault" THEN queue.fetched ELSE @,
                         !.reported = @ \/ (Suspended /\ FetchBlocked),
                         !.inflight = IF @ /\ response = "none" THEN TRUE ELSE CanFetch(fetched, d1)]

\* The ROM reads the window D1 would move to; when D2 refuses, the held word stays.
Preread(fetched, held, d1) ==
  rom' = [q |-> <<Byte(queue.k1 + PrereadAdvance(d1), fetched),
                  IF d1.v THEN 0 ELSE IF ConsumePrefix THEN NextPrefix.rep ELSE prefix.rep,
                  IF d1.v THEN 0 ELSE IF Consume0f THEN 1 ELSE prefix.p0f>>,
          hold |-> RomCurrent, use_q |-> ~held]

NextWindow(handoff, issue, d1) ==
  window' = CASE handoff ->
                   [bytes |-> D1Bytes, off |-> RawOffset(d1) % 4, raw |-> TRUE,
                    valid |-> K1Avail >= RawOffset(d1) + RawNeed(d1),
                    phaseB |-> FALSE, workB |-> None]
              [] ~handoff /\ StepA ->
                   [bytes |-> K2Bytes, off |-> 0, raw |-> FALSE,
                    valid |-> K2Avail(K2Off) >= skel.lit2.size, phaseB |-> TRUE, workB |-> CapA]
              [] ~handoff /\ LateCapture ->
                   [window EXCEPT !.bytes = K2Bytes, !.raw = FALSE, !.valid = TRUE]
              [] OTHER -> IF issue THEN NoWindow ELSE window

\* A clock: the fetch may answer, and EX may take what D2 offers.
Clock(response, issue, d1) ==
  LET fetched == IF response = "line" THEN Least(Len(code.bytes), LineEnd(queue.fetched))
                 ELSE queue.fetched
      handoff == d1.v /\ (~skel.v \/ issue)
      held == d1.v /\ ~handoff
  IN /\ response # "none" => queue.inflight
     /\ response = "line" /\ Suspended => MapsWhileWaiting
     /\ issue => D2Push /\ Running
     /\ Fetch(response, fetched, IF held THEN 0 ELSE PrereadAdvance(d1),
              IF issue THEN skel.length ELSE 0, d1)
     /\ Preread(fetched, held, d1)
     /\ prefix' = CASE handoff -> NoPrefix
                    [] ConsumePrefix \/ Consume0f -> NextPrefix
                    [] OTHER -> prefix
     /\ skel' = IF handoff THEN d1 ELSE IF issue THEN None ELSE skel
     /\ NextWindow(handoff, issue, d1)
     /\ UNCHANGED <<code, flushes, D, PE>>

\* The queue after a redirect; a buffered target line fills it at once.
Restarted(p, hit) ==
  LET first == IF hit THEN Least(Len(p.bytes), 16 - p.off) ELSE 0
  IN [fetched |-> first, popped |-> 0, k1 |-> 0, inflight |-> first < Len(p.bytes),
      fault |-> -1, reported |-> FALSE]

Flush(p, hit) ==
  /\ flushes < MaxFlushes
  /\ flushes' = flushes + 1
  /\ code' = p /\ D' = p.d32 /\ PE' = p.pe
  /\ queue' = Restarted(p, hit)
  /\ prefix' = NoPrefix /\ skel' = None /\ window' = NoWindow
  /\ rom' = [q |-> <<IF hit THEN p.bytes[1] ELSE Junk, 0, 0>>, hold |-> RomCurrent,
             use_q |-> TRUE]

\* A far transfer loads its code segment, and MOV CR0 sets PE, before the front end is
\* redirected.
SwitchMode ==
  /\ flushes < MaxFlushes /\ Running
  /\ \/ D' = 1 - D /\ PE' = PE
     \/ PE' = 1 - PE /\ D' = D
  /\ UNCHANGED <<code, flushes, queue, prefix, rom, skel, window>>

Init ==
  /\ code \in Programs /\ flushes = 0 /\ D = code.d32 /\ PE = code.pe
  /\ queue = Restarted(code, FALSE)
  /\ prefix = NoPrefix /\ skel = None /\ window = NoWindow
  /\ rom = [q |-> <<Junk, 0, 0>>, hold |-> <<Junk, 0, 0>>, use_q |-> TRUE]

Next ==
  \/ \E response \in {"none", "line", "fault"}, issue \in BOOLEAN :
       Clock(response, issue, Handoff)
  \/ \E p \in Targets, hit \in BOOLEAN : Flush(p, hit)
  \/ SwitchMode

Spec == Init /\ [][Next]_vars
=============================================================================
