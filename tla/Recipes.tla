------------------------------- MODULE Recipes -------------------------------
(***************************************************************************)
(* The hardwired recipes of ucode_optimize.py: which instructions run      *)
(* without the microsequencer, found by the microcode entry and qualified  *)
(* by the opcode, and the optimizer's own entries (overlays) that a        *)
(* qualified instruction takes instead. An instruction is a record with    *)
(* entry, opcode, has_0f, has_modrm, modrm, rep_lock.                      *)
(***************************************************************************)
EXTENDS EntryTables

Mem(e) == Bits(e.modrm, 7, 6) # 3

\* name -> <<entry, early kind>>
Recipe ==
  [nop |-> <<2505, "NONE">>, mov_r_r |-> <<3, "NONE">>, mov_r_imm |-> <<5, "NONE">>,
   alu_r_r |-> <<29, "NONE">>, cmp_test_r_r |-> <<31, "NONE">>,
   inc_dec_not_neg_r |-> <<33, "NONE">>, alu_r_imm |-> <<35, "NONE">>,
   cmp_test_r_imm |-> <<37, "NONE">>, lea |-> <<185, "EA">>, shift_r_imm |-> <<249, "NONE">>,
   shift_r_cl |-> <<255, "NONE">>, shxd_r_imm |-> <<252, "NONE">>,
   shxd_r_cl |-> <<258, "NONE">>, shift_r_one |-> <<261, "NONE">>,
   szext_r_16 |-> <<488, "NONE">>, szext_r_32 |-> <<496, "NONE">>,
   store_r |-> <<19, "STORE">>, store_imm |-> <<21, "STORE">>, load_r |-> <<25, "LOAD">>,
   alu_r_m |-> <<39, "LOAD">>, cmp_r_m |-> <<44, "LOAD">>, cmp_test_m_imm |-> <<49, "LOAD">>,
   cmp_test_m_r |-> <<53, "LOAD">>, rmw_m_imm |-> <<57, "RMW">>, rmw_m_r |-> <<74, "RMW">>,
   szext_m_16 |-> <<491, "LOAD">>, szext_m_32 |-> <<499, "LOAD">>,
   jcc_rel |-> <<101, "BRANCH">>, jmp_rel |-> <<106, "BRANCH">>, call_rel |-> <<117, "STACK">>,
   ret_near |-> <<114, "STACK">>, push_r |-> <<134, "STACK">>, push_seg |-> <<155, "STACK">>,
   push_imm |-> <<157, "STACK">>, pop_r |-> <<159, "STACK">>]

\* name -> the source entry, the overlay's entry and its action
Overlay ==
  [x87_m32_load |-> <<1239, 2501, "X87_OVERLAY">>, x87_reg |-> <<1217, 2513, "X87_OVERLAY">>,
   x87_st_m32 |-> <<1340, 2515, "X87_OVERLAY">>, rmw_m_r_fast |-> <<74, 2507, "RMW_FAST">>,
   rmw_unary_fast |-> <<78, 2510, "RMW_FAST">>]

\* An overlay takes the forms it was written for.
Qualifies(name, op, modrm) ==
  LET mem == Bits(modrm, 7, 6) # 3
      reg == Bits(modrm, 5, 3)
  IN CASE name = "x87_m32_load" -> op = 216 \/ (op = 217 /\ reg = 0)
       [] name = "x87_reg" -> ~mem
       [] name = "x87_st_m32" -> mem /\ op \in {217, 219} /\ reg \in {2, 3}
       [] name = "rmw_m_r_fast" -> mem
       [] name = "rmw_unary_fast" ->
            mem /\ \/ op \in {246, 247} /\ reg \in {2, 3}
                   \/ op \in {254, 255} /\ reg \in {0, 1}

\* The entry D1 hands over: an overlay if one qualifies, and NOP out of XCHG.
EffectiveEntry(entry, op, modrm) ==
  LET taken == {n \in DOMAIN Overlay : Overlay[n][1] = entry /\ Qualifies(n, op, modrm)}
  IN IF taken # {} THEN Overlay[CHOOSE n \in taken : TRUE][2]
     ELSE IF entry = 182 /\ op = 144 THEN Recipe.nop[1] ELSE entry

\* The architectural entry an overlay goes back to.
FallbackEntry(entry) ==
  LET of == {n \in DOMAIN Overlay : Overlay[n][2] = entry}
  IN IF of = {} THEN entry ELSE Overlay[CHOOSE n \in of : TRUE][1]

Action(entry) ==
  LET of == {n \in DOMAIN Overlay : Overlay[n][2] = entry}
  IN IF of # {} THEN Overlay[CHOOSE n \in of : TRUE][3]
     ELSE IF entry = 2503 THEN "INVLPG" ELSE "NONE"

EarlyKind(entry) ==
  LET of == {n \in DOMAIN Recipe : Recipe[n][1] = entry}
  IN CASE of # {} -> Recipe[CHOOSE n \in of : TRUE][2]
       [] entry = 2501 -> "LOAD"
       [] entry = 2513 -> "NONE"
       [] entry \in {2507, 2510} -> "RMW"
       [] OTHER -> "SEQ"

-----------------------------------------------------------------------------
(* recipe_metadata: the recipe of an entry, where the opcode bears it out *)

Group1 == {128, 129, 131}
grp(e) == IF e.opcode \in Group1 THEN Bits(e.modrm, 5, 3) ELSE Bits(e.opcode, 5, 3)
AluImm(e) == e.opcode < 64 /\ Bits(e.opcode, 2, 1) = 2

RegisterForm(name, e) ==
  LET mem == Mem(e)
      reg == Bits(e.modrm, 5, 3)
  IN CASE name \in {"nop", "mov_r_r", "alu_r_r", "cmp_test_r_r", "inc_dec_not_neg_r",
                    "szext_r_16", "szext_r_32"} -> TRUE
       [] name = "mov_r_imm" ->
            e.opcode \div 16 = 11 \/ (e.opcode \in {198, 199} /\ ~mem /\ reg = 0)
       [] name = "alu_r_imm" ->
            e.has_0f = 0 /\ (AluImm(e) \/ (e.opcode \in Group1 /\ ~mem /\ grp(e) # 7))
       [] name = "cmp_test_r_imm" ->
            e.has_0f = 0 /\ \/ AluImm(e) /\ grp(e) = 7
                            \/ e.opcode \in Group1 /\ ~mem /\ grp(e) = 7
                            \/ e.opcode \in {168, 169}
                            \/ e.opcode \in {246, 247} /\ ~mem /\ reg = 0
       [] name = "lea" -> e.has_modrm /\ mem
       [] OTHER -> FALSE

ShiftForm(name, e) ==
  LET reg == Bits(e.modrm, 5, 3)
  IN CASE name \in {"shift_r_imm", "shift_r_one", "shift_r_cl"} ->
            e.has_0f = 0 /\ ~Mem(e) /\ reg \notin {2, 3, 6}
       [] name = "shxd_r_imm" -> e.has_0f = 1 /\ ~Mem(e) /\ e.opcode \in {164, 172}
       [] name = "shxd_r_cl" -> e.has_0f = 1 /\ ~Mem(e) /\ e.opcode \in {165, 173}
       [] OTHER -> FALSE

MemoryForm(name, e) ==
  LET mem == Mem(e)
      reg == Bits(e.modrm, 5, 3)
  IN CASE name \in {"store_r", "szext_m_16", "szext_m_32"} -> TRUE
       [] name = "store_imm" -> e.opcode \in {198, 199} /\ mem /\ reg = 0
       [] name = "load_r" ->
            e.has_0f = 0 /\ ((e.opcode \in {138, 139} /\ mem) \/ e.opcode \in {160, 161})
       [] name = "alu_r_m" ->
            /\ e.has_0f = 0 /\ e.opcode < 64 /\ Bits(e.opcode, 2, 2) = 0
            /\ Bits(e.opcode, 1, 1) = 1 /\ e.has_modrm /\ mem /\ grp(e) # 7
       [] name \in {"cmp_r_m", "cmp_test_m_r", "rmw_m_r"} -> e.has_0f = 0
       [] name = "cmp_test_m_imm" ->
            e.has_0f = 0 /\ mem /\ \/ e.opcode \in Group1 /\ grp(e) = 7
                                   \/ e.opcode \in {246, 247} /\ reg = 0
       [] name = "rmw_m_imm" -> e.has_0f = 0 /\ e.opcode \in Group1 /\ mem /\ grp(e) # 7
       [] OTHER -> FALSE

ControlForm(name, e) ==
  CASE name \in {"jcc_rel", "jmp_rel", "call_rel", "ret_near"} -> TRUE
    [] name = "push_r" -> e.opcode \div 8 = 10
    [] name = "push_seg" -> e.opcode < 64 /\ e.opcode % 8 = 6
    [] name = "push_imm" -> e.opcode \in {104, 106}
    [] name = "pop_r" -> e.opcode \div 8 = 11
    [] OTHER -> FALSE

NoRecipe == [hardwired |-> FALSE, reads_flags |-> FALSE, uses_ea |-> FALSE, jcc |-> FALSE,
             br_rel |-> FALSE, reads |-> {}]

\* The registers a recipe reads, by operand field.
RecipeReads(name) ==
  CASE name \in {"mov_r_r", "store_r"} -> {"src"}
    [] name \in {"alu_r_r", "cmp_test_r_r", "shxd_r_imm"} -> {"dst", "src"}
    [] name \in {"inc_dec_not_neg_r", "alu_r_imm", "cmp_test_r_imm", "shift_r_imm",
                 "shift_r_one", "szext_r_16", "szext_r_32", "push_r", "alu_r_m"} -> {"dst"}
    [] name = "shift_r_cl" -> {"dst", "ecx"}
    [] name = "shxd_r_cl" -> {"dst", "src", "ecx"}
    [] OTHER -> {}

Metadata(e) ==
  LET name == CHOOSE n \in DOMAIN Recipe : Recipe[n][1] = e.entry
      fits == \/ RegisterForm(name, e) \/ ShiftForm(name, e)
              \/ MemoryForm(name, e) \/ ControlForm(name, e)
  IN CASE e.rep_lock # "none" -> NoRecipe
       [] e.rep_lock = "none" /\ e.entry \in {o[2] : o \in {Overlay[n] : n \in DOMAIN Overlay}} ->
            [NoRecipe EXCEPT !.uses_ea = e.entry # Overlay.x87_reg[2]]
       [] e.rep_lock = "none" /\ e.entry \in {Recipe[n][1] : n \in DOMAIN Recipe} /\ fits ->
            [hardwired |-> TRUE,
             reads_flags |-> \/ name = "jcc_rel"
                             \/ name \in {"alu_r_r", "alu_r_imm", "alu_r_m"} /\ grp(e) \in {2, 3},
             uses_ea |-> \/ name \in {"lea", "call_rel", "ret_near", "push_r", "push_seg",
                                      "push_imm", "pop_r"}
                         \/ MemoryForm(name, e),
             jcc |-> name = "jcc_rel", br_rel |-> name \in {"jcc_rel", "jmp_rel", "call_rel"},
             reads |-> RecipeReads(name)]
       [] OTHER -> NoRecipe
=============================================================================
