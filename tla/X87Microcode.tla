---------------------------- MODULE X87Microcode ----------------------------
(***************************************************************************)
(* The control store of the x87 executor, as build_x87_microcode.py        *)
(* assembles it: the enumerations of the fields of a micro-operation, the  *)
(* microprograms, the checks on a word and the resolution of the labels.   *)
(* src_a, src_b and side_effect reach no field of the word and are left    *)
(* out; destination is kept where a check reads it.                        *)
(***************************************************************************)
EXTENDS Integers, Sequences, FiniteSets, TLC

\* A field's names in the order of their codes, the first one coded 0.
FLOW == <<"NEXT", "JUMP", "BRANCH", "LOOP", "WAIT", "FINISH">>
COND == <<"FALSE", "TRUE", "SPECIAL", "INTEGRAL", "SUBUNIT", "COUNT_MORE", "TRANSFER_READY",
          "ZERO", "SHIFT_LEFT", "COUNT_ZERO", "INVALID", "DIRECT_READY", "NORMALIZE_MORE",
          "SHIFT_RIGHT", "SHIFT_RIGHT_MORE", "ADDSUB_NORMALIZE_MORE", "CORDIC_LIMB_MORE",
          "CORDIC_LOAD_MORE", "CORDIC_ALIGN_MORE", "ARITH_DIRECT", "RANGE_LIMB_MORE",
          "RANGE_NONNEG", "RANGE_NOT_GREATER">>
\* Two names share the code of another condition.
ALIAS == [TRANS_NEEDS_AUX |-> "INTEGRAL", TRANS_ATAN2 |-> "SHIFT_LEFT"]
STATES == <<"HOLD", "RESTORE_COUNT", "FORMAT_EXP_DEC", "FORMAT_EXP_INC", "TRANS_SELECT",
           "TRANS_NORMALIZE", "TRANS_LOAD_AUX">>
PREPARE == <<"HOLD", "LOAD_ROUNDINT", "LOAD_FIST", "FST", "FLD", "FILD", "ADDSUB", "MUL",
             "DIV", "SQRT">>
CLASSIFY == <<"HOLD", "ROUNDINT", "FIST", "FIST_RANGE", "ADDSUB", "MUL", "DIVSQRT", "TRANS">>
ENGINE == <<"HOLD", "MUL_ISSUE", "MUL_ACCUMULATE", "DIV_ITERATE", "SQRT_ITERATE",
            "TRANS_RANGE_BEGIN_STEP", "TRANS_RANGE_STEP", "TRANS_RANGE_BEGIN_CORRECT",
            "TRANS_CORDIC_PREP", "CORDIC_ALIGN_PREP", "ADDSUB_ALIGN", "CORDIC_X_PREP",
            "CORDIC_Y_PREP", "CORDIC_Z_PREP", "CORDIC_NEXT", "CORDIC_OUTPUT_PREP",
            "CORDIC_AUX_PREP", "CORDIC_BEGIN", "CORDIC_OUTPUT_CAPTURE",
            "TRANS_RANGE_BEGIN_COMPARE", "TRANS_RANGE_BEGIN_FOLD", "TRANS_ABS_BEGIN_PRIMARY",
            "TRANS_ABS_BEGIN_AUX", "TRANS_ABS_SIGN", "TRANS_ABS_STEP">>
PACK == <<"HOLD", "PACK_INTERNAL", "COPY_A", "ROUNDINT_SPECIAL", "ROUNDINT_SUBUNIT",
          "PACK_FIST", "FIST_INVALID", "ROUND_PACK_FST", "PACK_FST_SPECIAL",
          "PACK_FLD_DENORMAL", "PACK_FILD", "PACK_ADDSUB", "PACK_MUL", "PACK_DIVSQRT",
          "PACK_TRANS">>
ALU_ROUTE == <<"HOLD", "ROUND", "CALCULATE_ADDSUB", "NORMALIZE_ADDSUB", "PREP_ROUND_ADDSUB",
               "PREP_ROUND_MUL", "PREP_ROUND_DIVSQRT", "PREP_ROUND_TRANS">>
SHIFT_ROUTE == <<"HOLD", "LEFT", "RIGHT", "FORMAT">>
COUNT == <<"HOLD", "LOAD", "INC", "DEC">>
GRS == <<"HOLD", "LOAD", "SHIFT", "CLEAR">>
COMMIT == <<"NONE", "REPLACE_ST0", "PUSH", "POP", "TRANSFER">>
SCRATCH_READ == <<"HOLD", "ALIGN", "X_LOW", "X_HIGH", "Y_LOW", "Y_HIGH", "Z", "OUTPUT">>
SCRATCH_WRITE == <<"HOLD", "LOAD", "ALIGN", "X", "Y", "Z", "PRIMARY", "AUX">>

\* A word that does nothing and goes to the next one.
UOp == [flow |-> "NEXT", target |-> "", condition |-> "FALSE", state |-> "HOLD",
        prepare |-> "HOLD", classify |-> "HOLD", engine |-> "HOLD", pack |-> "HOLD",
        alu_route |-> "HOLD", destination |-> "NONE", shift_route |-> "HOLD",
        count |-> "HOLD", grs |-> "HOLD", commit |-> "NONE", scratch_read |-> "HOLD",
        scratch_write |-> "HOLD"]

Op(f) == <<"", f @@ UOp>>
At(label, f) == <<label, f @@ UOp>>
Jump(t) == [flow |-> "JUMP", target |-> t]
Branch(c, t) == [flow |-> "BRANCH", condition |-> c, target |-> t]
Loop(c, t) == [flow |-> "LOOP", condition |-> c, target |-> t]
Finish(c) == [flow |-> "FINISH", commit |-> c]
Shift(way) == [shift_route |-> way, destination |-> "WORK"]
Engine(e) == [engine |-> e]
Pack(p) == [pack |-> p]
Alu(a) == [alu_route |-> a]
Dec == [count |-> "DEC"]
Grs == [grs |-> "SHIFT"]

Frndint == <<
  At("entry_frndint", [classify |-> "ROUNDINT"]),
  Op(Branch("SPECIAL", "frnd_special")),
  Op(Branch("INTEGRAL", "frnd_copy")),
  Op(Branch("SUBUNIT", "frnd_subunit")),
  Op([prepare |-> "LOAD_ROUNDINT", count |-> "LOAD", grs |-> "LOAD"]),
  At("frnd_shift", Loop("COUNT_MORE", "frnd_shift") @@ Shift("RIGHT") @@ Dec @@ Grs),
  Op(Alu("ROUND")),
  Op([state |-> "RESTORE_COUNT", count |-> "LOAD"]),
  At("frnd_restore", Loop("COUNT_MORE", "frnd_restore") @@ Shift("LEFT") @@ Dec),
  Op(Pack("PACK_INTERNAL")),
  Op(Jump("frnd_commit")),
  At("frnd_copy", Pack("COPY_A")),
  Op(Jump("frnd_commit")),
  At("frnd_special", Pack("ROUNDINT_SPECIAL")),
  Op(Jump("frnd_commit")),
  At("frnd_subunit", Pack("ROUNDINT_SUBUNIT")),
  At("frnd_commit", Finish("REPLACE_ST0")) >>

\* FLD m32 and m64 begin alike: a denormal is shifted up until its lead bit is at the top.
FldEntry(entry, loop) == <<
  At(entry, [prepare |-> "FLD"]),
  Op(Branch("DIRECT_READY", "fld_commit")),
  At(loop, Loop("NORMALIZE_MORE", loop) @@ [state |-> "FORMAT_EXP_DEC"] @@ Shift("LEFT")) >>

Fld == FldEntry("entry_fld_m32", "fld32_normalize")
  \o << Op(Jump("fld_pack_denormal")) >>
  \o FldEntry("entry_fld_m64", "fld64_normalize")
  \o << At("fld_pack_denormal", Pack("PACK_FLD_DENORMAL")),
        At("fld_commit", Finish("PUSH")) >>

Fild == <<
  At("entry_fild", [prepare |-> "FILD"]),
  Op(Branch("DIRECT_READY", "fld_commit")),
  Op(Branch("SHIFT_RIGHT", "fild_shift_right")),
  Op(Branch("SHIFT_LEFT", "fild_shift_left")),
  Op(Jump("fild_pack")),
  At("fild_shift_right", Loop("SHIFT_RIGHT_MORE", "fild_shift_right")
       @@ [state |-> "FORMAT_EXP_INC"] @@ Shift("RIGHT") @@ Grs),
  Op(Jump("fild_pack")),
  At("fild_shift_left", Loop("NORMALIZE_MORE", "fild_shift_left")
       @@ [state |-> "FORMAT_EXP_DEC"] @@ Shift("LEFT")),
  At("fild_pack", Pack("PACK_FILD")),
  Op(Jump("fld_commit")) >>

FstEntry(entry, loop) == <<
  At(entry, [prepare |-> "FST", count |-> "LOAD", grs |-> "LOAD"]),
  Op(Branch("SPECIAL", "fst_special")),
  Op(Branch("COUNT_ZERO", "fst_round_pack")),
  At(loop, Loop("COUNT_MORE", loop) @@ Shift("RIGHT") @@ Dec @@ Grs) >>

Fst == FstEntry("entry_fst_m32", "fst32_shift")
  \o << Op(Jump("fst_round_pack")) >>
  \o FstEntry("entry_fst_m64", "fst64_shift")
  \o << At("fst_round_pack", Pack("ROUND_PACK_FST")),
        At("fst_commit", Finish("TRANSFER")),
        At("fst_special", Pack("PACK_FST_SPECIAL")),
        Op(Jump("fst_commit")) >>

Fist == <<
  At("entry_fist", [classify |-> "FIST"]),
  Op(Branch("INVALID", "fist_invalid")),
  Op(Branch("ZERO", "fist_check")),
  Op([prepare |-> "LOAD_FIST", count |-> "LOAD", grs |-> "LOAD"]),
  Op(Branch("COUNT_ZERO", "fist_round")),
  Op(Branch("SHIFT_LEFT", "fist_shift_left")),
  At("fist_shift_right", Loop("COUNT_MORE", "fist_shift_right") @@ Shift("RIGHT") @@ Dec @@ Grs),
  Op(Jump("fist_round")),
  At("fist_shift_left", Loop("COUNT_MORE", "fist_shift_left") @@ Shift("LEFT") @@ Dec),
  At("fist_round", Alu("ROUND")),
  At("fist_check", [classify |-> "FIST_RANGE"]),
  Op(Branch("INVALID", "fist_invalid")),
  Op(Pack("PACK_FIST")),
  At("fist_commit", Finish("TRANSFER")),
  At("fist_invalid", Pack("FIST_INVALID")),
  Op(Jump("fist_commit")) >>

AddSub == <<
  At("entry_addsub", Branch("ARITH_DIRECT", "addsub_commit")
       @@ [classify |-> "ADDSUB", prepare |-> "ADDSUB", count |-> "LOAD"]),
  At("addsub_align", Loop("COUNT_MORE", "addsub_align") @@ Engine("ADDSUB_ALIGN") @@ Dec @@ Grs),
  At("addsub_calculate", Alu("CALCULATE_ADDSUB")),
  At("addsub_normalize", Loop("ADDSUB_NORMALIZE_MORE", "addsub_normalize")
       @@ Alu("NORMALIZE_ADDSUB")),
  Op(Branch("DIRECT_READY", "addsub_commit")),
  Op(Alu("PREP_ROUND_ADDSUB") @@ [grs |-> "LOAD"]),
  Op(Pack("PACK_ADDSUB")),
  At("addsub_commit", Finish("REPLACE_ST0")) >>

Compare == <<
  At("entry_compare", [classify |-> "ADDSUB"]),
  Op(Finish("NONE")) >>

Mul == <<
  At("entry_mul", Branch("ARITH_DIRECT", "mul_commit")
       @@ [classify |-> "MUL", prepare |-> "MUL"]),
  Op(Engine("MUL_ACCUMULATE")),
  Op(Alu("PREP_ROUND_MUL") @@ [grs |-> "LOAD"]),
  Op(Pack("PACK_MUL")),
  At("mul_commit", Finish("REPLACE_ST0")) >>

\* Division and square root differ in what prepares and what iterates.
DivSqrt(entry, prepare, loop, engine) == <<
  At(entry, [classify |-> "DIVSQRT"]),
  Op(Branch("DIRECT_READY", "divsqrt_commit")),
  Op([prepare |-> prepare, count |-> "LOAD"]),
  At(loop, Loop("COUNT_MORE", loop) @@ Engine(engine) @@ Dec),
  Op(Alu("PREP_ROUND_DIVSQRT") @@ [grs |-> "LOAD"]),
  Op(Alu("ROUND")),
  Op(Pack("PACK_DIVSQRT")) >>

Div == DivSqrt("entry_div", "DIV", "div_iterate", "DIV_ITERATE")
  \o << At("divsqrt_commit", Finish("REPLACE_ST0")) >>

Sqrt == DivSqrt("entry_sqrt", "SQRT", "sqrt_iterate", "SQRT_ITERATE")
  \o << Op(Jump("divsqrt_commit")) >>

\* A pass over the five limbs of the remainder.
RangePass(label, begin, loop) == <<
  At(label, Engine(begin)),
  At(loop, Loop("RANGE_LIMB_MORE", loop) @@ Engine("TRANS_RANGE_STEP")) >>

TransRange == <<
  At("entry_trans", [classify |-> "TRANS"]),
  Op(Branch("DIRECT_READY", "trans_commit")),
  Op(Branch("SPECIAL", "trans_normalize_enter")),
  Op(Branch("TRANS_ATAN2", "trans_atan_start")) >>
  \o RangePass("trans_range", "TRANS_RANGE_BEGIN_STEP", "trans_range_step")
  \o << Op(Loop("COUNT_MORE", "trans_range") @@ Dec),
        Op(Branch("RANGE_NONNEG", "trans_range_compare")) >>
  \o RangePass("", "TRANS_RANGE_BEGIN_CORRECT", "trans_range_correct")
  \o RangePass("trans_range_compare", "TRANS_RANGE_BEGIN_COMPARE", "trans_range_compare_step")
  \o << Op(Branch("RANGE_NOT_GREATER", "trans_cordic_prepare")) >>
  \o RangePass("", "TRANS_RANGE_BEGIN_FOLD", "trans_range_fold")
  \o << Op(Jump("trans_cordic_prepare")),
        At("trans_atan_start", Jump("trans_cordic_prepare")) >>

TransAlign == <<
  At("trans_cordic_prepare", Engine("TRANS_CORDIC_PREP")),
  At("trans_cordic_load", Loop("CORDIC_LOAD_MORE", "trans_cordic_load")
       @@ [scratch_write |-> "LOAD"]),
  Op(Branch("TRANS_ATAN2", "trans_atan_align_check")),
  Op(Jump("trans_cordic_begin")),
  At("trans_atan_align_check", Branch("COUNT_ZERO", "trans_cordic_begin")),
  At("trans_atan_align_prepare", Engine("CORDIC_ALIGN_PREP")),
  At("trans_atan_align_read", [scratch_read |-> "ALIGN"]),
  At("trans_atan_align_write", Loop("CORDIC_ALIGN_MORE", "trans_atan_align_read")
       @@ [scratch_write |-> "ALIGN"]),
  Op(Loop("COUNT_MORE", "trans_atan_align_prepare") @@ Dec) >>

\* One limb of X or of Y per turn: two reads of the other vector, then the write.
CordicVector(low, read_low, read_high, write_at, write) == <<
  At(low, [scratch_read |-> read_low]),
  Op([scratch_read |-> read_high]),
  At(write_at, Loop("CORDIC_LIMB_MORE", low) @@ [scratch_write |-> write]) >>

TransRotate ==
  << At("trans_cordic_begin", Engine("CORDIC_BEGIN")),
     At("trans_cordic_x_prepare", Engine("CORDIC_X_PREP")) >>
  \o CordicVector("trans_cordic_x_low", "X_LOW", "X_HIGH", "trans_cordic_x_write", "X")
  \o << Op(Engine("CORDIC_Y_PREP")) >>
  \o CordicVector("trans_cordic_y_low", "Y_LOW", "Y_HIGH", "trans_cordic_y_write", "Y")
  \o << Op(Engine("CORDIC_Z_PREP")),
        At("trans_cordic_z_read", [scratch_read |-> "Z"]),
        At("trans_cordic_z_write", Loop("CORDIC_LIMB_MORE", "trans_cordic_z_read")
             @@ [scratch_write |-> "Z"]),
        Op(Loop("COUNT_MORE", "trans_cordic_x_prepare") @@ Engine("CORDIC_NEXT") @@ Dec) >>

\* An output vector is captured limb by limb, negated or complemented on its way.
OutputPass(prep, read, write_at, write) == <<
  Op(Engine(prep)),
  At(read, [scratch_read |-> "OUTPUT"]),
  Op(Engine("CORDIC_OUTPUT_CAPTURE")),
  At(write_at, Loop("CORDIC_LIMB_MORE", read) @@ [scratch_write |-> write]) >>

\* The magnitude and the sign of a captured output.
AbsPass(begin, loop) == <<
  Op(Engine(begin)),
  Op(Engine("TRANS_ABS_SIGN")),
  At(loop, Loop("CORDIC_LIMB_MORE", loop) @@ Engine("TRANS_ABS_STEP")) >>

TransOutput ==
  OutputPass("CORDIC_OUTPUT_PREP", "trans_cordic_output_read", "trans_cordic_output_write",
             "PRIMARY")
  \o OutputPass("CORDIC_AUX_PREP", "trans_cordic_aux_read", "trans_cordic_aux_write", "AUX")
  \o AbsPass("TRANS_ABS_BEGIN_PRIMARY", "trans_abs_step")
  \o << At("trans_normalize_enter", Branch("ZERO", "trans_commit")),
        At("trans_normalize", Loop("NORMALIZE_MORE", "trans_normalize")
             @@ [state |-> "TRANS_NORMALIZE"] @@ Shift("FORMAT")),
        At("trans_round", Alu("PREP_ROUND_TRANS") @@ [grs |-> "LOAD"]),
        Op(Alu("ROUND")),
        Op(Branch("TRANS_NEEDS_AUX", "trans_aux")),
        Op(Pack("PACK_TRANS")),
        Op(Jump("trans_commit")),
        At("trans_aux", Pack("PACK_TRANS")) >>
  \o AbsPass("TRANS_ABS_BEGIN_AUX", "trans_abs_aux_step")
  \o << Op(Branch("ZERO", "trans_commit")),
        Op(Jump("trans_normalize")),
        At("trans_commit", Finish("REPLACE_ST0")) >>

\* The routines the sequencer's own test bench runs.
TestRoutines == <<
  At("entry_test_branch", Branch("TRUE", "test_branch_taken")),
  Op(Finish("NONE")),
  At("test_branch_taken", Finish("NONE")),
  At("entry_test_loop", Loop("COUNT_MORE", "entry_test_loop") @@ Dec),
  Op(Finish("NONE")),
  At("entry_test_wait", [flow |-> "WAIT", condition |-> "TRANSFER_READY"]),
  Op(Finish("NONE")) >>

PROGRAM == Frndint \o Fld \o Fild \o Fst \o Fist \o AddSub \o Compare \o Mul \o Div \o Sqrt
           \o TransRange \o TransAlign \o TransRotate \o TransOutput \o TestRoutines

-----------------------------------------------------------------------------
(* The checks on one word: which combinations of lanes it may ask for. *)

MajorLanes == {"prepare", "engine", "pack", "alu_route", "classify", "state"}

Compatible(u) ==
  LET major == {lane \in MajorLanes : u[lane] # "HOLD"}
      pair == /\ u.classify = u.prepare
              /\ u.classify \in {"ADDSUB", "MUL"}
      shifts == u.shift_route \in {"LEFT", "RIGHT"}
  IN  /\ Cardinality(major) <= 1 \/ (pair /\ Cardinality(major) = 2)
      /\ shifts => u.state \in {"HOLD", "FORMAT_EXP_DEC", "FORMAT_EXP_INC"}
      /\ shifts => u.alu_route = "HOLD"
      /\ u.count = "DEC" =>
           /\ u.state = "HOLD"
           /\ u.engine \in {"HOLD", "MUL_ACCUMULATE", "DIV_ITERATE", "SQRT_ITERATE",
                            "ADDSUB_ALIGN", "CORDIC_NEXT"}
      /\ u.grs = "SHIFT" =>
           \/ u.shift_route = "RIGHT" /\ u.state \in {"HOLD", "FORMAT_EXP_INC"}
           \/ u.engine = "ADDSUB_ALIGN"

Horizontal(u) ==
  /\ Compatible(u)
  /\ u.shift_route # "HOLD" => u.destination = "WORK"

-----------------------------------------------------------------------------
(* assemble: the labels, then each word with its fields coded. *)

MaxWords == 256

\* Every field of a word with its table and its width in bits.
Fields == [flow |-> <<FLOW, 3>>, condition |-> <<COND, 5>>, alu_route |-> <<ALU_ROUTE, 4>>,
           shift_route |-> <<SHIFT_ROUTE, 4>>, prepare |-> <<PREPARE, 4>>,
           classify |-> <<CLASSIFY, 4>>, pack |-> <<PACK, 4>>, engine |-> <<ENGINE, 5>>,
           state |-> <<STATES, 4>>, count |-> <<COUNT, 2>>, grs |-> <<GRS, 2>>,
           commit |-> <<COMMIT, 3>>, scratch_read |-> <<SCRATCH_READ, 3>>,
           scratch_write |-> <<SCRATCH_WRITE, 3>>]

Addresses(program, label) == {a \in 0..Len(program) - 1 : program[a + 1][1] = label}

\* The code of a name, -1 for a name the table does not have.
Code(table, name) ==
  LET generic == IF name \in DOMAIN ALIAS /\ table = COND THEN ALIAS[name] ELSE name
      at == {i \in DOMAIN table : table[i] = generic}
  IN  IF at = {} THEN -1 ELSE (CHOOSE i \in at : TRUE) - 1

\* assemble raises an error on the first of these it meets.
Assembles(program) ==
  /\ Len(program) <= MaxWords
  /\ \A i, j \in DOMAIN program :
       i # j /\ program[i][1] # "" => program[i][1] # program[j][1]
  /\ \A i \in DOMAIN program :
       LET u == program[i][2]
       IN  /\ Horizontal(u)
           /\ u.target # "" => Addresses(program, u.target) # {}
           /\ \A f \in DOMAIN Fields : Code(Fields[f][1], u[f]) \in 0 .. 2 ^ Fields[f][2] - 1

\* The word at an address: its codes, and its target as an address.
Word(program, a) ==
  LET u == program[a + 1][2]
  IN  [f \in DOMAIN Fields |-> Code(Fields[f][1], u[f])]
      @@ [target |-> IF u.target = "" THEN 0
                     ELSE CHOOSE t \in Addresses(program, u.target) : TRUE]

Words == [a \in 0..Len(PROGRAM) - 1 |-> Word(PROGRAM, a)]
Entry(label) == CHOOSE a \in Addresses(PROGRAM, label) : TRUE
=============================================================================
