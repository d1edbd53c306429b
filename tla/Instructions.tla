---------------------------- MODULE Instructions ----------------------------
(***************************************************************************)
(* ppc.Encode: from the operands of one instruction to its word, for every *)
(* mnemonic and under every set of corrections.  Branches are in           *)
(* BranchWords.  An operand is what its text is read as: a register        *)
(* prefix, or "" for an expression and "alias" for a name with a value, and *)
(* a number, which may be written in hexadecimal.  A word is its primary   *)
(* opcode and its lower 26 bits: 32 bits are more than TLC's integers have. *)
(***************************************************************************)
EXTENDS Integers, Sequences, SequencesExt, TLC

\* The corrections, and two settings that this part reads like them.
Corrections ==
    {"LHA", "EQV", "CRAndC", "CROrC", "OverflowSuffix", "ShiftRightZero", "QuantizedDisplacement",
     "IndexedQuantized", "PairedSingleRecord", "NumericFields", "Comparisons", "UnknownInstructions",
     "OperandCounts", "OperandRanges", "SuffixValidation", "RegisterRelationships", "DSDisplacement",
     "AdditionalConsole", "BranchPrediction", "BranchRanges"}
Settings == {"NonConsole", "RegisterPrefixes", "BranchHints"}

----------------------------------------------------------------------------
(* Words *)

Word32(op, low) == [op |-> op % 64, low |-> low % 2^26]
Zero32 == Word32(0, 0)
Ones32 == Word32(63, 2^26 - 1)
\* n << k in 32 bits, for a negative n, too.
Shifted(n, k) == [op |-> (n \div 2^(26 - k)) % 64, low |-> (n % 2^(26 - k)) * 2^k]
a ++ b == LET low == a.low + b.low IN Word32(a.op + b.op + low \div 2^26, low)
\* OR, which has no more to do when one of the two has no more bits.
Or(x, y) ==
    LET To[u \in Nat, v \in Nat] ==
            IF u = 0 THEN v ELSE IF v = 0 THEN u
            ELSE 2 * To[u \div 2, v \div 2] + (IF u % 2 = 1 \/ v % 2 = 1 THEN 1 ELSE 0)
    IN  To[x, y]
a || b == [op |-> Or(a.op, b.op), low |-> Or(a.low, b.low)]

\* A field of a word, which has up to three places, or an error; and words made
\* of fields.
Field(ok, n, at) == [ok |-> ok, n |-> n, at |-> <<at>>]
FieldWord(f) ==
    LET Place(k) == IF k > Len(f.at) THEN Zero32 ELSE Shifted(f.n, f.at[k])
    IN  Place(1) ++ Place(2) ++ Place(3)
Sum(fields) ==
    LET To[k \in 0..Len(fields)] == IF k = 0 THEN Zero32 ELSE To[k - 1] ++ FieldWord(fields[k])
    IN  To[Len(fields)]
Union32(fields) ==
    LET To[k \in 0..Len(fields)] == IF k = 0 THEN Zero32 ELSE To[k - 1] || FieldWord(fields[k])
    IN  To[Len(fields)]

Failed == [ok |-> FALSE, word |-> Zero32]
Encoded(w) == [ok |-> TRUE, word |-> w]
Checked(fields, w) == IF \A k \in DOMAIN fields : fields[k].ok THEN Encoded(w) ELSE Failed

----------------------------------------------------------------------------
(* Operands: number, register and immediate *)

\* The roles: registers g, f, c (CR field), b (CR bit) and s; numbers of 8, 5,
\* 4, 3 and 1 bits.
RoleBits == [g |-> 5, f |-> 5, c |-> 3, b |-> 5, s |-> 4, i8 |-> 8, i5 |-> 5, i4 |-> 4, i3 |-> 3, i1 |-> 1]
RolePrefixes(role) ==
    CASE role = "g" -> {"r"} [] role = "f" -> {"fr", "f"} [] role \in {"c", "b"} -> {"cr"}
      [] role = "s" -> {"sr"} [] OTHER -> {}

\* Mutated form: hexadecimal numbers are read if operands are checked, too.
NumberOfChecked(arg, on) ==
    IF arg.hex /\ {"NumericFields", "OperandRanges"} \cap on = {} /\ arg.p # "alias" THEN 0 ELSE arg.n
\* "wide" is what a distance out of range becomes in a shift.
NumberOf(arg, on) == IF arg.hex /\ "NumericFields" \notin on /\ arg.p # "alias" THEN 0 ELSE arg.n
Readable(arg, role, on) ==
    \/ arg.p \in {"", "alias"} \cup RolePrefixes(role)
    \/ "RegisterPrefixes" \in on /\ arg.p \in {"fr", "cr", "r", "f"}
    \/ "NumericFields" \in on /\ arg.p = "wide"

Operand(arg, role, at, on) ==
    LET n == NumberOf(arg, on)
    IN  Field(/\ Readable(arg, role, on)
              /\ "OperandRanges" \in on => n \in 0..(2^RoleBits[role] - 1), n, at)

Immediate(arg, sign, bits, on) ==
    LET v == sign * arg.n
    IN  Field(/\ arg.p \in {"", "alias"}
              /\ "OperandRanges" \in on => v \in -(2^(bits - 1))..(2^bits - 1), v % 2^bits, 0)

CountFits(args, n, on) == Len(args) = n \/ ("OperandCounts" \notin on /\ Len(args) > n)

Plain(n) == [p |-> "", n |-> n, hex |-> FALSE]

----------------------------------------------------------------------------
(* Layouts: the role and the places of each operand *)

Row(roles, at) == [roles |-> roles, at |-> at]
G == "g"
Layout ==
    [none |-> Row(<<>>, <<>>),
     rrr |-> Row(<<G, G, G>>, <<<<21>>, <<16>>, <<11>>>>),
     swapped |-> Row(<<G, G, G>>, <<<<21>>, <<11>>, <<16>>>>),
     rr0 |-> Row(<<G, G>>, <<<<21>>, <<16>>>>),
     r0r |-> Row(<<G, G>>, <<<<21>>, <<11>>>>),
     logical |-> Row(<<G, G, G>>, <<<<16>>, <<21>>, <<11>>>>),
     logical2 |-> Row(<<G, G>>, <<<<16>>, <<21>>>>),
     duplicate |-> Row(<<G, G>>, <<<<16>>, <<21, 11>>>>),
     immediate |-> Row(<<G, G, "si">>, <<<<21>>, <<16>>, <<0>>>>),
     negImmediate |-> Row(<<G, G, "-si">>, <<<<21>>, <<16>>, <<0>>>>),
     loadImmediate |-> Row(<<G, "si">>, <<<<21>>, <<0>>>>),
     unsignedImmediate |-> Row(<<G, G, "si">>, <<<<16>>, <<21>>, <<0>>>>),
     memory |-> Row(<<G, "si", G>>, <<<<21>>, <<0>>, <<16>>>>),
     rotate |-> Row(<<G, G, "i5", "i5", "i5">>, <<<<16>>, <<21>>, <<11>>, <<6>>, <<1>>>>),
     floatingMultiply |-> Row(<<"f", "f", "f">>, <<<<21>>, <<16>>, <<6>>>>),
     floatingFour |-> Row(<<"f", "f", "f", "f">>, <<<<21>>, <<16>>, <<6>>, <<11>>>>),
     compareFloat |-> Row(<<"c", "f", "f">>, <<<<23>>, <<16>>, <<11>>>>),
     cache |-> Row(<<G, G>>, <<<<16>>, <<11>>>>),
     onlyRT |-> Row(<<G>>, <<<<21>>>>),
     onlyRB |-> Row(<<G>>, <<<<11>>>>),
     crThree |-> Row(<<"b", "b", "b">>, <<<<21>>, <<16>>, <<11>>>>),
     crTwo |-> Row(<<"b", "b">>, <<<<21>>, <<16, 11>>>>),
     crOne |-> Row(<<"b">>, <<<<21, 16, 11>>>>),
     crFields |-> Row(<<"c", "c">>, <<<<23>>, <<18>>>>),
     crField |-> Row(<<"c">>, <<<<23>>>>),
     segmentRead |-> Row(<<G, "s">>, <<<<21>>, <<16>>>>),
     segmentWrite |-> Row(<<"s", G>>, <<<<16>>, <<21>>>>),
     fpscrMask |-> Row(<<"i8", "f">>, <<<<17>>, <<11>>>>),
     fpscrImmediate |-> Row(<<"c", "i4">>, <<<<23>>, <<12>>>>),
     fpscrBit |-> Row(<<"b">>, <<<<21>>>>)]

----------------------------------------------------------------------------
(* The table: base, form, suffixes, and what its "g" registers really are *)

Entry32(op, low, form, suffixes, regs) ==
    [base |-> Word32(op, low), form |-> form, suffixes |-> suffixes, regs |-> regs]
Group(xos, op, form, suffixes, regs) ==
    [m \in DOMAIN xos |-> Entry32(op, 2 * xos[m], form, suffixes, regs)]
Primary(ops, form, suffixes, regs) ==
    [m \in DOMAIN ops |-> Entry32(ops[m], 0, form, suffixes, regs)]
Rc == {"."}
RcOE == {".", "o"}

LoadsAndStores ==
    Primary([lbz |-> 34, lbzu |-> 35, lhz |-> 40, lhzu |-> 41, lha |-> 42, lhau |-> 43, lwz |-> 32, lwzu |-> 33,
             lmw |-> 46, stb |-> 38, stbu |-> 39, sth |-> 44, sthu |-> 45, stw |-> 36, stwu |-> 37, stmw |-> 47],
            "memory", {}, "g")
    @@ Primary([lfs |-> 48, lfsu |-> 49, lfd |-> 50, lfdu |-> 51, stfs |-> 52, stfsu |-> 53, stfd |-> 54, stfdu |-> 55],
               "memory", {}, "f first")
    @@ Group([lbzx |-> 87, lbzux |-> 119, lhzx |-> 279, lhzux |-> 311, lhax |-> 343, lhaux |-> 375, lwzx |-> 23,
              lwzux |-> 55, lhbrx |-> 790, lwbrx |-> 534, lswi |-> 597, lswx |-> 533, stbx |-> 215, stbux |-> 247,
              sthx |-> 407, sthux |-> 439, stwx |-> 151, stwux |-> 183, sthbrx |-> 918, stwbrx |-> 662,
              stswi |-> 725, stswx |-> 661, lwarx |-> 20, eciwx |-> 310, ecowx |-> 438, tw |-> 4], 31, "rrr", {}, "g")
    @@ Group([lfsx |-> 535, lfsux |-> 567, lfdx |-> 599, lfdux |-> 631, stfsx |-> 663, stfsux |-> 695, stfdx |-> 727,
              stfdux |-> 759, stfiwx |-> 983], 31, "rrr", {}, "f first")
IntegerArithmetic ==
    Primary([addi |-> 14, addis |-> 15, addic |-> 12, subfic |-> 8, mulli |-> 7, twi |-> 3], "immediate", {}, "g")
    @@ Primary([subi |-> 14, subis |-> 15, subic |-> 12], "negImmediate", {}, "g")
    @@ Primary([li |-> 14, lis |-> 15], "loadImmediate", {}, "g")
    @@ Primary([ori |-> 24, oris |-> 25, xori |-> 26, xoris |-> 27], "unsignedImmediate", {}, "g")
    @@ Group([add |-> 266, addc |-> 10, adde |-> 138, subf |-> 40, subfc |-> 8, subfe |-> 136, mullw |-> 235,
              divw |-> 491, divwu |-> 459], 31, "rrr", RcOE, "g")
    @@ Group([sub |-> 40, subc |-> 8, sube |-> 136], 31, "swapped", RcOE, "g")
    @@ Group([addme |-> 234, addze |-> 202, subfme |-> 232, subfze |-> 200, neg |-> 104], 31, "rr0", RcOE, "g")
    @@ Group([mulhw |-> 75, mulhwu |-> 11], 31, "rrr", Rc, "g")
    @@ Group([and |-> 28, andc |-> 60, nand |-> 476, xor |-> 316, or |-> 444, orc |-> 412, nor |-> 124, eqv |-> 284,
              slw |-> 24, srw |-> 536, sraw |-> 792, srawi |-> 824], 31, "logical", Rc, "g")
    @@ Group([mr |-> 444, not |-> 124], 31, "duplicate", Rc, "g")
    @@ Group([extsb |-> 954, extsh |-> 922, cntlzw |-> 26], 31, "logical2", Rc, "g")
    @@ Primary([rlwinm |-> 21, rlwimi |-> 20, rlwnm |-> 23], "rotate", Rc, "g")
ConditionLogic ==
    Group([crand |-> 257, cror |-> 449, crxor |-> 193, crnand |-> 225, crnor |-> 33, creqv |-> 289, crandc |-> 129,
           crorc |-> 417], 19, "crThree", {}, "g")
    @@ Group([crmove |-> 449, crnot |-> 33], 19, "crTwo", {}, "g")
    @@ Group([crclr |-> 193, crset |-> 289], 19, "crOne", {}, "g")
    @@ Group([mcrf |-> 0], 19, "crFields", {}, "g")
Arithmetic(op, xos) ==
    Group(xos.add, op, "rrr", Rc, "f")
    @@ Group(xos.mul, op, "floatingMultiply", Rc, "f")
    @@ Group(xos.fused, op, "floatingFour", Rc, "f")
FloatingPoint ==
    Group([fmr |-> 72, fneg |-> 40, fabs |-> 264, fnabs |-> 136, frsp |-> 12, fctiwz |-> 15, fctiw |-> 14,
           frsqrte |-> 26], 63, "r0r", Rc, "f")
    @@ Group([fres |-> 24], 59, "r0r", Rc, "f")
    @@ Group([fcmpo |-> 32, fcmpu |-> 0], 63, "compareFloat", {}, "f")
    @@ Arithmetic(63, [add |-> [fadd |-> 21, fsub |-> 20, fdiv |-> 18], mul |-> [fmul |-> 25],
                       fused |-> [fmadd |-> 29, fmsub |-> 28, fnmadd |-> 31, fnmsub |-> 30, fsel |-> 23]])
    @@ Arithmetic(59, [add |-> [fadds |-> 21, fsubs |-> 20, fdivs |-> 18], mul |-> [fmuls |-> 25],
                       fused |-> [fmadds |-> 29, fmsubs |-> 28, fnmadds |-> 31, fnmsubs |-> 30]])
PairedSingles ==
    Group([ps_abs |-> 264, ps_nabs |-> 136, ps_mr |-> 72, ps_neg |-> 40, ps_res |-> 24, ps_rsqrte |-> 26],
          4, "r0r", Rc, "f")
    @@ Group([ps_cmpo0 |-> 32, ps_cmpo1 |-> 96, ps_cmpu0 |-> 0, ps_cmpu1 |-> 64], 4, "compareFloat", {}, "f")
    @@ Arithmetic(4, [add |-> [ps_add |-> 21, ps_sub |-> 20, ps_div |-> 18, ps_merge00 |-> 528, ps_merge01 |-> 560,
                               ps_merge10 |-> 592, ps_merge11 |-> 624],
                      mul |-> [ps_mul |-> 25, ps_muls0 |-> 12, ps_muls1 |-> 13],
                      fused |-> [ps_madds0 |-> 14, ps_madds1 |-> 15, ps_madd |-> 29, ps_msub |-> 28, ps_nmadd |-> 31,
                                 ps_nmsub |-> 30, ps_sum0 |-> 10, ps_sum1 |-> 11, ps_sel |-> 23]])
SystemControl ==
    Group([icbi |-> 982, dcbf |-> 86, dcbi |-> 470, dcbst |-> 54, dcbt |-> 278, dcbtst |-> 246, dcbz |-> 1014],
          31, "cache", {}, "g")
    @@ Group([dcbz_l |-> 1014], 4, "cache", {}, "g")
    @@ Group([sync |-> 598, eieio |-> 854, tlbsync |-> 566], 31, "none", {}, "g")
    @@ Group([isync |-> 150, rfi |-> 50], 19, "none", {}, "g")
    @@ Group([nop |-> 0], 24, "none", {}, "g")
    @@ Group([sc |-> 1], 17, "none", {}, "g")
    @@ Group([mfcr |-> 19, mfmsr |-> 83, mtmsr |-> 146], 31, "onlyRT", {}, "g")
    @@ Group([mffs |-> 583], 63, "onlyRT", Rc, "f")
    @@ Group([mcrfs |-> 64], 63, "crFields", {}, "g")
    @@ Group([mcrxr |-> 512], 31, "crField", {}, "g")
    @@ Group([mfsr |-> 595], 31, "segmentRead", {}, "g")
    @@ Group([mtsr |-> 210], 31, "segmentWrite", {}, "g")
    @@ Group([mfsrin |-> 659, mtsrin |-> 242], 31, "r0r", {}, "g")
    @@ Group([mtfsb0 |-> 70, mtfsb1 |-> 38], 63, "fpscrBit", Rc, "g")
    @@ Group([mtfsf |-> 711], 63, "fpscrMask", Rc, "g")
    @@ Group([mtfsfi |-> 134], 63, "fpscrImmediate", Rc, "g")
    @@ Group([tlbie |-> 306], 31, "onlyRB", {}, "g")

Console ==
    LoadsAndStores @@ IntegerArithmetic @@ ConditionLogic @@ FloatingPoint @@ PairedSingles @@ SystemControl
\* The mnemonics whose name ends in a dot.
Dotted ==
    Primary([addic |-> 13], "immediate", {}, "g") @@ Primary([subic |-> 13], "negImmediate", {}, "g")
    @@ Primary([andi |-> 28, andis |-> 29], "unsignedImmediate", {}, "g")
    @@ [stwcx |-> Entry32(31, 301, "rrr", {}, "g")]
Legacy64 ==
    Group([ldx |-> 21, ldux |-> 53, lwax |-> 341, lwaux |-> 373, stdx |-> 149, stdux |-> 181, td |-> 68],
          31, "rrr", {}, "g")
    @@ Group([mulld |-> 233, divdu |-> 457, divd |-> 489], 31, "rrr", RcOE, "g")
    @@ Group([mulhdu |-> 9, mulhd |-> 73], 31, "rrr", Rc, "g")
    @@ Primary([tdi |-> 2], "immediate", {}, "g")
    @@ Group([sld |-> 27, srd |-> 539, srad |-> 794], 31, "logical", Rc, "g")
    @@ Group([extsw |-> 986, cntlzd |-> 58], 31, "logical2", Rc, "g")
    @@ Group([fctidz |-> 815, fctid |-> 814, fcfid |-> 846, fsqrt |-> 22], 63, "r0r", Rc, "f")
    @@ Group([fsqrts |-> 22, fress |-> 24, frsqrtes |-> 26], 59, "r0r", Rc, "f")
    @@ Group([fsels |-> 23], 59, "floatingFour", Rc, "f")

Unsupported == DOMAIN Legacy64 \cup {"dcba", "ld", "ldu", "lwa", "std", "stdu", "cmpd", "cmpdi", "cmpld", "cmpldi"}

\* The arithmetic that the reference recognises by the beginning of the name.
ByPrefix ==
    {"fadd", "fsub", "fmul", "fdiv", "fmadd", "fmsub", "fnmadd", "fnmsub", "fadds", "fsubs", "fmuls", "fdivs", "fmadds",
     "fmsubs", "fnmadds", "fnmsubs", "fsqrt", "fsqrts", "fres", "fress", "frsqrte", "frsqrtes", "fsel", "fsels"}

\* The names by which an instruction is misspelt: the prefix that the reference
\* takes them for, and whether it looks single-precision.
Misspelt == [fmulls |-> [prefix |-> "fmul", single |-> TRUE], faddx |-> [prefix |-> "fadd", single |-> FALSE],
             fsqrtx |-> [prefix |-> "fsqrt", single |-> FALSE]]

\* lookupInstruction after the suffixes have been taken off.
NotFound == [found |-> FALSE, console |-> TRUE, spec |-> Entry32(0, 0, "none", {}, "g")]
Found(spec, console) == [found |-> TRUE, console |-> console, spec |-> spec]
LookupSpelling(m, console, wide) ==
    LET spec == (console @@ wide)[m.prefix]
    IN  Found(IF m.single THEN [spec EXCEPT !.base.op = 59] ELSE spec, m.prefix \in DOMAIN console)
LookupIn(i, console, wide, on) ==
    IF i.dot /\ ~i.o /\ i.stem \in DOMAIN Dotted THEN Found(Dotted[i.stem], TRUE)
    ELSE IF i.stem \in {"fress", "fsels"} /\ "UnknownInstructions" \in on THEN NotFound
    ELSE IF i.stem \in DOMAIN console THEN Found(console[i.stem], TRUE)
    ELSE IF i.stem \in DOMAIN wide THEN Found(wide[i.stem], FALSE)
    ELSE IF i.stem \in DOMAIN Misspelt /\ "UnknownInstructions" \notin on THEN LookupSpelling(Misspelt[i.stem], console, wide)
    ELSE NotFound
Lookup(i, on) == LookupIn(i, Console, Legacy64, on)

\* A name without instruction; "cunknown" stands for one that begins like those
\* of the condition register.
Unknown(i, on) ==
    IF "UnknownInstructions" \in on THEN Failed
    ELSE Encoded(IF i.stem \in {"cunknown", "clrlwi", "clrrwi"} THEN Word32(19, 0) ELSE Ones32)

----------------------------------------------------------------------------
(* Instructions of the table *)

\* The corrections of single encodings.
Corrected32(i, spec, on) ==
    CASE i.stem = "lha" /\ "LHA" \notin on -> [spec EXCEPT !.base.op = 40]
      [] i.stem = "eqv" /\ "EQV" \notin on -> [spec EXCEPT !.form = "duplicate"]
      [] i.stem = "crandc" /\ "CRAndC" \notin on -> [spec EXCEPT !.base.low = 2 * 257]
      [] i.stem = "crorc" /\ "CROrC" \notin on -> [spec EXCEPT !.base.low = 2 * 449]
      [] OTHER -> spec

\* operandRoles
Role(i, spec, k) ==
    CASE i.stem \in {"tw", "twi", "td", "tdi"} /\ k = 1 -> "i5"
      [] i.stem \in {"lswi", "stswi", "srawi"} /\ k = 3 -> "i5"
      [] i.stem = "rlwnm" /\ k = 3 -> "g"
      [] spec.regs = "f first" /\ k = 1 -> "f"
      [] OTHER -> LET role == Layout[spec.form].roles[k]
                  IN  IF spec.regs = "f" /\ role = "g" THEN "f" ELSE role

FieldsOf(i, spec, on) ==
    LET Value(arg, role) ==
            CASE role = "si" -> Immediate(arg, 1, 16, on)
              [] role = "-si" -> Immediate(arg, -1, 16, on)
              [] OTHER -> Operand(arg, role, 0, on)
        Place(k) == Layout[spec.form].at[k]
    IN  [k \in DOMAIN Layout[spec.form].roles |-> [Value(i.args[k], Role(i, spec, k)) EXCEPT !.at = Place(k)]]

FieldAt(w, at, bits) == (w.low \div 2^at) % 2^bits
RT(w) == FieldAt(w, 21, 5)
RA(w) == FieldAt(w, 16, 5)
RB(w) == FieldAt(w, 11, 5)

\* validateMemory
Updates == {"lbzu", "lhzu", "lhau", "lwzu", "lbzux", "lhzux", "lhaux", "lwzux", "ldu", "ldux", "lwaux"}
UpdatesOther == {"stbu", "sthu", "stwu", "stbux", "sthux", "stwux", "stdu", "stdux", "lfsu", "lfdu", "lfsux", "lfdux",
                 "stfsu", "stfdu", "stfsux", "stfdux", "psq_lu", "psq_stu", "psq_lux", "psq_stux"}
Overlaps(stem, w) ==
    \/ stem \in Updates \cup UpdatesOther /\ RA(w) = 0
    \/ stem \in Updates /\ RA(w) = RT(w)
    \/ stem = "lmw" /\ RA(w) >= RT(w)
    \/ /\ stem = "lswi"
       /\ LET bytes == IF RB(w) = 0 THEN 32 ELSE RB(w)
          IN  \E j \in 0..((bytes + 3) \div 4 - 1) : (RT(w) + j) % 32 = RA(w)
    \/ stem = "lswx" /\ RT(w) \in {RA(w), RB(w)}
Related(stem, result, on) ==
    IF "RegisterRelationships" \in on /\ Overlaps(stem, result.word) THEN Failed ELSE result

\* The OE and Rc bits go into the operands' part, which is added to the base
\* without operand_ranges; 400 stands for OE without overflow_suffix.
Suffixed(i, spec, fields, record, overflow, on) ==
    LET v == Sum(fields) || Word32(0, (IF record THEN 1 ELSE 0) + (IF overflow THEN 1024 ELSE 0))
        w == IF "OperandRanges" \in on THEN spec.base || v ELSE spec.base ++ v
    IN  IF overflow /\ "OverflowSuffix" \notin on THEN w ++ Shifted(400 - 1024, 0) ELSE w

Reads(i, spec, on) ==
    LET n == Len(Layout[spec.form].roles)
    IN  /\ CountFits(i.args, IF i.stem = "eqv" /\ "OperandCounts" \in on THEN 3 ELSE n, on)
        /\ i.stem = "eqv" /\ "EQV" \notin on /\ "OperandRanges" \in on /\ Len(i.args) >= 3 =>
               Operand(i.args[3], "g", 0, on).ok

SuffixesOf(i) ==
    (IF i.o THEN {"o"} ELSE {}) \cup (IF i.dot /\ (i.o \/ i.stem \notin DOMAIN Dotted) THEN {"."} ELSE {})

\* An "o" behind a name that is recognised by its beginning is part of the name.
WithoutSpelling(i, on) ==
    IF "UnknownInstructions" \notin on /\ i.stem \in ByPrefix \cup DOMAIN Misspelt THEN [i EXCEPT !.o = FALSE] ELSE i

EncodeSpec(i, spec, on) ==
    LET validated == "SuffixValidation" \in on
        record == /\ "." \in SuffixesOf(i)
                  /\ "." \in spec.suffixes \/ validated
                  /\ "PairedSingleRecord" \in on \/ i.stem \notin DOMAIN PairedSingles
        Result(fields) == Checked(fields, Suffixed(i, spec, fields, record, i.o, on))
    IN  IF validated /\ ~(SuffixesOf(i) \subseteq spec.suffixes) THEN Failed
        ELSE IF ~Reads(i, spec, on) THEN Failed
        ELSE Related(i.stem, Result(FieldsOf(i, spec, on)), on)

EncodeFound(i, entry, on) ==
    IF entry.found /\ ~entry.console /\ "NonConsole" \notin on THEN Failed
    ELSE IF ~entry.found THEN Unknown(i, on)
    ELSE EncodeSpec(i, Corrected32(i, entry.spec, on), on)

EncodeTable(i, on) ==
    LET Encode(j) == EncodeFound(j, Lookup(j, on), on)
    IN  Encode(WithoutSpelling(i, on))

----------------------------------------------------------------------------
(* Shifts and rotates of one distance, which reduce to rlwinm *)

Shifts == {"slwi", "srwi", "clrlwi", "clrrwi", "rotlwi"}

\* A distance that has become negative in 32 bits.
Distance(n) == [Plain(n) EXCEPT !.p = IF n < 0 THEN "wide" ELSE ""]

\* Mutated form: the mask of a right shift begins one bit late.
RotationOffByOne(stem, n, on) ==
    CASE stem = "slwi" -> <<n, 0, 31 - n>>
      [] stem = "srwi" -> <<IF "ShiftRightZero" \in on THEN (32 - n) % 32 ELSE IF n = 0 THEN 0 ELSE 32 - n,
                            IF n = 31 THEN n ELSE n + 1, 31>>
      [] stem = "clrlwi" -> <<0, n, 31>>
      [] stem = "clrrwi" -> <<0, 0, 31 - n>>
      [] stem = "rotlwi" -> <<n, 0, 31>>
Rotation(stem, n, on) ==
    CASE stem = "slwi" -> <<n, 0, 31 - n>>
      [] stem = "srwi" -> <<IF "ShiftRightZero" \in on THEN (32 - n) % 32 ELSE IF n = 0 THEN 0 ELSE 32 - n, n, 31>>
      [] stem = "clrlwi" -> <<0, n, 31>>
      [] stem = "clrrwi" -> <<0, 0, 31 - n>>
      [] stem = "rotlwi" -> <<n, 0, 31>>

EncodeShift(i, on) ==
    LET distance == Operand(i.args[3], "i5", 0, on)
        Rlwinm(r) == [i EXCEPT !.stem = "rlwinm",
                               !.args = <<i.args[1], i.args[2], Distance(r[1]), Distance(r[2]), Distance(r[3])>>]
        Carried(rotated) ==
            IF i.stem = "srwi" /\ distance.n = 0 /\ "ShiftRightZero" \notin on /\ rotated.ok
            THEN Encoded(rotated.word ++ Shifted(1, 16)) ELSE rotated
    IN  IF ~CountFits(i.args, 3, on) \/ ~distance.ok THEN Failed
        ELSE Carried(EncodeTable(Rlwinm(Rotation(i.stem, distance.n, on)), on))

EncodeRotate(i, on) ==
    IF CountFits(i.args, 3, on)
    THEN EncodeTable([i EXCEPT !.stem = "rlwnm", !.args = @ \o <<Plain(0), Plain(31)>>], on) ELSE Failed

----------------------------------------------------------------------------
(* Comparisons *)

CompareOf(imm, logical, wide) == [imm |-> imm, logical |-> logical, wide |-> wide]
Comparisons ==
    [cmp |-> CompareOf(FALSE, FALSE, 0), cmpw |-> CompareOf(FALSE, FALSE, 0), cmpd |-> CompareOf(FALSE, FALSE, 1),
     cmpi |-> CompareOf(TRUE, FALSE, 0), cmpwi |-> CompareOf(TRUE, FALSE, 0), cmpdi |-> CompareOf(TRUE, FALSE, 1),
     cmpl |-> CompareOf(FALSE, TRUE, 0), cmplw |-> CompareOf(FALSE, TRUE, 0), cmpld |-> CompareOf(FALSE, TRUE, 1),
     cmpli |-> CompareOf(TRUE, TRUE, 0), cmplwi |-> CompareOf(TRUE, TRUE, 0), cmpldi |-> CompareOf(TRUE, TRUE, 1)]

\* Mutated form: the explicit L is not looked at before the operands are.
WideAnyTarget(i, on) == FALSE
\* checkComparisonTarget: an L that is no zero, whatever the corrections are.
WideTarget(i, on) ==
    /\ "NonConsole" \notin on
    /\ Len(i.args) = 4 /\ ~i.o /\ ~i.dot
    /\ i.stem \in DOMAIN Comparisons /\ Comparisons[i.stem].wide = 0
    /\ LET l == Operand(i.args[2], "i1", 0, on \cup {"NumericFields", "OperandRanges"})
       IN  ~l.ok \/ l.n # 0

EncodeCompare(i, on) ==
    LET c == Comparisons[i.stem]
        n == Len(i.args)
        bf == IF n = 2 THEN Field(TRUE, 0, 23) ELSE Operand(i.args[1], "c", 23, on)
        l == IF n = 4 THEN Operand(i.args[2], "i1", 21, on) ELSE Field(TRUE, c.wide, 21)
        second == IF c.imm THEN Immediate(i.args[n], 1, 16, on) ELSE Operand(i.args[n], "g", 11, on)
        fields == <<bf, Operand(i.args[n - 1], "g", 16, on), second>>
        op == IF c.imm THEN (IF c.logical THEN 10 ELSE 11) ELSE 31
        low == IF ~c.imm /\ c.logical THEN 64 ELSE 0
    IN  IF i.dot \/ i.o \/ n \notin 2..4 \/ ("NonConsole" \notin on /\ l.n # 0) THEN Failed
        ELSE Checked(Append(fields, l),
                     Word32(op, low) || Union32(fields)
                     || (IF "Comparisons" \in on THEN Union32(<<l>>) ELSE Zero32))

\* legacySpecial: three registers, wherever L is.
LegacyCompared(i, on) ==
    "Comparisons" \notin on /\ ~i.o /\ ~i.dot /\ i.stem \in {"cmp", "cmpl", "cmpli"}
EncodeLegacyCompare(i, on) ==
    LET fields == <<Operand(i.args[1], "c", 23, on), Operand(i.args[2], "g", 16, on), Operand(i.args[3], "g", 11, on)>>
    IN  IF ~CountFits(i.args, 3, on) /\ ~("OperandCounts" \in on /\ Len(i.args) = 4) THEN Failed
        ELSE Checked(fields, Word32(31, IF i.stem = "cmp" THEN 0 ELSE 64) ++ Sum(fields))

----------------------------------------------------------------------------
(* DS-form and quantized loads and stores *)

DsForm == [ld |-> <<58, 0>>, ldu |-> <<58, 1>>, lwa |-> <<58, 2>>, std |-> <<62, 0>>, stdu |-> <<62, 1>>]

EncodeDs(i, on) ==
    LET d == Immediate(i.args[2], 1, 16, IF "DSDisplacement" \in on THEN on ELSE on \ {"OperandRanges"})
        displacement ==
            IF "DSDisplacement" \in on THEN [d EXCEPT !.ok = @ /\ d.n % 4 = 0] ELSE [d EXCEPT !.n = (4 * i.args[2].n) % 2^16]
        fields == <<Operand(i.args[1], "g", 21, on), Operand(i.args[3], "g", 16, on), displacement>>
    IN  IF ~CountFits(i.args, 3, on) THEN Failed
        ELSE Related(i.stem, Checked(fields, Word32(DsForm[i.stem][1], DsForm[i.stem][2]) ++ Sum(fields)), on)

Quantized ==
    [psq_l |-> 56, psq_lu |-> 57, psq_st |-> 60, psq_stu |-> 61, psq_lx |-> 6, psq_lux |-> 38, psq_stx |-> 7,
     psq_stux |-> 39]
Indexed == {"psq_lx", "psq_lux", "psq_stx", "psq_stux"}

\* Mutated form: W and I of an indexed form are where the others have them.
QuantizedPlacesOfD(stem) == <<15, 12>>
\* Where W and I are.
QuantizedPlaces(stem) == IF stem \in Indexed THEN <<10, 7>> ELSE <<15, 12>>

EncodeQuantized(i, on) ==
    LET indexed == i.stem \in Indexed
        op == Quantized[i.stem]
        w == Operand(i.args[4], "i1", QuantizedPlaces(i.stem)[1], on)
        gqr == Operand(i.args[5], "i3", QuantizedPlaces(i.stem)[2], on)
        fields ==
            <<Operand(i.args[1], "f", 21, on), w, gqr>>
            \o (IF indexed THEN <<Operand(i.args[2], "g", 16, on), Operand(i.args[3], "g", 11, on)>>
                ELSE <<Operand(i.args[3], "g", 16, on), Immediate(i.args[2], 1, 12, on)>>)
        word ==
            IF indexed THEN Word32(4, 2 * op) || Union32(fields)
            ELSE IF "QuantizedDisplacement" \in on THEN Word32(op, 0) || Union32(fields)
            ELSE Word32(op, 0) ++ Sum(<<fields[1], fields[4], [w EXCEPT !.n = @ % 2], [gqr EXCEPT !.n = @ % 8],
                                        [fields[5] EXCEPT !.n = i.args[2].n]>>)
    IN  IF i.dot \/ i.o \/ ~CountFits(i.args, 5, on) \/ (indexed /\ "IndexedQuantized" \notin on) THEN Failed
        ELSE Related(i.stem, Checked(fields, word), on)

----------------------------------------------------------------------------
(* Special registers *)

SprNames ==
    [xer |-> 1, lr |-> 8, ctr |-> 9, dsisr |-> 18, dar |-> 19, dec |-> 22, sdr1 |-> 25, iabr |-> 1010, dabr |-> 1013,
     hid0 |-> 1008, hid1 |-> 1009, hid2 |-> 920, hid4 |-> 1011, wpar |-> 921, dmau |-> 922, dmal |-> 923, pvr |-> 287,
     tbl |-> 268, tbu |-> 269, ear |-> 282, l2cr |-> 1017, ictc |-> 1019]
SprFamily(base, step, last) == [base |-> base, step |-> step, last |-> last]
SprFamilies ==
    [srr |-> SprFamily(26, 1, 1), sprg |-> SprFamily(272, 1, 3), gqr |-> SprFamily(912, 1, 7),
     spr |-> SprFamily(0, 1, 1023), ibatu |-> SprFamily(528, 2, 3), ibatl |-> SprFamily(529, 2, 3),
     dbatu |-> SprFamily(536, 2, 3), dbatl |-> SprFamily(537, 2, 3)]

NoSpr == -1
SpecialRegister(arg) ==
    IF arg.p \in DOMAIN SprNames THEN SprNames[arg.p]
    ELSE IF arg.p \in DOMAIN SprFamilies
         THEN LET f == SprFamilies[arg.p] IN IF arg.n \in 0..f.last THEN f.base + f.step * arg.n ELSE NoSpr
    ELSE IF arg.p = "" /\ arg.n \in 0..1023 THEN arg.n ELSE NoSpr

\* The number of a special register has its halves swapped.
SprFields(n) == <<Field(n # NoSpr, n % 32, 16), Field(n # NoSpr, n \div 32, 11)>>

MoveSpr(xo, spr, reg, on) ==
    LET fields == SprFields(spr) \o <<Operand(reg, "g", 21, on)>>
    IN  Checked(fields, Word32(31, 2 * xo) || Union32(fields))

TimeBase == {"mftb", "mftbl", "mftbu"}
EncodeTimeBase(i, on) ==
    IF i.stem = "mftb" /\ Len(i.args) = 2
    THEN LET tbr == SpecialRegister(i.args[2])
         IN  MoveSpr(371, IF tbr \in {268, 269} THEN tbr ELSE NoSpr, i.args[1], on)
    ELSE IF CountFits(i.args, 1, on) THEN MoveSpr(371, IF i.stem = "mftbu" THEN 269 ELSE 268, i.args[1], on)
    ELSE Failed

\* mtcr and mtcrf
EncodeMtcrf(mask, reg, on) ==
    LET fields == <<mask, Operand(reg, "g", 21, on)>>
    IN  Checked(fields, Word32(31, 2 * 144) || Union32(fields))

\* A move that names its register in the mnemonic, where i.spr is. The test for
\* mtspr and mfspr comes first, and takes those of sprg and spr for them.
EncodeNamedMove(i, on) ==
    IF i.spr.p \in {"sprg", "spr"} THEN Failed
    ELSE IF i.o \/ i.dot \/ SpecialRegister(i.spr) = NoSpr THEN Unknown(i, on)
    ELSE IF ~CountFits(i.args, 1, on) THEN Failed
    ELSE MoveSpr(IF i.stem = "mt" THEN 467 ELSE 339, SpecialRegister(i.spr), i.args[1], on)

Moves == {"mtspr", "mfspr", "mtcr", "mtcrf", "mttbl", "mttbu", "mt", "mf"} \cup TimeBase
EncodeMove(i, on) ==
    LET fits(n) == CountFits(i.args, n, on)
        is(stem, n) == i.stem = stem /\ fits(n)
    IN  CASE i.stem \in {"mt", "mf"} -> EncodeNamedMove(i, on)
          [] i.o \/ i.dot -> IF i.stem \in {"mtspr", "mfspr"} THEN Failed ELSE Unknown(i, on)
          [] i.stem \in TimeBase -> EncodeTimeBase(i, on)
          [] is("mttbl", 1) -> MoveSpr(467, 284, i.args[1], on)
          [] is("mttbu", 1) -> MoveSpr(467, 285, i.args[1], on)
          [] is("mtcr", 1) -> EncodeMtcrf(Field(TRUE, 255, 12), i.args[1], on)
          [] is("mtcrf", 2) -> EncodeMtcrf(Operand(i.args[1], "i8", 12, on), i.args[2], on)
          [] is("mtspr", 2) -> MoveSpr(467, SpecialRegister(i.args[1]), i.args[2], on)
          [] is("mfspr", 2) -> MoveSpr(339, SpecialRegister(i.args[2]), i.args[1], on)
          [] OTHER -> Failed

----------------------------------------------------------------------------
(* Encode *)

\* What the reference lacks, and what it takes it for.
Added == {"dcbf", "dcbi", "dcbst", "dcbt", "dcbtst", "dcbz", "eieio", "sync", "sc", "clrlwi", "clrrwi", "rotlwi", "lwarx",
          "stwcx", "dcbz_l", "eciwx", "ecowx", "mcrf", "mcrfs", "mcrxr", "mfmsr", "mfsr", "mfsrin", "mftb", "mftbl",
          "mftbu", "mttbl", "mttbu", "mtfsb0", "mtfsb1", "mtfsf", "mtfsfi", "mtmsr", "mtsr", "mtsrin", "tlbie", "tlbsync"}
IsAdded(i) ==
    /\ ~i.o
    /\ i.stem \in Added \/ (i.stem \in {"mt", "mf"} /\ i.spr.p \notin {"lr", "ctr", "xer"} /\ SpecialRegister(i.spr) # NoSpr)

EncodeKnown(i, on) ==
    IF "NonConsole" \notin on /\ i.stem \in Unsupported THEN Failed
    ELSE IF WideTarget(i, on) THEN Failed
    ELSE IF i.stem \in DOMAIN DsForm /\ ~i.o /\ ~i.dot THEN EncodeDs(i, on)
    ELSE IF LegacyCompared(i, on) THEN EncodeLegacyCompare(i, on)
    ELSE IF i.stem \in Moves THEN EncodeMove(i, on)
    ELSE IF i.stem \in DOMAIN Quantized THEN EncodeQuantized(i, on)
    ELSE IF i.stem \in DOMAIN Comparisons THEN EncodeCompare(i, on)
    ELSE IF i.stem \in Shifts /\ ~i.o THEN EncodeShift(i, on)
    ELSE IF i.stem = "rotlw" /\ ~i.o THEN EncodeRotate(i, on)
    ELSE EncodeTable(i, on)

TakenFor == [lwarx |-> "lwa", stwcx |-> "stw", rotlwi |-> "rotlw"]
LegacyAdded(i, on) ==
    CASE i.stem \in DOMAIN TakenFor -> EncodeKnown([i EXCEPT !.stem = TakenFor[i.stem], !.dot = FALSE], on)
      [] i.stem \in Moves \cup {"mcrf", "mcrfs", "mcrxr", "mfmsr", "mfsr", "mfsrin", "mtfsb0", "mtfsb1", "mtfsf",
                                "mtfsfi", "mtmsr", "mtsr", "mtsrin"} -> Encoded(Word32(31, 0))
      [] i.stem \in {"clrlwi", "clrrwi"} -> Encoded(Word32(19, 0))
      [] OTHER -> Encoded(Ones32)

EncodeInstruction(i, on) ==
    IF "AdditionalConsole" \in on \/ ~IsAdded(i) THEN EncodeKnown(i, on)
    ELSE IF "UnknownInstructions" \in on THEN Failed
    ELSE LegacyAdded(i, on)
=============================================================================
