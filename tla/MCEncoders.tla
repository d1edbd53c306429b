----------------------------- MODULE MCEncoders -----------------------------
(* Encoders for TLC: every mnemonic with the least and the greatest value of *)
(* each operand, and one of each layout with everything that is wrong.       *)
EXTENDS Encoders

Arg(p, n) == [p |-> p, n |-> n, hex |-> FALSE]
NoName == Arg("", 0)
Line(stem, args) == [stem |-> stem, spr |-> NoName, o |-> FALSE, dot |-> FALSE, args |-> args]

----------------------------------------------------------------------------
(* Roles and values *)

Tables == Console @@ Legacy64
ShapeOf(spec, stem) ==
    [k \in DOMAIN Layout[spec.form].roles |-> Role(Line(stem, <<>>), spec, k)]
CompareShape(stem) == <<"c", "i1", "g", IF Comparisons[stem].imm THEN "si" ELSE "g">>
Special ==
    [ld |-> <<"g", "ds", "g">>, ldu |-> <<"g", "ds", "g">>, lwa |-> <<"g", "ds", "g">>, std |-> <<"g", "ds", "g">>,
     stdu |-> <<"g", "ds", "g">>, rotlw |-> <<"g", "g", "g">>, mtspr |-> <<"spr", "g">>, mfspr |-> <<"g", "spr">>,
     mtcr |-> <<"g">>, mtcrf |-> <<"i8", "g">>, mftb |-> <<"g", "tbr">>, mftbl |-> <<"g">>, mftbu |-> <<"g">>,
     mttbl |-> <<"g">>, mttbu |-> <<"g">>, cunknown |-> <<"g">>, unknown |-> <<"g">>, dcba |-> <<"g", "g">>]
    @@ [stem \in Shifts |-> <<"g", "g", "i5">>]
    @@ [stem \in DOMAIN Comparisons |-> CompareShape(stem)]
    @@ [stem \in DOMAIN Quantized |->
           IF stem \in Indexed THEN <<"f", "g", "g", "i1", "i3">> ELSE <<"f", "d12", "g", "i1", "i3">>]
    @@ [stem \in DOMAIN Misspelt |-> ShapeOf(Tables[Misspelt[stem].prefix], stem)]
Shapes == Special @@ [stem \in DOMAIN Tables |-> ShapeOf(Tables[stem], stem)]

Values(role) ==
    CASE role = "g" -> <<Arg("r", 0), Arg("r", 1), Arg("r", 31)>>
      [] role = "f" -> <<Arg("f", 0), Arg("fr", 31)>>
      [] role = "c" -> <<Arg("cr", 0), Arg("cr", 7)>>
      [] role = "b" -> <<Arg("", 0), Arg("", 1), Arg("", 31)>>
      [] role = "s" -> <<Arg("sr", 0), Arg("sr", 15)>>
      [] role \in {"si", "-si"} -> <<Arg("", -32768), Arg("", 0), Arg("", 32767)>>
      [] role = "d12" -> <<Arg("", -2048), Arg("", 0), Arg("", 2047)>>
      [] role = "ds" -> <<Arg("", -32768), Arg("", 0), Arg("", 32764)>>
      [] role = "spr" -> <<Arg("", 0), Arg("", 31), Arg("", 992)>>
      [] role = "tbr" -> <<Arg("", 268), Arg("", 269)>>
      [] OTHER -> <<Arg("", 0), Arg("", 2^RoleBits[role] - 1)>>

Tuples(shape) ==
    {[k \in DOMAIN shape |-> Values(shape[k])[1 + (c[k] % Len(Values(shape[k])))]] : c \in [DOMAIN shape -> 0..2]}
\* One tuple in which no register overlaps another one.
Usual(shape) == [k \in DOMAIN shape |-> [Values(shape[k])[2] EXCEPT !.n = IF shape[k] = "g" THEN k ELSE @]]

\* The other names of what another instruction encodes.
Synonyms ==
    {"li", "lis", "subi", "subis", "subic", "sub", "subc", "sube", "mr", "not", "crmove", "crnot", "crclr", "crset",
     "nop", "cmp", "cmpi", "cmpl", "cmpli", "rotlw", "mtcr", "mftbl", "mftbu"} \cup Shifts
CanonicalStems == (DOMAIN Shapes) \ (Synonyms \cup Unsupported \cup DOMAIN Misspelt \cup {"unknown", "cunknown"})
LinesOf(stems) == UNION {{Line(stem, args) : args \in Tuples(Shapes[stem])} : stem \in stems}
DottedLines ==
    UNION {{[Line(stem, args) EXCEPT !.dot = TRUE] : args \in Tuples(ShapeOf(Dotted[stem], stem))} : stem \in {"addic", "andi", "andis", "stwcx"}}

\* The operand of a comparison that stands for 64 bits is none of these.
MCCanonical == LinesOf(CanonicalStems) \cup DottedLines

----------------------------------------------------------------------------
(* What is wrong, or written in another way *)

\* A mnemonic of each layout, and of each encoder.
OddStems ==
    {"lwz", "lwzu", "lbzux", "stwu", "lmw", "lswi", "lswx", "lfdu", "addi", "subi", "li", "ori", "add", "sub", "neg", "eqv",
     "mr", "srawi", "rlwinm", "rlwnm", "crandc", "crorc", "crnot", "crset", "fmuls", "fmadd", "fcmpu", "fres", "ps_add",
     "mcrf", "mcrxr", "mfsr", "mtsr", "mtfsf", "mtfsfi", "mtfsb0", "mffs", "tw", "twi", "dcbz", "tlbie", "lwarx", "lha",
     "fsels", "fsqrt", "td", "mulld"}
    \cup DOMAIN Special
OddArgs ==
    {Arg("", n) : n \in {-1, 2, 8, 32, 256, 65535, 65536, -32769}} \cup {Arg("alias", 2), Arg("alias", 32)}
    \cup {Arg(p, 2) : p \in {"r", "fr", "f", "cr", "sr", "lr"}} \cup {[Arg("", 2) EXCEPT !.hex = TRUE]}
OddLines(stem) ==
    LET usual == Usual(Shapes[stem])
    IN  {Line(stem, [usual EXCEPT ![k] = arg]) : k \in DOMAIN usual, arg \in OddArgs}
        \cup {Line(stem, SubSeq(usual \o usual, 1, n)) : n \in 0..(Len(usual) + 1)}

\* Explicit 64-bit comparisons, and comparisons with fewer operands.
CompareLines ==
    {Line(stem, <<Arg("cr", 1), l, Arg("r", 3), Arg("", 4)>>) :
        stem \in DOMAIN Comparisons, l \in {Arg("", 0), Arg("", 1), [Arg("", 1) EXCEPT !.hex = TRUE], Arg("alias", 1)}}
    \cup {Line(stem, args) : stem \in DOMAIN Comparisons, args \in {<<Arg("r", 3), Arg("", 4)>>, <<Arg("cr", 7), Arg("r", 3), Arg("", 4)>>}}
SuffixLines ==
    {[Line(stem, Usual(Shapes[stem])) EXCEPT !.o = o, !.dot = dot] : stem \in DOMAIN Shapes, o \in BOOLEAN, dot \in BOOLEAN}
ShiftLines ==
    {[Line(stem, <<Arg("r", 3), Arg("r", 4), Arg("", n)>>) EXCEPT !.dot = dot] : stem \in Shifts, n \in 0..33, dot \in BOOLEAN}
NamedMoves ==
    {[Line(stem, <<Arg("r", 5)>>) EXCEPT !.spr = spr, !.dot = dot] :
        stem \in {"mt", "mf"}, dot \in BOOLEAN,
        spr \in {Arg(p, 0) : p \in {"lr", "xer", "pvr", "l2cr"}} \cup {Arg(p, 1) : p \in DOMAIN SprFamilies}
                \cup {Arg("gqr", 8), Arg("", 26), Arg("nothing", 0)}}

----------------------------------------------------------------------------
(* Branches *)

TargetsOf(stem) == {Arg("", n) : n \in {-4, 8, 32764, -32768, 2^25 - 4, -2^25, 6}} \cup {Arg("label", 8), Arg("", 0)}
MCBranches ==
    {Branch(stem, "", link, absolute, hint, args) :
        stem \in DOMAIN Conditions \ {"always"}, link \in BOOLEAN, absolute \in BOOLEAN, hint \in {"", "+", "-"},
        args \in {<<t>> : t \in TargetsOf("")} \cup {<<Arg("cr", 7), t>> : t \in TargetsOf("")}}
    \cup {Branch(stem, to, link, FALSE, hint, args) :
        stem \in DOMAIN Conditions, to \in {"lr", "ctr"}, link \in BOOLEAN, hint \in {"", "+", "-"},
        args \in {<<>>, <<Arg("cr", 7)>>, <<Arg("", 8)>>}}
    \cup {Branch("b", "", link, absolute, hint, args) :
        link \in BOOLEAN, absolute \in BOOLEAN, hint \in {"", "+"}, args \in {<<t>> : t \in TargetsOf("")} \cup {<<>>}}
    \cup {Branch("bc", to, FALSE, FALSE, hint, <<Arg("", bo), Arg("", bi)>> \o (IF to = "" THEN <<Arg("", -4)>> ELSE <<>>)) :
        to \in {"", "lr", "ctr"}, hint \in {"", "+", "-"}, bo \in {4, 5, 16, 31, 32}, bi \in {0, 31, 32}}

----------------------------------------------------------------------------
(* Corrections *)

All == Corrections \cup DirectiveCorrections
Groups ==
    {{}, {"OperandRanges", "NumericFields", "OperandCounts"}, {"SuffixValidation", "OverflowSuffix", "PairedSingleRecord"},
     {"LHA", "EQV", "CRAndC", "CROrC"}, {"Comparisons", "OperandCounts", "NumericFields"},
     {"RegisterRelationships", "DSDisplacement", "QuantizedDisplacement", "IndexedQuantized"},
     {"AdditionalConsole", "UnknownInstructions"}, {"ShiftRightZero", "OperandRanges"}, Corrections}
Some == {All \ off : off \in Groups}
MCPolicies == Some \cup {flags \cup {"NonConsole"} : flags \in Some} \cup {All \cup {"RegisterPrefixes"}, {"RegisterPrefixes", "NonConsole"}}
BranchPolicies ==
    {(All \ off) \cup hints : off \in {{}, {"BranchPrediction"}, {"BranchRanges", "RegisterRelationships"}, {"OperandRanges", "OperandCounts"},
                               {"AdditionalConsole"}, {"AdditionalConsole", "UnknownInstructions"}, All},
                       hints \in {{}, {"BranchHints"}}}
DirectivePolicies == {All, {}, All \ {"GRIndex"}}

----------------------------------------------------------------------------
(* Data *)

Literal(type, size, tokens, inBlock) == [type |-> type, size |-> size, tokens |-> tokens, inBlock |-> inBlock]
\* The bounds of a field of some bits, and what lies next to them.
Bounds(bits) == {-(2^bits), -(2^bits) + 1, -(2^(bits - 1)) - 1, -(2^(bits - 1)), 2^(bits - 1), 2^bits - 1, 2^bits}
Number(n) == Token("number", n)
Punctuation == {Token(p, 0) : p \in {"(", ")", ",", "+"}}
NumberLines ==
    {Literal(type, NoSize, <<Number(n)>>, inBlock) :
        type \in {"byte", "half", "word", "address"} \cup Variables, inBlock \in BOOLEAN,
        n \in {-1, 0, 1} \cup UNION {Bounds(b * ByteBits) : b \in 1..4}}
\* Names, alone and in front of an offset.
NamedAddresses ==
    {Literal("address", NoSize, tokens, inBlock) :
        inBlock \in BOOLEAN,
        tokens \in {<<Token("alias", n), Token("+", 0), Number(m)>> : n \in {-8, 0, 4660}, m \in {0, 16}}
                   \cup {<<Token("alias", n)>> : n \in {-8, 0, 9, 4660}}
                   \cup {<<Token("(", 0), Number(8), Token(")", 0)>>}}
ListLines ==
    {Literal("half", size, tokens, inBlock) :
        size \in {NoSize, Size(0), Size(1), Size(2), [Size(1) EXCEPT !.closed = FALSE]}, inBlock \in BOOLEAN,
        tokens \in SeqOf({Number(-1), Token("alias", 300)} \cup Punctuation, 4)}
StringLines ==
    {Literal("string", size, tokens, FALSE) :
        size \in {NoSize, Size(2)},
        tokens \in SeqOf({Token("quote", 0), Token("escape", 0), Token(",", 0), Token("(", 0)}, 6)}
    \cup {Literal("string", Size(2), <<Token("quote", 0), Token("escape", 0), Token("quote", 0), Token(",", 0), Token("quote", 0),
                                       Token(",", 0), Token("quote", 0), Token("quote", 0)>>, TRUE)}
\* Writes: what is behind the last @ is the address.
AddressLines ==
    LET Addressed(tokens) == tokens \o <<Token("@", 0), Number(2^20)>>
    IN  {Literal("string", NoSize, Addressed(tokens), FALSE) :
            tokens \in SeqOf({Token("quote", 0), Token("escape", 0), Token("@", 0), Token("(", 0)}, 6)}
        \cup {Literal("half", Size(2), Addressed(tokens), inBlock) :
            inBlock \in BOOLEAN, tokens \in SeqOf({Number(7), Token("@", 0)} \cup Punctuation, 3)}
FloatLines == {Literal(type, NoSize, <<Number(1)>>, TRUE) : type \in {"float", "double"}}
FloatPolicies == {{}, {"UnknownInstructions"}}

CaseOf(k, lines, policies) == [kind |-> k, lines |-> lines, policies |-> policies]
MCCases ==
    {CaseOf("instruction", MCCanonical, {Corrections}),
     CaseOf("instruction", UNION {OddLines(stem) : stem \in OddStems}
                           \cup CompareLines \cup SuffixLines \cup ShiftLines \cup NamedMoves
                           \cup LinesOf({"crandc", "crorc", "crmove", "crnot", "crclr", "crset", "eqv"}), MCPolicies),
     CaseOf("branch", MCBranches, BranchPolicies),
     CaseOf("directive", Directive, DirectivePolicies),
     CaseOf("data", NumberLines, SUBSET (DataSettings \ {"FloatingPointData", "ExpressionSyntax"})),
     CaseOf("data", ListLines \cup NamedAddresses, {{}, {"ExpressionSyntax"}, DataSettings}),
     CaseOf("data", StringLines \cup AddressLines, {DataSettings}),
     CaseOf("data", FloatLines, FloatPolicies)}
\* For `byte 256`, and for addresses.
MCNumberCases ==
    {CaseOf("data", {Literal("byte", NoSize, <<Number(2^ByteBits)>>, inBlock) : inBlock \in BOOLEAN}, {{}, {"ZeroExtendedData"}})}
MCAddressCases == {CaseOf("data", NamedAddresses, {{}, {"ExpressionSyntax"}})}
=============================================================================
