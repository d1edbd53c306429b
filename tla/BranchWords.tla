---------------------------- MODULE BranchWords ----------------------------
(***************************************************************************)
(* encoder.branch of internal/ppc/branch.go: the words of branches, with   *)
(* their conditions and hints.  How a target is found is BlockLayout's     *)
(* part; here it is a number, or the displacement of a label.              *)
(***************************************************************************)
EXTENDS Instructions

\* BO and the bit of the condition field.
Conditions ==
    [bdnz |-> <<16, 0>>, bdz |-> <<18, 0>>, beq |-> <<12, 2>>, bne |-> <<4, 2>>, blt |-> <<12, 0>>, bge |-> <<4, 0>>,
     bgt |-> <<12, 1>>, ble |-> <<4, 1>>, bso |-> <<12, 3>>, bns |-> <<4, 3>>, always |-> <<20, 0>>]

\* A branch: b, a condition, or bc with BO and BI as its first operands; to a
\* target ("") or to a register ("lr" or "ctr"); "always" only to a register.
Branch(stem, to, link, absolute, hint, args) ==
    [stem |-> stem, to |-> to, link |-> link, absolute |-> absolute, hint |-> hint, args |-> args]

BitOf(n, k) == (n \div 2^k) % 2
SetLowest(n) == n + 1 - (n % 2)
FlipLowest(n) == n + 1 - 2 * (n % 2)

Target32(arg, absolute, bits, on) ==
    Field(/\ arg.p = "" \/ (arg.p = "label" /\ ~absolute)
          /\ "BranchRanges" \in on => arg.n % 4 = 0 /\ arg.n \in -(2^(bits - 1))..(2^(bits - 1) - 1),
          (4 * (arg.n \div 4)) % 2^bits, 0)
Flags32(b) == Word32(0, (IF b.link THEN 1 ELSE 0) + (IF b.absolute THEN 2 ELSE 0))

EncodeB(b, on) ==
    LET target == Target32(b.args[1], b.absolute, 26, on)
    IN  IF b.hint # "" \/ ~CountFits(b.args, 1, on) THEN Failed
        ELSE Checked(<<target>>, Word32(18, 0) || Union32(<<target>>) || Flags32(b))

\* Mutated form: a hint means the same for backward branches.
HintedForward(bo, hint, backward, on) == IF hint = "+" THEN SetLowest(bo) ELSE bo

\* The prediction bit of BO. The legacy convention sets it for "+" and flips it
\* for backward branches; the other one sets it for "+" forward and "-" backward.
Hinted(bo, hint, backward, on) ==
    LET plus == IF "BranchPrediction" \in on \/ "BranchHints" \notin on THEN SetLowest(bo) ELSE bo + 1
        legacy == IF hint = "+" THEN plus ELSE bo
    IN  IF "BranchHints" \in on THEN (IF backward THEN FlipLowest(legacy) ELSE legacy)
        ELSE IF hint = (IF backward THEN "-" ELSE "+") THEN plus ELSE bo

EncodeConditional(b, on) ==
    LET explicit == b.stem = "bc"
        indirect == b.to # ""
        given == IF explicit THEN 2
                 ELSE IF /\ BitOf(Conditions[b.stem][1], 4) = 0
                         /\ Len(b.args) = (IF indirect THEN 1 ELSE 2) THEN 1 ELSE 0
        rest == SubSeq(b.args, given + 1, Len(b.args))
        bo == IF explicit THEN Operand(b.args[1], "i5", 21, on) ELSE Field(TRUE, Conditions[b.stem][1], 21)
        bi == IF explicit THEN Operand(b.args[2], "b", 16, on)
              ELSE IF given = 0 THEN Field(TRUE, Conditions[b.stem][2], 16)
              ELSE LET cr == Operand(b.args[1], "c", 16, on) IN [cr EXCEPT !.n = Conditions[b.stem][2] + 4 * @]
        target == IF indirect THEN Field(TRUE, 0, 0) ELSE Target32(rest[1], b.absolute, 16, on)
        hinted == Field(bo.ok, Hinted(bo.n, b.hint, ~indirect /\ rest[1].n < 0, on), 21)
        base == CASE b.to = "" -> Word32(16, 0) [] b.to = "lr" -> Word32(19, 32) [] b.to = "ctr" -> Word32(19, 1056)
    IN  IF \/ explicit /\ Len(b.args) < 2
           \/ "RegisterRelationships" \in on /\ b.to = "ctr" /\ BitOf(bo.n, 2) = 0
           \/ ~CountFits(rest, IF indirect THEN 0 ELSE 1, on)
        THEN Failed
        ELSE Checked(<<hinted, bi, target>>, base || Union32(<<hinted, bi, target>>) || Flags32(b))

EncodeKnownBranch(b, on) == IF b.stem = "b" THEN EncodeB(b, on) ELSE EncodeConditional(b, on)

\* Without additional_console_instructions, the reference takes bso and bns for b.
EncodeBranch(b, on) ==
    IF "AdditionalConsole" \in on \/ b.stem \notin {"bso", "bns"} THEN EncodeKnownBranch(b, on)
    ELSE IF "UnknownInstructions" \in on THEN Failed
    ELSE EncodeB([b EXCEPT !.link = FALSE, !.absolute = FALSE, !.hint = ""], on)
=============================================================================
