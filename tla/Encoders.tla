------------------------------ MODULE Encoders ------------------------------
(***************************************************************************)
(* The encoders of a line that becomes words: ppc.Encode for instructions  *)
(* and branches, encodeDirectivePolicy, and encodeData.  One line is       *)
(* encoded, under some corrections and settings; the properties compare    *)
(* its words with those of other lines, with those under other             *)
(* corrections, with what a processor does for them, and with the source.  *)
(***************************************************************************)
EXTENDS BranchWords, DirectiveWords, DataWords

CONSTANTS
    Cases,    \* bounds: lines, and the corrections and settings they are encoded under
    Canonical \* the instructions of which no two are spellings of the same one

ASSUME EncodersAssumption ==
    /\ \A c \in Cases : \A on \in c.policies : on \subseteq Corrections \cup Settings \cup DirectiveCorrections \cup DataSettings
    /\ \A c \in Cases : c.kind \in {"instruction", "branch", "directive", "data"}

VARIABLES
    kind, line,
    policy,   \* the corrections and settings
    outcome   \* of the encoder, or Pending

vars == <<kind, line, policy, outcome>>

Pending == [ok |-> FALSE, pending |-> TRUE]
Encodes == outcome # Pending /\ outcome.ok

Init ==
    /\ \E c \in Cases : kind = c.kind /\ line \in c.lines /\ policy \in c.policies
    /\ outcome = Pending

Instruction ==
    /\ outcome = Pending /\ kind = "instruction"
    /\ outcome' = EncodeInstruction(line, policy)
    /\ UNCHANGED <<kind, line, policy>>

BranchInstruction ==
    /\ outcome = Pending /\ kind = "branch"
    /\ outcome' = EncodeBranch(line, policy)
    /\ UNCHANGED <<kind, line, policy>>

DirectiveLine ==
    /\ outcome = Pending /\ kind = "directive"
    /\ outcome' = EncodeDirective(line, policy)
    /\ UNCHANGED <<kind, line, policy>>

DataLiteral ==
    /\ outcome = Pending /\ kind = "data"
    /\ outcome' = EncodeData(line, policy)
    /\ UNCHANGED <<kind, line, policy>>

Next == Instruction \/ BranchInstruction \/ DirectiveLine \/ DataLiteral

Spec == Init /\ [][Next]_vars

----------------------------------------------------------------------------
(* No two lines have the same words *)

\* What equal words have in common, to look for them.
Opcode(w) == <<w.op, w.low % 2^11>>
CanonicalWords ==
    LET Results == {[line |-> i, result |-> EncodeInstruction(i, Corrections)] : i \in Canonical}
        Entry(i, w) == [line |-> i, word |-> w, opcode |-> Opcode(w)]
    IN  {Entry(r.line, r.result.word) : r \in {q \in Results : q.result.ok}}
\* Two instructions with the same word are the same, and so are two directives:
\* no field overlaps another one, or the opcode, in a way that could make one
\* line pass for another.
EncodingsDiffer ==
    /\ kind = "instruction" /\ Encodes /\ policy = Corrections =>
           LET opcode == Opcode(outcome.word)
           IN  \A c \in CanonicalWords :
                   c.opcode = opcode /\ c.word = outcome.word /\ c.line # line => line \notin Canonical
    /\ kind = "directive" /\ Encodes /\ "GRIndex" \in policy /\ ~Dropped(line, policy) =>
           \A d \in Directive :
               /\ Word(d) = outcome.word
               /\ outcome.second.what = "" \/ Second(d) = outcome.second
               => d = line

----------------------------------------------------------------------------
(* Corrections *)

\* Corrections that make no difference to an instruction one by one make none
\* together: no correction takes over another one's part.
CorrectionsAreIndependent ==
    kind = "instruction" /\ Encodes =>
        LET quiet(Without) == {f \in Corrections \ policy : Without[{f}] = Without[{}]}
            Independent(Without) ==
                Without[{}].ok /\ Cardinality(quiet(Without)) > 1 => Without[quiet(Without)] = Without[{}]
        IN  Independent([off \in SUBSET (Corrections \ policy) |-> EncodeInstruction(line, (policy \cup Corrections) \ off)])

----------------------------------------------------------------------------
(* What words mean to a processor *)

XO(w) == (w.low \div 2) % 2^10
\* The words of a 64-bit processor, by primary and extended opcode.
IsWide(w) ==
    \/ w.op \in {2, 58, 62}
    \/ w.op = 31 /\ XO(w) \in {9, 21, 27, 53, 58, 68, 73, 149, 181, 233, 341, 373, 457, 489, 539, 794, 986}
    \/ w.op = 63 /\ XO(w) \in {22, 814, 815, 846}
    \/ w.op = 59 /\ XO(w) % 32 \in {22, 23, 26}
    \/ (w.op \in {10, 11} \/ (w.op = 31 /\ XO(w) \in {0, 32})) /\ FieldAt(w, 21, 1) = 1

\* Without non_console_instructions, a line that asks for an instruction of
\* another processor is rejected, whatever the corrections make of it, and no
\* other line becomes one.
TargetIgnoresCorrections ==
    kind = "instruction" /\ Encodes /\ "NonConsole" \notin policy =>
        LET Allowed(asked) == asked.ok => ~IsWide(asked.word)
        IN  /\ Allowed(EncodeInstruction(line, policy \cup Corrections \cup {"NonConsole"}))
            /\ {"OperandRanges", "OverflowSuffix"} \subseteq policy => ~IsWide(outcome.word)

\* The bits of the source that a rotate with a mask puts into its result; -1 is
\* a zero.
InMask(k, mb, me) == IF mb <= me THEN k \in mb..me ELSE k >= mb \/ k <= me
Rotated(w) ==
    [k \in 0..31 |-> IF InMask(k, FieldAt(w, 6, 5), FieldAt(w, 1, 5)) THEN (k + FieldAt(w, 11, 5)) % 32 ELSE -1]
ShiftedBits(stem, n) ==
    [k \in 0..31 |->
        CASE stem = "slwi" -> IF k + n < 32 THEN k + n ELSE -1
          [] stem = "srwi" -> IF k >= n THEN k - n ELSE -1
          [] stem = "clrlwi" -> IF k >= n THEN k ELSE -1
          [] stem = "clrrwi" -> IF k < 32 - n THEN k ELSE -1
          [] stem = "rotlwi" -> (k + n) % 32]

\* Which bits of the condition register a word reads, and its truth table: the
\* upper bits of the extended opcode.
TruthBit(w, a, b) == FieldAt(w, IF a /\ b THEN 9 ELSE IF a THEN 8 ELSE IF b THEN 7 ELSE 6, 1) = 1
Logic(stem, a, b) ==
    CASE stem = "crand" -> a /\ b [] stem = "cror" -> a \/ b [] stem = "crxor" -> a # b
      [] stem = "crnand" -> ~(a /\ b) [] stem = "crnor" -> ~(a \/ b) [] stem = "creqv" -> a = b
      [] stem = "crandc" -> a /\ ~b [] stem = "crorc" -> a \/ ~b
      [] stem = "crmove" -> a [] stem = "crnot" -> ~a [] stem = "crclr" -> FALSE [] stem = "crset" -> TRUE

\* A shift, a rotate or an operation on bits of the condition register does
\* what its name says, for every distance and every value of the bits.
WordsDoWhatTheirNamesSay ==
    kind = "instruction" /\ Encodes /\ Corrections \subseteq policy /\ ~line.o =>
        LET w == outcome.word
            n == line.args[3].n
        IN  /\ line.stem \in Shifts => Rotated(w) = ShiftedBits(line.stem, n)
            /\ line.stem \in DOMAIN ConditionLogic \ {"mcrf"} =>
                   \A a, b \in BOOLEAN : (RA(w) = RB(w) => a = b) => TruthBit(w, a, b) = Logic(line.stem, a, b)

\* What a conditional branch tests: CTR against zero, and a bit of the condition
\* register; and its displacement.
Tests(w) ==
    LET bo == RT(w)
        toCtr == w.op = 19 /\ XO(w) = 528
    IN  [ctr |-> IF BitOf(bo, 2) = 1 THEN "any" ELSE IF BitOf(bo, 1) = 1 THEN "zero" ELSE "nonzero",
         bit |-> IF BitOf(bo, 4) = 1 THEN -1 ELSE RA(w),
         sense |-> BitOf(bo, 4) = 1 \/ BitOf(bo, 3) = 1,
         to |-> IF w.op = 16 THEN "" ELSE IF toCtr THEN "ctr" ELSE "lr"]
Displacement(w) == LET d == (w.low % 2^16) - (w.low % 4) IN IF d >= 2^15 THEN d - 2^16 ELSE d

\* What its name and operands ask for.
CrBits == [lt |-> 0, gt |-> 1, eq |-> 2, so |-> 3]
Asked(b) ==
    LET cr == IF b.args # <<>> /\ b.args[1].p = "cr" THEN b.args[1].n ELSE 0
        Test(name, sense) == [ctr |-> "any", bit |-> 4 * cr + CrBits[name], sense |-> sense, to |-> b.to]
        Count(ctr) == [ctr |-> ctr, bit |-> -1, sense |-> TRUE, to |-> b.to]
    IN  CASE b.stem = "beq" -> Test("eq", TRUE) [] b.stem = "bne" -> Test("eq", FALSE)
          [] b.stem = "blt" -> Test("lt", TRUE) [] b.stem = "bge" -> Test("lt", FALSE)
          [] b.stem = "bgt" -> Test("gt", TRUE) [] b.stem = "ble" -> Test("gt", FALSE)
          [] b.stem = "bso" -> Test("so", TRUE) [] b.stem = "bns" -> Test("so", FALSE)
          [] b.stem = "bdnz" -> Count("nonzero") [] b.stem = "bdz" -> Count("zero")
          [] b.stem = "always" -> Count("any")

\* A processor takes backward branches to be taken, unless the lowest bit of BO
\* turns its prediction round.
Predicted(w) == (w.op = 16 /\ Displacement(w) < 0) # (BitOf(RT(w), 0) = 1)

\* A conditional branch tests what its name says, goes where its operand says,
\* and is predicted as its hint says under both conventions for hints.
BranchesTestTheirCondition ==
    kind = "branch" /\ Encodes /\ Corrections \subseteq policy /\ line.stem \notin {"b", "bc"} =>
        LET w == outcome.word
        IN  /\ Tests(w) = Asked(line)
            /\ line.to = "" => Displacement(w) = Last(line.args).n
            /\ (w.low % 2 = 1) = line.link
            /\ line.hint # "" => Predicted(w) = (line.hint = "+")

----------------------------------------------------------------------------
(* What data holds *)

\* The values between the commas of a list; and the characters of a list of
\* strings, each of which ends in a zero.
Listed(tokens) ==
    LET Add(vs, t) == IF t.p = "," THEN Append(vs, 0) ELSE [vs EXCEPT ![Len(vs)] = @ + t.n]
        list == {k \in DOMAIN tokens : \A j \in 1..k : tokens[j].p # "@"}
    IN  FoldLeft(Add, <<0>>, SubSeq(tokens, 1, Cardinality(list)))
Characters(tokens) ==
    LET Start == [bytes |-> <<>>, within |-> FALSE, protected |-> FALSE]
        Read(s, t) ==
            CASE ~s.within -> [s EXCEPT !.within = t.p = "quote"]
              [] s.within /\ ~s.protected /\ t.p = "escape" -> [s EXCEPT !.protected = TRUE]
              [] s.within /\ ~s.protected /\ t.p = "quote" -> [s EXCEPT !.within = FALSE, !.bytes = Append(@, 0)]
              [] OTHER -> [s EXCEPT !.protected = FALSE, !.bytes = Append(@, Character(t))]
    IN  FoldLeft(Read, Start, tokens).bytes

\* The bytes of the value at k, as one number.
Place == IF InSlots(line) THEN 4 ELSE DataWidth(line.type)
ReadBack(k) ==
    FoldLeft(LAMBDA n, byte : n * 2^ByteBits + byte, 0, SubSeq(outcome.bytes, Place * (k - 1) + 1, Place * k))

\* A number has its lower bytes in the place of one value. The slot of a byte or
\* half has the sign above them, or zeros; what a slot has above a number that is
\* too large, and is not rejected, is the question of OverflowIsTruncated.
ByteRange == 2^(DataWidth(line.type) * ByteBits)
HoldsNumber(read, v) ==
    LET word == 2^(4 * ByteBits)
        meant == {v} \cup (IF "Unsigned32BitAliases" \in policy THEN {v - word} ELSE {})
        fits == \E x \in meant : x \in -(ByteRange \div 2)..(ByteRange - 1)
    IN  /\ read % ByteRange = v % ByteRange
        /\ "RejectDataOverflow" \in policy => fits
        /\ InSlots(line) => IF "ZeroExtendedData" \in policy THEN read = v % ByteRange ELSE fits => read = v % word
\* The index of a variable in three bytes, below its tag.
HoldsVariable(read, v) ==
    LET size == 2^(3 * ByteBits)
    IN  /\ read % size = v % size
        /\ "PSAIndexRange" \in policy => read % size = v
        /\ "PSATags" \in policy => read \div size = Tag(line.type)

\* An address that is a name and nothing else, which AddressNamesAreValues is about.
IsNamedAddress == line.type = "address" /\ Len(line.tokens) = 1 /\ line.tokens[1].p = "alias"

\* Data is as long as its list, and each value is read back from its own place:
\* no value runs into the next one, a value that fits its type is not changed by
\* the place it has, a check of the range lets no other one through, and a string
\* has the characters of its source.
DataHoldsItsValues ==
    kind = "data" /\ Encodes /\ line.type \notin {"float", "double"} =>
        LET values == Listed(line.tokens)
        IN  IF line.type = "string" THEN outcome.bytes = Characters(line.tokens)
            ELSE /\ Len(outcome.bytes) = Place * line.size.n
                 /\ \A k \in 1..line.size.n :
                        IF line.type \in Variables THEN HoldsVariable(ReadBack(k), values[k])
                        ELSE IsNamedAddress \/ HoldsNumber(ReadBack(k), values[k])

----------------------------------------------------------------------------
(* What the documentation says, and the code does not do *)

\* Without a check of its range, a number that is too large for its type is cut off
\* to the width of the type, with a sign or with zeros above it in a slot.
\* CONFIGURATION.md: "False preserves declared-width truncation, including `byte
\* 256` becoming zero."
OverflowIsTruncated ==
    kind = "data" /\ Encodes /\ line.type \in {"byte", "half"} /\ line.size = NoSize
    /\ "RejectDataOverflow" \notin policy =>
        LET v == line.tokens[1].n
            cut == v % ByteRange
        IN  v \notin -(ByteRange \div 2)..(ByteRange - 1) =>
                ReadBack(1) \in {cut} \cup (IF InSlots(line) /\ cut >= ByteRange \div 2
                                           THEN {2^(4 * ByteBits) - ByteRange + cut} ELSE {})

\* A name in data stands for its value, in an address like anywhere else.
\* CONFIGURATION.md: "False retains [...] literals/named constants in standalone
\* data and arrays".
AddressNamesAreValues ==
    kind = "data" /\ Encodes /\ IsNamedAddress => ReadBack(1) = line.tokens[1].n
=============================================================================
