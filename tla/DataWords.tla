----------------------------- MODULE DataWords -----------------------------
(***************************************************************************)
(* encodeData, splitArgs and splitAddress (assembler/data.go, source.go):  *)
(* from the text behind a data type to bytes.  The text is a sequence of   *)
(* tokens; inside a string, each one is a character.  Bytes have ByteBits  *)
(* bits, so that words are within TLC's integers.  The values of float,    *)
(* double and scalar are not modelled.                                     *)
(***************************************************************************)
EXTENDS Integers, Sequences, SequencesExt

CONSTANT ByteBits  \* 8

ASSUME DataAssumption == ByteBits \in 7..31

\* What the configuration says of data, besides UnknownInstructions.
DataSettings ==
    {"PSATags", "PSAIndexRange", "RejectDataOverflow", "Unsigned32BitAliases", "ZeroExtendedData", "ExpressionSyntax",
     "FloatingPointData"}

\* A token: a number, the name of an alias (which has a number, too), an
\* operator, a delimiter, a quote or a backslash.
Token(p, n) == [p |-> p, n |-> n]
TokenKinds == {"number", "alias", "+", "(", ")", ",", "quote", "escape", "@"}
\* Its character, if it is within a string.
Character(t) ==
    CASE t.p = "quote" -> 34 [] t.p = "escape" -> 92 [] t.p = "(" -> 40 [] t.p = ")" -> 41 [] t.p = "," -> 44
      [] t.p = "+" -> 43 [] t.p = "@" -> 64 [] OTHER -> 49

Variables == {"ic_basic", "ic_bit", "ic_float", "la_basic", "la_bit", "la_float", "ra_basic", "ra_bit", "ra_float"}
DataWidth(type) ==
    CASE type \in {"byte", "string"} -> 1 [] type = "half" -> 2 [] type = "double" -> 8 [] OTHER -> 4
\* The size of an array; NoSize without brackets.
Size(n) == [given |-> TRUE, closed |-> TRUE, n |-> n]
NoSize == [Size(1) EXCEPT !.given = FALSE]

----------------------------------------------------------------------------
(* splitArgs *)

\* What has been read: the arguments, the last of which is open, and where the
\* next token is.
Splitting == [args |-> <<<<>>>>, depth |-> 0, quote |-> FALSE, escape |-> FALSE, ok |-> TRUE]
Extended(s, t) == [s EXCEPT !.args = [@ EXCEPT ![Len(@)] = Append(@, t)]]

SplitToken(s, t) ==
    LET next == Extended(s, t)
    IN  IF ~s.ok THEN s
        ELSE IF s.quote THEN
            CASE s.escape -> [next EXCEPT !.escape = FALSE]
              [] ~s.escape /\ t.p = "escape" -> [next EXCEPT !.escape = TRUE]
              [] ~s.escape /\ t.p = "quote" -> [next EXCEPT !.quote = FALSE]
              [] OTHER -> next
        ELSE CASE t.p = "quote" -> [next EXCEPT !.quote = TRUE]
               [] t.p = "(" -> [next EXCEPT !.depth = @ + 1]
               [] t.p = ")" -> [next EXCEPT !.depth = @ - 1, !.ok = s.depth > 0]
               [] t.p = "," /\ s.depth = 0 -> [s EXCEPT !.args = Append(@, <<>>)]
               [] OTHER -> next

Split(tokens) ==
    LET s == FoldLeft(SplitToken, Splitting, tokens)
    IN  IF tokens = <<>> THEN [ok |-> TRUE, args |-> <<>>]
        ELSE [ok |-> s.ok /\ s.depth = 0 /\ ~s.quote, args |-> s.args]

\* splitAddress: what is in front of the address of a write, an @ that no string
\* and no parentheses hide, and the address, which is one number here.
SplitAddress(tokens) ==
    LET Before(k) == FoldLeft(SplitToken, Splitting, SubSeq(tokens, 1, k - 1))
        found == {k \in DOMAIN tokens : tokens[k].p = "@" /\ ~Before(k).quote /\ Before(k).depth = 0}
        at == IF found = {} THEN Len(tokens) + 1 ELSE Min(found)
    IN  [content |-> SubSeq(tokens, 1, at - 1), addressed |-> found # {}, address |-> SubSeq(tokens, at + 1, Len(tokens))]

----------------------------------------------------------------------------
(* One argument *)

\* The lower bytes of a value, the highest one first.
BigEndian(v, bytes) == [k \in 1..bytes |-> (v \div 2^(ByteBits * (bytes - k))) % 2^ByteBits]

\* strconv.Unquote, of which the characters above need no more than this.
Unquoted(arg) ==
    LET inner == SubSeq(arg, 2, Len(arg) - 1)
        Protected(k) ==   \* by a backslash that is not protected itself
            LET From[j \in 0..Len(inner)] == j > 0 /\ inner[j].p = "escape" /\ (j = 1 \/ ~From[j - 1])
            IN  From[k - 1]
        kept == SelectSeq([k \in DOMAIN inner |-> k], LAMBDA k : inner[k].p # "escape" \/ Protected(k))
    IN  [ok |-> /\ Len(arg) >= 2 /\ arg[1].p = "quote" /\ Last(arg).p = "quote"
                /\ ~Protected(Len(inner) + 1)
                /\ \A k \in DOMAIN inner : (inner[k].p \in {"quote", "escape"} /\ Protected(k))
                                           \/ (inner[k].p # "quote" /\ ~Protected(k)),
         bytes |-> [k \in DOMAIN kept |-> Character(inner[kept[k]])] \o <<0>>]

\* EvalRules for an operand, EvalDataRules for a literal, of sums in at most one
\* pair of parentheses; Expressions has all of them.
Evaluated(arg, scope, on) ==
    LET grouped == Len(arg) > 2 /\ arg[1].p = "(" /\ Last(arg).p = ")"
        sum == IF grouped THEN SubSeq(arg, 2, Len(arg) - 1) ELSE arg
        Add(a, t) == a + t.n
    IN  [ok |-> /\ Len(sum) % 2 = 1
                /\ \A k \in DOMAIN sum : sum[k].p \in (IF k % 2 = 1 THEN {"number", "alias"} ELSE {"+"})
                /\ "ExpressionSyntax" \in on \/ (~grouped /\ (Len(sum) = 1 \/ scope = "operand")),
         v |-> FoldLeft(Add, 0, sum)]

\* The number that the decimal digits of a name's value are in hexadecimal.
AsHex(n) ==
    LET Digits[k \in Nat] == IF k < 10 THEN k ELSE 16 * Digits[k \div 10] + (k % 10)
    IN  Digits[n]

\* parseSourceAddress in its strict form, behind the replacement of a name
\* alone by its decimal value.  What begins with neither $ nor 0x is read as
\* hexadecimal; numbers are written with a $ here, so that this concerns names.
Address(arg, on) ==
    LET e == Evaluated(arg, "literal", on)
        named == Len(arg) = 1 /\ arg[1].p = "alias"
        v == IF named /\ arg[1].n >= 0 THEN AsHex(arg[1].n) ELSE e.v
    IN  [ok |-> /\ e.ok /\ arg[1].p # "("
                /\ arg[1].p = "number" \/ named => arg[1].n >= 0
                /\ v \in 0..(2^(4 * ByteBits) - 1),
         v |-> v]

Tag(type) ==
    (CASE type \in {"la_basic", "la_bit", "la_float"} -> 16 [] type \in {"ra_basic", "ra_bit", "ra_float"} -> 32
       [] OTHER -> 0)
    + (CASE type \in {"ic_bit", "la_bit", "ra_bit"} -> 2 [] type \in {"ic_float", "la_float", "ra_float"} -> 1
         [] OTHER -> 0)

Variable(type, v, inBlock, on) ==
    [ok |-> "PSAIndexRange" \in on => v \in 0..(2^(3 * ByteBits) - 1),
     v |-> (IF "PSATags" \in on \/ inBlock THEN Tag(type) * 2^(3 * ByteBits) ELSE 0) + (v % 2^(3 * ByteBits))]

\* Mutated form: the upper bound of a field is its size.
FitsAtMostSize(v, bits) == v \in -(2^(bits - 1))..(2^bits)
Fits(v, bits) == v \in -(2^(bits - 1))..(2^bits - 1)

Number32(type, v, on) ==
    LET word == 2^(4 * ByteBits)
        n == IF "Unsigned32BitAliases" \in on /\ DataWidth(type) < 4 /\ v \in (word \div 2)..(word - 1) THEN v - word ELSE v
    IN  [ok |-> IF "RejectDataOverflow" \in on THEN Fits(n, DataWidth(type) * ByteBits) ELSE v \in -(word - 1)..(word - 1),
         v |-> n]

\* Byte and half in a block have a word each.
InSlots(d) == d.inBlock /\ ~d.size.given /\ DataWidth(d.type) < 4

DataBytes(d, arg, on) ==
    LET e == IF d.type = "address" THEN Address(arg, on)
             ELSE Evaluated(arg, IF d.inBlock /\ ~d.size.given THEN "operand" ELSE "literal", on)
        n == IF d.type \in Variables THEN Variable(d.type, e.v, d.inBlock, on) ELSE Number32(d.type, e.v, on)
        v == IF InSlots(d) /\ "ZeroExtendedData" \in on THEN n.v % 2^(DataWidth(d.type) * ByteBits) ELSE n.v
    IN  IF d.type = "string" THEN Unquoted(arg)
        ELSE [ok |-> e.ok /\ n.ok, bytes |-> BigEndian(v, IF InSlots(d) THEN 4 ELSE DataWidth(d.type))]

\* A literal: its type, the size in brackets, and the tokens behind it.
EncodeData(d, on) ==
    LET parts == SplitAddress(d.tokens)
        split == Split(parts.content)
        args == IF d.size.given /\ split.args # <<>> /\ Last(split.args) = <<>> THEN Front(split.args) ELSE split.args
        each == [k \in DOMAIN args |-> DataBytes(d, args[k], on)]
        wide == d.type \in {"string", "double"}
        rejected == parts.addressed /\ (d.inBlock \/ Len(parts.address) # 1 \/ parts.address[1].p # "number")
    IN  IF d.inBlock /\ d.type \in {"float", "double"} /\ "FloatingPointData" \notin on /\ ~rejected
        THEN [ok |-> "UnknownInstructions" \notin on, wide |-> FALSE,
              bytes |-> IF d.type = "float" THEN <<2^ByteBits - 4, 0, 0, 0>> ELSE [k \in 1..4 |-> 2^ByteBits - 1]]
        ELSE [ok |-> /\ ~rejected
                     /\ d.size.closed /\ d.size.n \in 1..2^20
                     /\ split.ok /\ Len(args) = d.size.n
                     /\ \A k \in DOMAIN each : each[k].ok,
              wide |-> wide, bytes |-> FlattenSeq([k \in DOMAIN each |-> each[k].bytes])]
=============================================================================
