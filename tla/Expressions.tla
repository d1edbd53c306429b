---------------------------- MODULE Expressions ----------------------------
(***************************************************************************)
(* Integer expressions (internal/expr): the precedence-climbing parser     *)
(* that evaluates while it reads, the syntax check in front of it, and the *)
(* accumulators of the C++ assembler's alias parser.  A source is a list   *)
(* of tokens; arithmetic has the width of the code's integers, scaled down *)
(* (WordBits for 32, IntBits for 64), and TLC compares the results with    *)
(* those of a reference grammar.                                           *)
(***************************************************************************)
EXTENDS Integers, Sequences, FiniteSets, SequencesExt, Bitwise

CONSTANTS
    Numeral,   \* the value of each numeral
    Operators, \* the other tokens
    WordBits,  \* 32
    IntBits,   \* 64
    MaxDepth,  \* 128
    Cases      \* bounds: the tokens of a source, how many of them, and under
               \* which entry points and rules it is evaluated

Numerals == DOMAIN Numeral
Tokens == Numerals \cup Operators

\* Which function evaluates, and under which rules.
Selection == [scope : {"operand", "alias", "literal", "legacy"}, extended : BOOLEAN,
           leftToRight : BOOLEAN, unsigned32 : BOOLEAN]

ASSUME ExpressionsAssumption ==
    /\ WordBits \in Nat \ {0} /\ IntBits \in Nat /\ IntBits >= 2 * WordBits
    /\ \A n \in Numerals : Numeral[n] \in 0..(2^IntBits - 1)
    /\ Operators \subseteq {"+", "-", "*", "/", "%", "&", "|", "^", "~", "<<", ">>", "(", ")"}
    /\ MaxDepth \in Nat
    /\ \A c \in Cases : c.tokens \subseteq Tokens /\ c.length \in Nat /\ c.selections \subseteq Selection

VARIABLES
    source, selection,
    result         \* what the entry point returns, or Pending

vars == <<source, selection, result>>

----------------------------------------------------------------------------
(* Arithmetic *)

\* A result: its value, or why there is none.
Value(v) == [v |-> v, err |-> ""]
Error(why) == [v |-> 0, err |-> why]
Pending == Error("pending")
Ok(r) == r.err = ""

\* int64, its bits, and uint32.
Signed(v) == LET u == v % 2^IntBits IN IF u >= 2^(IntBits - 1) THEN u - 2^IntBits ELSE u
Bits(v) == v % 2^IntBits
Word(v) == v % 2^WordBits

Abs(v) == IF v < 0 THEN -v ELSE v
\* Go's division, which truncates.
Quotient(a, b) ==
    LET q == Abs(a) \div Abs(b) IN IF (a < 0) = (b < 0) THEN q ELSE -q

\* One binary operation. unsigned32 narrows the operands and the result.
Narrow(v, unsigned32) == IF unsigned32 THEN Word(v) ELSE v
Operate(op, a, b, unsigned32) ==
    LET limit == IF unsigned32 THEN WordBits - 1 ELSE IntBits - 1
        Result(v) == Value(Narrow(Signed(v), unsigned32))
    IN  CASE op = "+" -> Result(a + b)
          [] op = "-" -> Result(a - b)
          [] op = "*" -> Result(a * b)
          [] op = "/" -> IF b = 0 THEN Error("zero") ELSE Result(Quotient(a, b))
          [] op = "%" -> IF b = 0 THEN Error("zero") ELSE Result(a - b * Quotient(a, b))
          [] op = "&" -> Result(Bits(a) & Bits(b))
          [] op = "|" -> Result(Bits(a) | Bits(b))
          [] op = "^" -> Result(Bits(a) ^^ Bits(b))
          [] op = "<<" -> IF b \in 0..limit THEN Result(a * 2^b) ELSE Error("shift")
          [] op = ">>" -> IF b \in 0..limit THEN Result(a \div 2^b) ELSE Error("shift")

Binary == {"+", "-", "*", "/", "%", "&", "|", "^", "<<", ">>"}
Level(op) ==
    CASE op = "|" -> 1 [] op = "^" -> 2 [] op = "&" -> 3 [] op \in {"<<", ">>"} -> 4
      [] op \in {"+", "-"} -> 5 [] op \in {"*", "/", "%"} -> 6 [] OTHER -> 0

\* The precedence map; left to right, all operators have level one.
Precedence(op, leftToRight) ==
    IF leftToRight /\ op \in Binary THEN 1 ELSE Level(op)

Negated(sign, v, unsigned32) ==
    Narrow(CASE sign = "+" -> v [] sign = "-" -> Signed(-v) [] sign = "~" -> -v - 1,
           unsigned32)

----------------------------------------------------------------------------
(* parse and atom: a result, and the place of the token behind it *)

At(r, i) == [v |-> r.v, err |-> r.err, i |-> i]

RECURSIVE Parse(_, _, _, _, _)
RECURSIVE Atom(_, _, _, _)
RECURSIVE Climb(_, _, _, _, _, _)

\* A numeral; one of more than 32 bits is an error in an alias.
Number(s, i, rules) ==
    IF s[i] \notin Numerals THEN At(Error("syntax"), i)
    ELSE IF rules.unsigned32 /\ Numeral[s[i]] >= 2^WordBits THEN At(Error("range"), i)
    ELSE At(Value(Signed(Numeral[s[i]])), i + 1)

Atom(s, i, depth, rules) ==
    IF depth > MaxDepth THEN At(Error("depth"), i)
    ELSE IF i > Len(s) THEN At(Error("syntax"), i)
    ELSE IF s[i] \in {"+", "-", "~"} THEN
        LET r == Atom(s, i + 1, depth + 1, rules)
        IN  IF Ok(r) THEN [r EXCEPT !.v = Negated(s[i], r.v, rules.unsigned32)] ELSE r
    ELSE IF s[i] = "(" THEN
        LET r == Parse(s, i + 1, 1, depth + 1, rules)
        IN  IF ~Ok(r) THEN r
            ELSE IF r.i > Len(s) \/ s[r.i] # ")" THEN At(Error("syntax"), r.i)
            ELSE [r EXCEPT !.i = @ + 1]
    ELSE Number(s, i, rules)

\* Mutated form: an operator takes everything of its level on its right, too.
ClimbToTheRight(s, lhs, i, min, depth, rules) ==
    LET level == IF i > Len(s) THEN 0 ELSE Precedence(s[i], rules.leftToRight)
    IN  IF level < min THEN At(Value(lhs), i)
        ELSE LET rhs == Parse(s, i + 1, level, depth + 1, rules)
                 r == Operate(s[i], lhs, rhs.v, rules.unsigned32)
             IN  IF ~Ok(rhs) THEN rhs ELSE IF ~Ok(r) THEN At(r, rhs.i)
                 ELSE Climb(s, r.v, rhs.i, min, depth, rules)

\* The loop of parse, from the left operand on.
Climb(s, lhs, i, min, depth, rules) ==
    LET level == IF i > Len(s) THEN 0 ELSE Precedence(s[i], rules.leftToRight)
    IN  IF level < min THEN At(Value(lhs), i)
        ELSE LET rhs == Parse(s, i + 1, level + 1, depth + 1, rules)
                 r == Operate(s[i], lhs, rhs.v, rules.unsigned32)
             IN  IF ~Ok(rhs) THEN rhs ELSE IF ~Ok(r) THEN At(r, rhs.i)
                 ELSE Climb(s, r.v, rhs.i, min, depth, rules)

Parse(s, i, min, depth, rules) ==
    IF depth > MaxDepth THEN At(Error("depth"), i)
    ELSE LET lhs == Atom(s, i, depth + 1, rules)
         IN  IF Ok(lhs) THEN Climb(s, lhs.v, lhs.i, min, depth, rules) ELSE lhs

Evaluate(s, rules) ==
    LET r == Parse(s, 1, 1, 0, rules)
    IN  IF Ok(r) /\ r.i # Len(s) + 1 THEN Error("syntax") ELSE [v |-> r.v, err |-> r.err]

----------------------------------------------------------------------------
(* checkSyntax: what is accepted without the extension *)

StartsOperand(s, i) == i = 1 \/ s[i - 1] \in Operators

\* Mutated form: operands take every operator that needs no parenthesis.
AcceptsOperators(s, scope) ==
    /\ ToSet(s) \cap {"(", ")", "<<", ">>", "~"} = {}
    /\ \A i \in DOMAIN s : s[i] \in Operators =>
           \/ StartsOperand(s, i) /\ s[i] \in {"+", "-"} /\ scope # "alias"
           \/ scope \in {"alias", "operand"}

Accepts(s, scope) ==
    /\ ToSet(s) \cap {"(", ")", "<<", ">>", "~"} = {}
    /\ \A i \in DOMAIN s : s[i] \in Operators =>
           \/ StartsOperand(s, i) /\ s[i] \in {"+", "-"} /\ scope # "alias"
           \/ scope = "alias"
           \/ scope = "operand" /\ s[i] = "+"

----------------------------------------------------------------------------
(* legacyAlias *)

\* The characters between two operators, which may be none, count as a token.
LegacyTokens(s) ==
    LET Add(ts, t) == ts \o (IF t \in Operators /\ (ts = <<>> \/ Last(ts) \in Operators)
                             THEN <<"", t>> ELSE <<t>>)
        ts == FoldLeft(Add, <<>>, s)
    IN  IF ts = <<>> \/ Last(ts) \in Operators THEN Append(ts, "") ELSE ts

LegacyNumber(t, rules) ==
    IF t \notin Numerals THEN Error("syntax")
    ELSE IF rules.unsigned32 /\ Numeral[t] >= 2^WordBits THEN Error("range")
    ELSE Value(Signed(Numeral[t]))

\* The accumulators, and the tokens the first one is made of.
RECURSIVE Accumulate(_, _, _, _, _)

\* "+" and "-" update the current accumulator, and their operand starts another.
Accumulate(ts, i, values, first, rules) ==
    IF i > Len(ts) THEN [values |-> values, first |-> first, err |-> ""]
    ELSE IF ts[i] \in Binary THEN
        LET rhs == LegacyNumber(ts[i + 1], rules)
            r == Operate(ts[i], Last(values), rhs.v, rules.unsigned32)
            more == IF Len(values) = 1 THEN first \o <<ts[i], ts[i + 1]>> ELSE first
        IN  IF ~Ok(rhs) \/ ~Ok(r) THEN [values |-> values, first |-> first, err |-> "error"]
            ELSE Accumulate(ts, IF ts[i] \in {"+", "-"} THEN i + 1 ELSE i + 2,
                            Append(Front(values), r.v), more, rules)
    ELSE
        LET r == LegacyNumber(ts[i], rules)
        IN  IF ~Ok(r) THEN [values |-> values, first |-> first, err |-> "error"]
            ELSE Accumulate(ts, i + 1, Append(values, r.v),
                            IF values = <<>> THEN <<ts[i]>> ELSE first, rules)

LegacyAlias(s, rules) ==
    LET r == Accumulate(LegacyTokens(s), 1, <<>>, <<>>, rules)
    IN  IF r.err # "" THEN Error("syntax")
        ELSE IF rules.leftToRight THEN Value(Head(r.values))
        ELSE Evaluate(r.first, rules)

----------------------------------------------------------------------------

\* EvalRules, EvalDataRules, AliasRules with and without alias_terms.
Entry(s, c) ==
    IF c.scope = "legacy" THEN LegacyAlias(s, c)
    ELSE IF ~c.extended /\ ~Accepts(s, c.scope) THEN Error("extension")
    ELSE Evaluate(s, IF c.scope = "alias" THEN c ELSE [c EXCEPT !.unsigned32 = FALSE])

\* The sources the alias parser of the C++ assembler splits like the other one.
LegacySource(s) ==
    /\ ToSet(s) \cap {"(", ")", "<<", ">>"} = {}
    /\ \A i \in 1..(Len(s) - 1) : {s[i], s[i + 1]} \cap Operators # {}

Init ==
    /\ \E c \in Cases : \E n \in 1..c.length :
           source \in [1..n -> c.tokens] /\ selection \in c.selections
    /\ selection.scope = "legacy" => LegacySource(source)
    /\ result = Pending

EvaluateSource ==
    /\ result = Pending
    /\ result' = Entry(source, selection)
    /\ UNCHANGED <<source, selection>>

Next == EvaluateSource

Spec == Init /\ [][Next]_vars

----------------------------------------------------------------------------
(* The reference grammar *)

OpenAt(s, i) == Cardinality({k \in 1..(i - 1) : s[k] = "("})
                - Cardinality({k \in 1..(i - 1) : s[k] = ")"})

\* The binary operators of s outside of parentheses: they follow an operand.
TopLevel(s) == {i \in 2..Len(s) : /\ s[i] \in Binary
                                  /\ s[i - 1] \in Numerals \cup {")"}
                                  /\ OpenAt(s, i) = 0}

\* Unsigned values modulo 2^WordBits, or signed ones modulo 2^IntBits.
Canonical(v, unsigned32) == IF unsigned32 THEN Word(v) ELSE Signed(v)

\* An expression is split at the last of its weakest operators; without one it
\* is a sign and an operand, an expression in parentheses, or a numeral.
RECURSIVE Meaning(_, _)
Meaning(s, rules) ==
    LET ops == TopLevel(s)
        level(i) == IF rules.leftToRight THEN 1 ELSE Level(s[i])
        split == CHOOSE i \in ops : \A k \in ops :
                     level(i) < level(k) \/ (level(i) = level(k) /\ k <= i)
        left == Meaning(SubSeq(s, 1, split - 1), rules)
        right == Meaning(SubSeq(s, split + 1, Len(s)), rules)
        inner == Meaning(SubSeq(s, 2, Len(s)), rules)
    IN  IF s = <<>> THEN Error("syntax")
        ELSE IF ops # {} THEN
            IF ~Ok(left) THEN left ELSE IF ~Ok(right) THEN right
            ELSE Operate(s[split], left.v, right.v, rules.unsigned32)
        ELSE IF s[1] \in {"+", "-", "~"} THEN
            IF ~Ok(inner) THEN inner
            ELSE Value(Canonical(CASE s[1] = "+" -> inner.v [] s[1] = "-" -> -inner.v
                                   [] s[1] = "~" -> -1 - inner.v, rules.unsigned32))
        ELSE IF s[1] = "(" /\ Last(s) = ")" /\ Len(s) > 2 THEN Meaning(Tail(Front(s)), rules)
        ELSE IF Len(s) = 1 /\ s[1] \in Numerals
                /\ (rules.unsigned32 => Numeral[s[1]] < 2^WordBits)
             THEN Value(Signed(Numeral[s[1]]))
        ELSE Error("syntax")

RulesOf(c) == IF c.scope = "alias" THEN c ELSE [c EXCEPT !.unsigned32 = FALSE]

----------------------------------------------------------------------------

\* The parser gives a source the value of the reference grammar, and accepts
\* what the grammar accepts, unless it stops at the nesting bound. The alias
\* parser of the C++ assembler gives it the value of its part up to the operand
\* of its first "+" or "-".
ParserFollowsGrammar ==
    result # Pending /\ result.err \notin {"extension", "depth"} =>
        LET legacy == selection.scope = "legacy"
            sums == {i \in DOMAIN source : legacy /\ source[i] \in {"+", "-"}}
            end == IF sums = {} THEN Len(source) ELSE 1 + CHOOSE i \in sums : \A k \in sums : i <= k
            meaning == Meaning(SubSeq(source, 1, end), IF legacy THEN selection ELSE RulesOf(selection))
        IN  /\ ~legacy => Ok(result) = Ok(meaning)
            /\ Ok(result) => result.v = meaning.v /\ Ok(meaning)

\* What operands may contain without the extension has one value, whatever the
\* order of evaluation.
OperandsNeedNoPrecedence ==
    result # Pending /\ selection.scope \in {"operand", "literal"} /\ ~selection.extended
        /\ result.err # "extension" =>
        result = Entry(source, [selection EXCEPT !.leftToRight = ~@])
=============================================================================
