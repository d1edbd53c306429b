--------------------------- MODULE MCExpressions ---------------------------
(* Expressions with words of three bits and integers of six, for TLC.        *)
EXTENDS Expressions

\* Small values, a word that is negative as a signed one, and a value that is
\* no word, whose sign bit is set.
MCNumeral == [n \in {"2", "7", "60"} |->
                 CASE n = "2" -> 2 [] n = "7" -> 7 [] n = "60" -> 60]

MCOperators == Binary \cup {"~", "(", ")"}

Rules(scopes, extended, unsigned32) ==
    [scope : scopes, extended : extended, leftToRight : BOOLEAN, unsigned32 : unsigned32]

\* All operators under every entry point; pairs of binary operators; what has
\* several operators without the extension; signs and parentheses.
MCCases ==
    { [tokens |-> MCOperators \cup {"2", "7", "60"}, length |-> 4,
       selections |-> Rules({"alias"}, BOOLEAN, BOOLEAN) \cup Rules({"operand"}, BOOLEAN, {FALSE})
                      \cup Rules({"literal"}, {FALSE}, {FALSE})
                      \cup Rules({"legacy"}, {FALSE}, BOOLEAN)],
      [tokens |-> Binary \cup {"2", "7"}, length |-> 5,
       selections |-> Rules({"alias"}, {TRUE}, {FALSE})],
      [tokens |-> {"+", "-", "*", "&", "2", "7"}, length |-> 6,
       selections |-> Rules({"operand", "literal"}, {FALSE}, {FALSE})
                      \cup Rules({"legacy"}, {FALSE}, BOOLEAN)],
      [tokens |-> {"-", "*", "(", ")", "2", "7", "60"}, length |-> 6,
       selections |-> Rules({"alias"}, {TRUE}, BOOLEAN)] }
=============================================================================
