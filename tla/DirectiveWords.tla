--------------------------- MODULE DirectiveWords ---------------------------
(***************************************************************************)
(* encodeDirective, addressModifiers (assembler/directives.go) and         *)
(* encodeDirectivePolicy (legacy.go): from a parsed directive to the first *)
(* word of its command.  A word is the set of its bits, so that OR is      *)
(* union; the fields of a command overlap if two directives have one word. *)
(***************************************************************************)
EXTENDS Integers, FiniteSets

CONSTANTS
    Regs,     \* Gecko registers, of 0..15
    NoReg

ASSUME DirectiveAssumption == Regs \subseteq 0..15 /\ NoReg \notin Regs

DirectiveCorrections == {"ElseDirectives", "AddressQualifiers", "GotoFalse", "GRIndex"}

\* What stands in front of an address: BA+, PO+ or nothing.
Qualifiers == {"", "BA", "PO"}
Operators == {"+", "*", "|", "&", "^", "[", "]", "(", ")", "a", "x"}

\* A directive, by its form: the fields that a form does not have are empty. A
\* register operation "+=" is the form "GR", so that "+" needs its flag "<".
Directive ==
    [form : {"RESET", "ENDIF", "ENDIF_RESET", "ELSE", "ELSE_RESET", "END",
             "GOTO", "GOTO_T", "GOTO_F", "GR alone"},
     reg : {NoReg}, op : {""}, via : {""}, width : {0}, flags : {{}}, other : {NoReg}]
    \cup [form : {"BA", "PO"}, reg : {NoReg}, op : {"<-", "<+", "->", "+=", "="},
          via : Qualifiers, width : {0}, flags : {{}}, other : Regs \cup {NoReg}]
    \cup [form : {"BA label", "PO label"}, reg : {NoReg}, op : {"<-"}, via : {""},
          width : {0}, flags : {{}}, other : {NoReg}]
    \cup [form : {"GR"}, reg : Regs, op : {"<-", "->"}, via : Qualifiers, width : {8, 16, 32},
          flags : {{}}, other : {NoReg}]
    \cup [form : {"GR"}, reg : Regs, op : {"=", "+="}, via : Qualifiers, width : {0},
          flags : {{}}, other : {NoReg}]
    \cup {d \in [form : {"GR operation"}, reg : Regs, op : Operators, via : {""}, width : {0},
                  flags : SUBSET {"<", "$"}, other : Regs \cup {NoReg}] :
              d.op = "+" => "<" \in d.flags}

----------------------------------------------------------------------------

\* The bits of n, of four bits, moved up by k.
BitsOf(n, k) == {j + k : j \in {i \in 0..3 : (n \div 2^i) % 2 = 1}}

Nibbles(hi, lo) == BitsOf(hi, 28) \cup BitsOf(lo, 24)

\* addressModifiers, with the register that an address may be relative to.
Qualifier(via) == CASE via = "" -> {} [] via = "BA" -> {16} [] via = "PO" -> {28, 16}
Relative(other) == IF other = NoReg THEN {} ELSE {12} \cup BitsOf(other, 0)

Fixed(form) ==
    CASE form = "RESET" -> Nibbles(14, 0)
      [] form \in {"ENDIF", "ENDIF_RESET"} -> Nibbles(14, 2) \cup {0}
      [] form \in {"ELSE", "ELSE_RESET"} -> Nibbles(14, 2) \cup {20, 0}
      [] form = "END" -> Nibbles(15, 0)
      [] form = "GOTO" -> Nibbles(6, 6) \cup {21}
      [] form = "GOTO_T" -> Nibbles(6, 6)
      [] form = "GOTO_F" -> Nibbles(6, 6) \cup {20}
      [] form = "GR alone" -> {}

\* BA and PO, which bit 27 tells apart.
Pointer(d) ==
    {30} \cup (IF d.form \in {"PO", "PO label"} THEN {27} ELSE {})
    \cup (CASE d.form \in {"BA label", "PO label"} -> {26, 25}
            [] d.op = "<-" -> {}
            [] d.op = "<+" -> {20}
            [] d.op = "->" -> {26}
            [] d.op = "+=" -> {25, 20}
            [] d.op = "=" -> {25})
    \cup Qualifier(d.via) \cup Relative(d.other)

Width(bits) == CASE bits = 8 -> {} [] bits = 16 -> {20} [] bits = 32 -> {21}
OperatorNumber(op) ==
    CASE op = "+" -> 0 [] op = "*" -> 1 [] op = "|" -> 2 [] op = "&" -> 3 [] op = "^" -> 4
      [] op = "[" -> 5 [] op = "]" -> 6 [] op = "(" -> 7 [] op = ")" -> 8 [] op = "a" -> 9
      [] op = "x" -> 10

Register(d) ==
    {31} \cup BitsOf(d.reg, 0) \cup Qualifier(d.via)
    \cup (CASE d.op = "<-" -> {25} \cup Width(d.width)
            [] d.op = "->" -> {26} \cup Width(d.width)
            [] d.op = "+=" -> {20}
            [] d.op = "=" -> {})

Operation(d) ==
    {31} \cup BitsOf(d.reg, 0) \cup BitsOf(OperatorNumber(d.op), 20)
    \cup (IF "<" \in d.flags THEN {17} ELSE {}) \cup (IF "$" \in d.flags THEN {16} ELSE {})
    \cup (IF d.other = NoReg THEN {26, 25} ELSE {27})

Word(d) ==
    CASE d.form \in {"BA", "PO", "BA label", "PO label"} -> Pointer(d)
      [] d.form = "GR" -> Register(d)
      [] d.form = "GR operation" -> Operation(d)
      [] OTHER -> Fixed(d.form)

\* The second word, by what it holds, with the register of an operation.
Holds(what, reg) == [what |-> what, reg |-> reg]
Second(d) ==
    CASE d.form \in {"RESET", "ENDIF_RESET", "ELSE_RESET"} -> Holds("80008000", NoReg)
      [] d.form \in {"GOTO", "GOTO_T", "GOTO_F", "BA label", "PO label"} -> Holds("label", NoReg)
      [] d.form \in {"ENDIF", "ELSE", "END", "GR alone"} -> Holds("0", NoReg)
      [] d.form = "GR operation" /\ d.other # NoReg -> Holds("register", d.other)
      [] OTHER -> Holds("value", NoReg)

----------------------------------------------------------------------------
(* encodeDirectivePolicy *)

Rejected(d, on) ==
    \/ "UnknownInstructions" \in on /\ d.form = "GR alone"
    \/ "ElseDirectives" \notin on /\ d.form = "ELSE"
    \/ /\ "AddressQualifiers" \notin on
       /\ d.form \in {"BA", "PO"}
       /\ \/ d.op = "=" /\ d.via # ""
          \/ d.op \in {"=", "+=", "->"} /\ d.other # NoReg

Dropped(d, on) == "ElseDirectives" \notin on /\ d.form = "ELSE_RESET"

\* The loads and stores of a register, whose number is lost without the
\* correction.
IsTransfer(w) == w \cap ((25..27) \cup (29..31)) \in {{31, 25}, {31, 26}}
Corrected(w, on) == IF "GRIndex" \notin on /\ IsTransfer(w) THEN w \ (0..3) ELSE w

\* The first word and what the second one holds, if there are any.
EncodeDirective(d, on) ==
    [ok |-> ~Rejected(d, on),
     word |-> IF Dropped(d, on) THEN {} ELSE Corrected(Word(d), on),
     second |-> IF Dropped(d, on) \/ (d.form = "GOTO_F" /\ "GotoFalse" \notin on) THEN Holds("", NoReg)
                ELSE Second(d)]
=============================================================================
