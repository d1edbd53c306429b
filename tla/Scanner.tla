------------------------------ MODULE Scanner ------------------------------
(***************************************************************************)
(* scanPolicy (assembler/source.go): from the characters of a file to its  *)
(* statements.  Characters are what the scanner tells apart; "a" is any    *)
(* other one, and two stand for a word: ".alias" (or .gr) and "op".  The   *)
(* statement being read is kept as the list of the places of its           *)
(* characters in the file, with 0 for the blank that a continuation puts   *)
(* in, so that what becomes of every character can be stated.              *)
(***************************************************************************)
EXTENDS Integers, Sequences, FiniteSets, SequencesExt

CONSTANTS
    Chars,    \* characters
    Cases     \* bounds: the characters of a file, how many of them, and which
              \* corrections are on (ScannerOR, ScannerMultiply)

ASSUME ScannerAssumption ==
    /\ Chars \subseteq {"a", " ", "newline", "quote", "backslash", "/", "*", "|", "#", ";", "{",
                        ".alias", "op"}
    /\ \A c \in Cases : c.chars \subseteq Chars /\ c.length \in Nat
                         /\ c.policies \subseteq SUBSET {"ScannerOR", "ScannerMultiply"}

VARIABLES
    text, policy,
    phase,    \* "scan", "done" or "failed"
    i,        \* the next character
    b,        \* the statement being read
    line,     \* the line at i
    start,    \* the line the statement is said to start at
    quote, escape, comment,
    out       \* the statements, with their line

vars == <<text, policy, phase, i, b, line, start, quote, escape, comment, out>>

----------------------------------------------------------------------------

BlankAt(p) == p = 0 \/ text[p] = " "

\* strings.TrimSpace.
Trimmed(s) ==
    LET solid == {k \in DOMAIN s : ~BlankAt(s[k])}
    IN  IF solid = {} THEN <<>>
        ELSE SubSeq(s, CHOOSE k \in solid : \A l \in solid : k <= l,
                       CHOOSE k \in solid : \A l \in solid : l <= k)

Letters(s) == [k \in DOMAIN s |-> IF s[k] = 0 THEN " " ELSE text[s[k]]]
BeginsWith(s, prefix) == IsPrefix(prefix, Letters(Trimmed(s)))

\* Mutated form: a statement is at the line where it ends.
EmittedAtItsEnd == IF Trimmed(b) = <<>> THEN out
                   ELSE Append(out, [text |-> Trimmed(b), pos |-> line])

Emitted == IF Trimmed(b) = <<>> THEN out
           ELSE Append(out, [text |-> Trimmed(b), pos |-> start])

Char == text[i]
Pair(x, y) == Char = x /\ i < Len(text) /\ text[i + 1] = y

\* The character after the end of the line of i.
NextLine ==
    LET ends == {k \in i..Len(text) : text[k] = "newline"}
    IN  IF ends = {} THEN Len(text) + 1 ELSE (CHOOSE k \in ends : \A l \in ends : k <= l) + 1

Init ==
    /\ \E c \in Cases : \E n \in 0..c.length : text \in [1..n -> c.chars] /\ policy \in c.policies
    /\ phase = "scan"
    /\ i = 1
    /\ b = <<>>
    /\ line = 1
    /\ start = 1
    /\ quote = FALSE /\ escape = FALSE /\ comment = FALSE
    /\ out = <<>>

Reading == phase = "scan" /\ i <= Len(text)
Outside == Reading /\ ~comment /\ ~quote

\* The line of a statement is that of its first character.
StartHere == IF b = <<>> /\ Char \notin {" ", "newline"} THEN line ELSE start

----------------------------------------------------------------------------

\* In a block comment.
InComment ==
    /\ Reading /\ comment
    /\ comment' = ~Pair("*", "/")
    /\ i' = i + (IF Pair("*", "/") THEN 2 ELSE 1)
    /\ line' = line + (IF Char = "newline" THEN 1 ELSE 0)
    /\ UNCHANGED <<text, policy, phase, b, start, quote, escape, out>>

\* Mutated form: a quote always ends the string.
InStringWithoutEscape ==
    /\ Reading /\ ~comment /\ quote
    /\ b' = Append(b, i)
    /\ quote' = (Char # "quote")
    /\ line' = line + (IF Char = "newline" THEN 1 ELSE 0)
    /\ i' = i + 1
    /\ UNCHANGED <<text, policy, phase, start, escape, comment, out>>

\* In a string every character counts.
InString ==
    /\ Reading /\ ~comment /\ quote
    /\ b' = Append(b, i)
    /\ escape' = (~escape /\ Char = "backslash")
    /\ quote' = (escape \/ Char # "quote")
    /\ line' = line + (IF Char = "newline" THEN 1 ELSE 0)
    /\ i' = i + 1
    /\ UNCHANGED <<text, policy, phase, start, comment, out>>

BeginString ==
    /\ Outside
    /\ Char = "quote"
    /\ quote' = TRUE
    /\ b' = Append(b, i)
    /\ i' = i + 1
    /\ start' = StartHere
    /\ UNCHANGED <<text, policy, phase, line, escape, comment, out>>

BeginComment ==
    /\ Outside
    /\ Pair("/", "*")
    /\ comment' = TRUE
    /\ i' = i + 2
    /\ start' = StartHere
    /\ UNCHANGED <<text, policy, phase, b, line, quote, escape, out>>

\* "|" discards the rest of the line and joins the next one, but in the
\* expression of an .alias or .gr.
Continues ==
    /\ Char = "|"
    /\ ~("ScannerOR" \in policy /\ BeginsWith(b, <<".alias">>))

Continuation ==
    /\ Outside
    /\ Continues
    /\ b' = Append(b, 0)
    /\ i' = NextLine
    /\ line' = line + 1
    /\ start' = StartHere
    /\ UNCHANGED <<text, policy, phase, quote, escape, comment, out>>

BeginsLineComment == Char = "#" \/ Pair("/", "/") \/ Pair("backslash", "backslash")

LineComment ==
    /\ Outside
    /\ BeginsLineComment
    /\ b' = <<>>
    /\ out' = IF Trimmed(b) = <<>> THEN out
              ELSE Append(out, [text |-> Trimmed(b), pos |-> StartHere])
    /\ i' = NextLine
    /\ line' = line + 1
    /\ start' = line + 1
    /\ UNCHANGED <<text, policy, phase, quote, escape, comment>>

\* Without the correction a "*" counts in an op only.
DropsStar == Char = "*" /\ "ScannerMultiply" \notin policy /\ ~BeginsWith(b, <<"op", " ">>)

DropStar ==
    /\ Outside
    /\ DropsStar
    /\ i' = i + 1
    /\ start' = StartHere
    /\ UNCHANGED <<text, policy, phase, b, line, quote, escape, comment, out>>

\* Mutated form: the statement goes on over the end of the line.
EndOfLineKeepsStatement ==
    /\ Outside
    /\ Char = "newline"
    /\ i' = i + 1
    /\ line' = line + 1
    /\ start' = line + 1
    /\ UNCHANGED <<text, policy, phase, b, quote, escape, comment, out>>

EndOfLine ==
    /\ Outside
    /\ Char = "newline"
    /\ b' = <<>>
    /\ out' = Emitted
    /\ i' = i + 1
    /\ line' = line + 1
    /\ start' = line + 1
    /\ UNCHANGED <<text, policy, phase, quote, escape, comment>>

\* ";" ends a statement; a brace ends one and is one of its own.
EndOfStatement ==
    /\ Outside
    /\ Char \in {";", "{"}
    /\ b' = <<>>
    /\ out' = IF Char = ";" THEN Emitted ELSE Append(Emitted, [text |-> <<i>>, pos |-> line])
    /\ i' = i + 1
    /\ start' = line
    /\ UNCHANGED <<text, policy, phase, line, quote, escape, comment>>

Keep ==
    /\ Outside
    /\ Char \notin {"quote", "newline", ";", "{", "#"}
    /\ ~Pair("/", "*") /\ ~BeginsLineComment /\ ~Continues /\ ~DropsStar
    /\ b' = Append(b, i)
    /\ i' = i + 1
    /\ start' = StartHere
    /\ UNCHANGED <<text, policy, phase, line, quote, escape, comment, out>>

\* Mutated form: the last statement needs the end of its line.
EndOfTextWithoutEmit ==
    /\ phase = "scan"
    /\ i = Len(text) + 1
    /\ phase' = IF quote \/ comment THEN "failed" ELSE "done"
    /\ UNCHANGED <<text, policy, i, line, quote, escape, comment, b, out, start>>

\* An open string or comment is an error.
EndOfText ==
    /\ phase = "scan"
    /\ i = Len(text) + 1
    /\ phase' = IF quote \/ comment THEN "failed" ELSE "done"
    /\ IF quote \/ comment THEN UNCHANGED <<b, out, start>>
       ELSE /\ b' = <<>>
            /\ out' = Emitted
            /\ start' = line
    /\ UNCHANGED <<text, policy, i, line, quote, escape, comment>>

Next ==
    \/ InComment
    \/ InString
    \/ BeginString
    \/ BeginComment
    \/ Continuation
    \/ LineComment
    \/ DropStar
    \/ EndOfLine
    \/ EndOfStatement
    \/ Keep
    \/ EndOfText

Spec == Init /\ [][Next]_vars

----------------------------------------------------------------------------

\* The places that are in some statement.
Kept == UNION {ToSet(out[k].text) : k \in DOMAIN out}

LineOf(p) == 1 + Cardinality({q \in 1..(p - 1) : text[q] = "newline"})
SameLine(p, q) == LineOf(p) = LineOf(q)

\* Place p begins what takes the rest of its line away.
Hides(p) ==
    \/ text[p] = "#"
    \/ text[p] = "|"
    \/ text[p] \in {"/", "backslash"} /\ p < Len(text) /\ text[p + 1] = text[p]
Opens(p) == text[p] = "/" /\ p < Len(text) /\ text[p + 1] = "*"
Closes(p) == text[p] = "*" /\ p < Len(text) /\ text[p + 1] = "/"

\* Once the file is read, a letter that is in no statement stands behind what
\* hides the rest of its line, or behind the beginning of a block comment. With
\* ScannerOR, "|" hides nothing in the file's first statement if that is an
\* .alias.
NoLetterIsLost ==
    phase = "done" =>
        \A p \in DOMAIN text :
            text[p] \in {"a", "op", ".alias"} /\ p \notin Kept =>
                \/ \E q \in 1..(p - 1) : Opens(q)
                \/ \E q \in 1..(p - 1) :
                       /\ Hides(q) /\ SameLine(p, q)
                       /\ text[q] = "|" /\ "ScannerOR" \in policy =>
                              ~\E r \in 1..(q - 1) :
                                   /\ text[r] = ".alias"
                                   /\ \A s \in 1..(r - 1) : text[s] \in {" ", "newline"}
                                   /\ \A s \in r..q : text[s] \notin {"newline", ";", "{"}

\* A statement read from its beginning: whether a string is open at its end,
\* and whether all strings so far have consecutive places.
StringEnds(s) ==
    LET Reads(state, p) ==
            CASE ~state.in -> [in |-> text[p] = "quote", esc |-> FALSE, ok |-> state.ok, last |-> p]
              [] OTHER -> [in |-> state.esc \/ text[p] # "quote",
                           esc |-> ~state.esc /\ text[p] = "backslash",
                           ok |-> state.ok /\ p = state.last + 1, last |-> p]
    IN  FoldLeft(LAMBDA state, p : IF p = 0 THEN [state EXCEPT !.ok = @ /\ ~state.in]
                                   ELSE Reads(state, p),
                 [in |-> FALSE, esc |-> FALSE, ok |-> TRUE, last |-> 0], s)

\* In a statement, a string is the string of the file, character by character,
\* from its first to its last quote.
StringsStayWhole ==
    \A k \in DOMAIN out : LET end == StringEnds(out[k].text) IN end.ok /\ ~end.in

\* Two neighbours in a statement are on different lines only within a string,
\* around a continuation, or around a block comment.
LinesEndStatements ==
    \A k \in DOMAIN out : \A n \in 1..(Len(out[k].text) - 1) :
        LET p == out[k].text[n]
            q == out[k].text[n + 1]
        IN  p # 0 /\ q # 0 /\ ~SameLine(p, q) =>
                \/ q = p + 1 /\ text[p] = "newline"
                \/ \E r \in (p + 1)..(q - 1) : Opens(r)

\* The lines of statements never decrease, and none is behind its last
\* character's line.
PositionsAreOrdered ==
    \A k \in DOMAIN out :
        /\ k > 1 => out[k - 1].pos <= out[k].pos
        /\ LET p == out[k].text[1] IN out[k].pos <= LineOf(p)

=============================================================================
