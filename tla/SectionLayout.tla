--------------------------- MODULE SectionLayout ---------------------------
(***************************************************************************)
(* Layout of the Gecko sections of a codeset: encodeSection, and the loop  *)
(* of Assemble that gives every section its offset in the GCT file         *)
(* (assembler/assembler.go).                                               *)
(*                                                                         *)
(* Statements arrive one by one, chosen by TLC.  What they encode to is    *)
(* abstracted to how many words they put where: a word remembers the kind  *)
(* of code it starts (op), the label it refers to (to), the change a fixup *)
(* made to its upper half (hi), its lower half (lo), and, as a history     *)
(* variable, the source statements it was produced from (src).             *)
(***************************************************************************)
EXTENDS Integers, Sequences, FiniteSets, SequencesExt

CONSTANTS
    Labels,         \* label names, already folded to lower case
    NoLabel,        \* the reference of a word that needs no fixup
    Policies,       \* the corrections a run may be assembled with
    DataSizes,      \* bytes of a data statement without an address
    WriteSizes,     \* words of an addressed write
    BlockSizes,     \* words of a HOOK, CODE or PULSE block
    Half,           \* 2^15 in the code: bound of a signed displacement
    MaxStatements,  \* bound on the statements of a codeset
    MaxSections     \* bound on the sections of a codeset

Flags == {"RejectDuplicateLabels", "RawDataEOF", "MissingLabels",
          "GeckoLabelOffsets", "GeckoLineFraming", "GotoFalse",
          "ElseDirectives"}

\* A write ends on an 8-byte line (encodeWrite pads its payload), and so does
\* a block (encodeBlock, module BlockLayout); a data statement has a byte.
ASSUME LayoutAssumption ==
    /\ NoLabel \notin Labels
    /\ Policies \subseteq [Flags -> BOOLEAN]
    /\ DataSizes \subseteq Nat \ {0}
    /\ \A n \in WriteSizes \cup BlockSizes : n \in Nat /\ n >= 2 /\ n % 2 = 0
    /\ Half \in Nat \ {0}
    /\ MaxStatements \in Nat
    /\ MaxSections \in Nat

Ops == {"word", "block", "goto", "ba", "data"}
Word == [op : Ops, to : Labels \cup {NoLabel}, hi : {-1, 0}, lo : Nat,
         src : SUBSET (Nat \ {0})]
Kinds == {"data", "label", "raw", "write", "block", "directive", "else_reset",
          "goto", "goto_f", "ba"}
Statement == [kind : Kinds, name : Labels \cup {NoLabel}]
Undefined == -1
Fixup == [index : Nat, name : Labels, lines : BOOLEAN]
Code == [offset : Nat, words : Seq(Word), source : Seq(Statement)]

VARIABLES
    policy,  \* opts.Fixes and opts.Validation, fixed for the whole run
    phase,   \* "encode" in encodeSection, "done" or "failed" after Assemble
    codes,   \* result.Codes: the finished sections
    offset,  \* offset of the section being encoded
    words,   \* words of the section being encoded
    data,    \* data bytes not flushed yet, and the statements they are from
    labels,  \* number of words before each label, or Undefined
    fixes,   \* the references to patch at the end of the section
    source   \* history: the statements of the section being encoded

vars == <<policy, phase, codes, offset, words, data, labels, fixes, source>>
section == <<words, data, labels, fixes, source>>

----------------------------------------------------------------------------

NoData == [bytes |-> 0, src |-> {}]

\* The statement being encoded, as the origin of its words.
Current == {Len(source) + 1}

PlainWords(op, n, origin) ==
    [i \in 1..n |-> [op |-> op, to |-> NoLabel, hi |-> 0, lo |-> 0,
                     src |-> origin]]

\* Mutated form: the pending bytes are padded to words, not to lines.
FlushedToWords ==
    words \o PlainWords("data", (data.bytes + 3) \div 4, data.src)

\* flush: the pending bytes padded to whole 8-byte lines.
Flushed ==
    words \o PlainWords("data", 2 * ((data.bytes + 7) \div 8), data.src)

\* The words of a block; its first one remembers the offset in the file that
\* encodeBlock was told, from which the block's absolute branches follow.
BlockWords(n, gctOffset) ==
    [PlainWords("word", n, Current) EXCEPT ![1].op = "block",
                                           ![1].lo = gctOffset]

\* The first word of a label reference, before its displacement is known.
Reference(op, l) ==
    [op |-> op, to |-> l, hi |-> 0, lo |-> 0, src |-> Current]

Spent == Len(source) + FoldSeq(LAMBDA c, n : n + Len(c.source), 0, codes)

\* The loop of encodeSection reaches a further statement.
Accepts(kind, name) ==
    /\ phase = "encode"
    /\ Spent < MaxStatements
    /\ source' = Append(source, [kind |-> kind, name |-> name])

\* A statement that encodes to the words ws, after the flush before it.
Emits(ws) ==
    /\ words' = Flushed \o ws
    /\ data' = NoData
    /\ UNCHANGED <<policy, phase, codes, offset, labels>>

\* Every error return of Assemble and encodeSection gives up the whole result.
Fail ==
    /\ phase' = "failed"
    /\ codes' = <<>>
    /\ UNCHANGED <<policy, offset, section>>

----------------------------------------------------------------------------

NoLabels == [l \in Labels |-> Undefined]

\* The variables of encodeSection at the start of the next section.
BeginSection ==
    /\ words' = <<>>
    /\ data' = NoData
    /\ labels' = NoLabels
    /\ fixes' = {}
    /\ source' = <<>>

\* A source without statements and titles has no section at all.
Init ==
    /\ policy \in Policies
    /\ phase \in {"encode", "done"}
    /\ codes = <<>>
    /\ offset = 8
    /\ words = <<>>
    /\ data = NoData
    /\ labels = NoLabels
    /\ fixes = {}
    /\ source = <<>>

EncodeData(n) ==
    /\ Accepts("data", NoLabel)
    /\ data' = [bytes |-> data.bytes + n, src |-> data.src \cup Current]
    /\ UNCHANGED <<policy, phase, codes, offset, words, labels, fixes>>

\* Mutated form: a label does not flush the data bytes before it.
EncodeLabelWithoutFlush(l) ==
    /\ Accepts("label", l)
    /\ labels' = IF labels[l] = Undefined
                 THEN [labels EXCEPT ![l] = Len(words)]
                 ELSE labels
    /\ UNCHANGED <<policy, phase, codes, offset, words, data, fixes>>

\* The first definition of a label holds, whether or not it is used already.
EncodeLabel(l) ==
    /\ Accepts("label", l)
    /\ labels[l] # Undefined => ~policy["RejectDuplicateLabels"]
    /\ labels' = IF labels[l] = Undefined
                 THEN [labels EXCEPT ![l] = Len(Flushed)]
                 ELSE labels
    /\ words' = Flushed
    /\ data' = NoData
    /\ UNCHANGED <<policy, phase, codes, offset, fixes>>

RejectLabel(l) ==
    /\ phase = "encode"
    /\ Spent < MaxStatements
    /\ labels[l] # Undefined
    /\ policy["RejectDuplicateLabels"]
    /\ Fail

\* Sixteen hexadecimal digits: one line.
EncodeRaw ==
    /\ Accepts("raw", NoLabel)
    /\ Emits(PlainWords("word", 2, Current))
    /\ UNCHANGED fixes

EncodeWrite(n) ==
    /\ Accepts("write", NoLabel)
    /\ Emits(PlainWords("word", n, Current))
    /\ UNCHANGED fixes

\* Mutated form: the offset is taken before the pending bytes are flushed.
EncodeBlockBeforeFlush(n) ==
    /\ Accepts("block", NoLabel)
    /\ Emits(BlockWords(n, offset + 4 * Len(words)))
    /\ UNCHANGED fixes

EncodeBlock(n) ==
    /\ Accepts("block", NoLabel)
    /\ Emits(BlockWords(n, offset + 4 * Len(Flushed)))
    /\ UNCHANGED fixes

\* A directive that needs no fixup encodes to a pair of words.
EncodeDirective ==
    /\ Accepts("directive", NoLabel)
    /\ Emits(PlainWords("word", 2, Current))
    /\ UNCHANGED fixes

\* .ELSE_RESET, which the reference assembler leaves out.
EncodeElseReset ==
    /\ Accepts("else_reset", NoLabel)
    /\ Emits(PlainWords("word", IF policy["ElseDirectives"] THEN 2 ELSE 0, Current))
    /\ UNCHANGED fixes

\* .GOTO, .GOTO_T and .GOTO_F: the last one lacks its second word unless the
\* correction is on.
EncodeGoto(l, kind) ==
    /\ Accepts(kind, l)
    /\ Emits(<<Reference("goto", l)>> \o
             PlainWords("word",
                        IF kind = "goto_f" /\ ~policy["GotoFalse"] THEN 0 ELSE 1,
                        Current))
    /\ fixes' = fixes \cup {[index |-> Len(Flushed), name |-> l, lines |-> TRUE]}

EncodeBaseAddress(l) ==
    /\ Accepts("ba", l)
    /\ Emits(<<Reference("ba", l)>> \o PlainWords("word", 1, Current))
    /\ fixes' = fixes \cup {[index |-> Len(Flushed), name |-> l, lines |-> FALSE]}

\* encodeData, encodeWrite, encodeBlock or encodeDirectivePolicy returns an
\* error (.ELSE without its correction is one), or the context was cancelled
\* before this statement.
StatementFails ==
    /\ phase = "encode"
    /\ Spent < MaxStatements
    /\ Fail

----------------------------------------------------------------------------

\* Integer division that rounds towards zero, as int(float64(n)/2 - 1) does
\* with its halves.
TruncatedHalf(n) == IF n >= 0 THEN n \div 2 ELSE -((-n) \div 2)

\* The displacement written for fixup f: lines after the GOTO's own line, or
\* bytes after the BA command.
Displacement(f) ==
    LET distance == labels[f.name] - f.index
    IN  IF f.lines THEN TruncatedHalf(distance - 2) ELSE 4 * distance - 8

Resolvable(f) == labels[f.name] # Undefined

\* Mutated form: unresolved references are never an error.
RejectedIfResolvable(f) ==
    /\ Resolvable(f)
    /\ policy["GeckoLabelOffsets"]
    /\ \/ f.lines /\ (labels[f.name] - f.index) % 2 # 0
       \/ Displacement(f) < -Half
       \/ Displacement(f) >= Half

\* A fixup that ends the assembly with an error.
Rejected(f) ==
    \/ /\ ~Resolvable(f)
       /\ policy["MissingLabels"]
    \/ /\ Resolvable(f)
       /\ policy["GeckoLabelOffsets"]
       /\ \/ f.lines /\ (labels[f.name] - f.index) % 2 # 0
          \/ Displacement(f) < -Half
          \/ Displacement(f) >= Half

\* Conversion to a signed 16-bit number and to its unsigned pattern.
Signed(n) == ((n + Half) % (2 * Half)) - Half
\* Mutated form: a negative displacement is not reduced to 16 bits.
UnsignedOfAny(n) == n

Unsigned(n) == n % (2 * Half)

\* The patched word. Without the correction the signed displacement is added
\* to the whole word, and a negative one borrows from the upper half.
Patch(w, f) ==
    [w EXCEPT !.lo = Unsigned(Displacement(f)),
              !.hi = IF policy["GeckoLabelOffsets"] \/ Signed(Displacement(f)) >= 0
                     THEN 0 ELSE -1]

Patched(ws) ==
    [i \in 1..Len(ws) |->
        IF \E f \in fixes : f.index + 1 = i /\ Resolvable(f)
        THEN Patch(ws[i], CHOOSE f \in fixes : f.index + 1 = i /\ Resolvable(f))
        ELSE ws[i]]

\* Mutated form: the correction decides for every section.
CompleteByPolicy(last) ==
    IF policy["RawDataEOF"] THEN Flushed ELSE words

\* flushTail: all sections but the last one flush their last data bytes.
Complete(last) ==
    IF ~last \/ policy["RawDataEOF"] THEN Flushed ELSE words

Unframed(ws) == policy["GeckoLineFraming"] /\ Len(ws) % 2 # 0

\* Mutated form: the offset advances by the words before the last flush.
EndSectionBeforeFlush(last) ==
    LET ws == Patched(Complete(last))
    IN  /\ phase = "encode"
        /\ last \/ Len(codes) + 1 < MaxSections
        /\ \A f \in fixes : ~Rejected(f)
        /\ ~Unframed(ws)
        /\ codes' = Append(codes, [offset |-> offset, words |-> ws,
                                   source |-> source])
        /\ offset' = offset + 4 * Len(words)
        /\ phase' = IF last THEN "done" ELSE "encode"
        /\ BeginSection
        /\ UNCHANGED policy

\* End of encodeSection, and the step of Assemble to the next section.
EndSection(last) ==
    LET ws == Patched(Complete(last))
    IN  /\ phase = "encode"
        /\ last \/ Len(codes) + 1 < MaxSections
        /\ \A f \in fixes : ~Rejected(f)
        /\ ~Unframed(ws)
        /\ codes' = Append(codes, [offset |-> offset, words |-> ws,
                                   source |-> source])
        /\ offset' = offset + 4 * Len(ws)
        /\ phase' = IF last THEN "done" ELSE "encode"
        /\ BeginSection
        /\ UNCHANGED policy

RejectSection(last) ==
    /\ phase = "encode"
    /\ \/ \E f \in fixes : Rejected(f)
       \/ Unframed(Complete(last))
    /\ Fail

Next ==
    \/ \E n \in DataSizes : EncodeData(n)
    \/ \E l \in Labels : EncodeLabel(l)
    \/ \E l \in Labels : RejectLabel(l)
    \/ EncodeRaw
    \/ \E n \in WriteSizes : EncodeWrite(n)
    \/ \E n \in BlockSizes : EncodeBlock(n)
    \/ EncodeDirective
    \/ EncodeElseReset
    \/ \E l \in Labels, kind \in {"goto", "goto_f"} : EncodeGoto(l, kind)
    \/ \E l \in Labels : EncodeBaseAddress(l)
    \/ StatementFails
    \/ \E last \in BOOLEAN : EndSection(last)
    \/ \E last \in BOOLEAN : RejectSection(last)

Spec == Init /\ [][Next]_vars

----------------------------------------------------------------------------

TypeOK ==
    /\ policy \in Policies
    /\ phase \in {"encode", "done", "failed"}
    /\ codes \in Seq(Code)
    /\ offset \in Nat
    /\ words \in Seq(Word)
    /\ data \in [bytes : Nat, src : SUBSET (Nat \ {0})]
    /\ labels \in [Labels -> Nat \cup {Undefined}]
    /\ fixes \in SUBSET Fixup
    /\ source \in Seq(Statement)

----------------------------------------------------------------------------
(* What the finished sections mean to the Gecko handler *)

Jumps == {"goto", "ba"}

\* Result.Bytes: header, sections, terminator.
Image == PlainWords("word", 2, {})
         \o FlattenSeq([k \in DOMAIN codes |-> codes[k].words])
         \o PlainWords("word", 2, {})

Defines(c, l) == \E d \in DOMAIN c.source : c.source[d] = [kind |-> "label", name |-> l]

FirstDefinition(c, l) ==
    CHOOSE d \in DOMAIN c.source :
        /\ c.source[d] = [kind |-> "label", name |-> l]
        /\ \A e \in 1..(d - 1) : c.source[e] # [kind |-> "label", name |-> l]

\* Where the handler goes from the label reference at word i of a section, in
\* bytes from the start of that section: a GOTO counts lines from the line
\* after it, BA is set to the address of the next line plus a number of bytes.
Landing(c, i) ==
    4 * (i + 1) + (IF c.words[i].op = "goto" THEN 8 ELSE 1) * Signed(c.words[i].lo)

\* Byte b of section c is where statement d stands: all that was written for
\* earlier statements lies before it, all for later ones behind it.
StandsAt(c, d, b) ==
    /\ b % 4 = 0 /\ b >= 0 /\ b <= 4 * Len(c.words)
    /\ \A j \in DOMAIN c.words :
          IF 4 * j <= b THEN \A e \in c.words[j].src : e < d
                        ELSE \A e \in c.words[j].src : e > d

\* With corrected label offsets every GOTO or BA command that names a label of
\* its section takes the handler to the place of the label's first definition,
\* and its control bits are those of the directive (encodeSection's fixups).
JumpsLand ==
    policy["GeckoLabelOffsets"] =>
        \A k \in DOMAIN codes : \A i \in DOMAIN codes[k].words :
            LET c == codes[k]
                w == c.words[i]
            IN  w.op \in Jumps /\ Defines(c, w.to) =>
                    /\ w.hi = 0
                    /\ StandsAt(c, FirstDefinition(c, w.to), Landing(c, i))

\* A reference to a label its section does not define either ends the assembly
\* (missing_labels) or leaves the command as the directive encoded it.
ReferencesResolved ==
    \A k \in DOMAIN codes : \A i \in DOMAIN codes[k].words :
        LET w == codes[k].words[i]
        IN  w.op \in Jumps /\ ~Defines(codes[k], w.to) =>
                ~policy["MissingLabels"] /\ w.hi = 0 /\ w.lo = 0

\* As long as .GOTO_F emits its second word, every section consists of whole
\* 8-byte lines and starts on one, and every command with an operand that the
\* handler must find is the first word of a line; with gecko_line_framing
\* every section consists of whole lines whatever its directives emit.
LinesFramed ==
    \A k \in DOMAIN codes :
        LET c == codes[k]
        IN  /\ policy["GotoFalse"] \/ policy["GeckoLineFraming"] =>
                   c.offset % 8 = 0 /\ Len(c.words) % 2 = 0
            /\ policy["GotoFalse"] =>
                   \A i \in DOMAIN c.words :
                       c.words[i].op \in Jumps \cup {"block"} => i % 2 = 1

\* The offset encodeBlock was told, on which every base-address-relative branch
\* of the block depends, is where the block really ends up in the file, with
\* all data flushed before it and all sections in front.
BlockOffsetsAreFinal ==
    \A k \in DOMAIN codes : \A i \in DOMAIN codes[k].words :
        LET w == codes[k].words[i]
        IN  w.op = "block" => w.lo = codes[k].offset + 4 * (i - 1)

\* Code.Offset, which the log prints, is where Result.Bytes puts the section.
OffsetsAreFinal ==
    \A k \in DOMAIN codes :
        LET at == codes[k].offset \div 4
        IN  SubSeq(Image, at + 1, at + Len(codes[k].words)) = codes[k].words

\* No data statement of a finished section is lost, but for the last section of
\* an assembly without raw_data_eof: a section transition flushes in any case.
DataReachesImage ==
    \A k \in DOMAIN codes :
        k < Len(codes) \/ phase = "encode" \/ policy["RawDataEOF"] =>
            \A d \in DOMAIN codes[k].source :
                codes[k].source[d].kind = "data" =>
                    \E i \in DOMAIN codes[k].words : d \in codes[k].words[i].src
=============================================================================
