------------------------ MODULE SectionLayoutProofs ------------------------
(***************************************************************************)
(* Theorems about SectionLayout, for all labels, policies, sizes and       *)
(* bounds: where sections, blocks and commands are, that every corrected   *)
(* GOTO or BA command lands at the label it names, and what becomes of     *)
(* references and data.                                                    *)
(***************************************************************************)
EXTENDS SectionLayout, Lists

\* Division by a positive number leaves a natural remainder below it.
LEMMA Remainder ==
    ASSUME NEW a \in Int, NEW b \in Nat \ {0}
    PROVE  a % b \in Nat
  OBVIOUS

\* The parity of a position does not depend on the whole lines before it.
LEMMA SameParity ==
    ASSUME NEW i \in Int, NEW n \in Int, n % 2 = 0, (i - n) % 2 = 1
    PROVE  i % 2 = 1
  OBVIOUS

\* Whole lines after a whole line end on a whole line.
LEMMA LinesAdvance ==
    ASSUME NEW a \in Nat, NEW n \in Nat, a % 8 = 0, n % 2 = 0
    PROVE  (a + 4 * n) % 8 = 0
<1>1. PICK m \in Nat : n = 2 * m
  <2>1. n \div 2 \in Nat /\ n = 2 * (n \div 2)
    OBVIOUS
  <2> QED
    BY <2>1
<1>2. a + 4 * n = a + 8 * m
  BY <1>1
<1>3. (a + 8 * m) % 8 = 0
  OBVIOUS
<1> QED
  BY <1>2, <1>3

\* The words that a statement without reference emits.
LEMMA PlainWordsLemma ==
    ASSUME NEW op \in Ops, NEW n \in Nat, NEW origin \in SUBSET (Nat \ {0})
    PROVE  /\ PlainWords(op, n, origin) \in Seq(Word)
           /\ Len(PlainWords(op, n, origin)) = n
           /\ \A i \in 1..n : PlainWords(op, n, origin)[i] =
                 [op |-> op, to |-> NoLabel, hi |-> 0, lo |-> 0, src |-> origin]
<1> DEFINE ws == PlainWords(op, n, origin)
<1>1. ws \in [1..n -> Word]
  BY DEF PlainWords, Word
<1>2. ws \in Seq(Word)
  BY <1>1, SeqDef
<1>3. Len(ws) = n
  BY <1>1, <1>2, LenProperties
<1>4. \A i \in 1..n : ws[i] = [op |-> op, to |-> NoLabel, hi |-> 0, lo |-> 0, src |-> origin]
  BY DEF PlainWords
<1> QED
  BY <1>2, <1>3, <1>4

\* A concatenation, element by element.
LEMMA Joined ==
    ASSUME NEW s \in Seq(Word), NEW t \in Seq(Word)
    PROVE  /\ s \o t \in Seq(Word)
           /\ Len(s) \in Nat /\ Len(t) \in Nat /\ Len(s \o t) = Len(s) + Len(t)
           /\ DOMAIN (s \o t) = 1..(Len(s) + Len(t))
           /\ \A i \in 1..Len(s) : (s \o t)[i] = s[i]
           /\ \A i \in (Len(s) + 1)..(Len(s) + Len(t)) : (s \o t)[i] = t[i - Len(s)]
<1>1. /\ s \o t \in Seq(Word) /\ Len(s) \in Nat /\ Len(t) \in Nat
      /\ Len(s \o t) = Len(s) + Len(t)
  BY ConcatProperties, LenProperties
<1>2. DOMAIN (s \o t) = 1..(Len(s) + Len(t))
  BY <1>1, LenProperties
<1>3. \A i \in 1..Len(s) + Len(t) :
          (s \o t)[i] = IF i <= Len(s) THEN s[i] ELSE t[i - Len(s)]
  BY ConcatProperties
<1>4. \A i \in 1..Len(s) : (s \o t)[i] = s[i]
  BY <1>1, <1>3
<1>5. \A i \in (Len(s) + 1)..(Len(s) + Len(t)) : (s \o t)[i] = t[i - Len(s)]
  BY <1>1, <1>3
<1> QED
  BY <1>1, <1>2, <1>4, <1>5

\* flush keeps the words before it and adds whole lines of data.
LEMMA FlushedLemma ==
    ASSUME TypeOK
    PROVE  /\ Flushed \in Seq(Word)
           /\ Len(Flushed) = Len(words) + 2 * ((data.bytes + 7) \div 8)
           /\ Len(words) \in Nat /\ Len(Flushed) \in Nat
           /\ Len(words) <= Len(Flushed)
           /\ \A i \in 1..Len(words) : Flushed[i] = words[i]
           /\ \A i \in (Len(words) + 1)..Len(Flushed) : Flushed[i].op = "data"
<1> DEFINE n == 2 * ((data.bytes + 7) \div 8)
           tail == PlainWords("data", n, data.src)
<1>1. /\ n \in Nat /\ words \in Seq(Word) /\ data.src \in SUBSET (Nat \ {0})
      /\ "data" \in Ops
  BY DEF TypeOK, Ops
<1>2. /\ tail \in Seq(Word) /\ Len(tail) = n
      /\ \A i \in 1..n : tail[i] = [op |-> "data", to |-> NoLabel, hi |-> 0,
                                    lo |-> 0, src |-> data.src]
  BY <1>1, PlainWordsLemma
<1>3. \A i \in 1..n : tail[i].op = "data"
  BY <1>2
<1>4. Flushed = words \o tail
  BY DEF Flushed
<1> HIDE DEF tail
<1>5. /\ Flushed \in Seq(Word)
      /\ Len(words) \in Nat /\ Len(Flushed) = Len(words) + n
      /\ \A i \in 1..Len(words) : Flushed[i] = words[i]
      /\ \A i \in (Len(words) + 1)..(Len(words) + n) : Flushed[i] = tail[i - Len(words)]
  BY <1>1, <1>2, <1>4, Joined
<1> HIDE DEF n
<1>6. \A i \in (Len(words) + 1)..Len(Flushed) : Flushed[i].op = "data"
  BY <1>1, <1>3, <1>5
<1>7. Len(Flushed) \in Nat /\ Len(words) <= Len(Flushed)
  BY <1>1, <1>5
<1> QED
  BY <1>5, <1>6, <1>7 DEF n

\* The statement that encodeSection has reached is recorded.
LEMMA AcceptsLemma ==
    ASSUME TypeOK, NEW kind \in Kinds, NEW name \in Labels \cup {NoLabel},
           Accepts(kind, name)
    PROVE  /\ source' \in Seq(Statement)
           /\ Current \in SUBSET (Nat \ {0})
<1>1. [kind |-> kind, name |-> name] \in Statement
  BY DEF Statement
<1>2. source \in Seq(Statement) /\ Len(source) \in Nat
  BY LenProperties DEF TypeOK
<1> QED
  BY <1>1, <1>2, AppendProperties DEF Accepts, Current

\* The words of a block: the first one is marked and knows its offset.
LEMMA BlockWordsLemma ==
    ASSUME TypeOK, NEW n \in BlockSizes, NEW at \in Nat
    PROVE  /\ BlockWords(n, at) \in Seq(Word)
           /\ Len(BlockWords(n, at)) = n
           /\ BlockWords(n, at)[1].op = "block" /\ BlockWords(n, at)[1].lo = at
           /\ \A i \in 2..n : BlockWords(n, at)[i].op = "word"
<1> DEFINE plain == PlainWords("word", n, Current)
           ws == BlockWords(n, at)
<1>1. /\ n \in Nat /\ n >= 2 /\ "word" \in Ops /\ "block" \in Ops
      /\ Current \in SUBSET (Nat \ {0})
  BY LayoutAssumption, LenProperties DEF TypeOK, Current, Ops
<1>2. plain = [i \in 1..n |-> [op |-> "word", to |-> NoLabel, hi |-> 0, lo |-> 0,
                               src |-> Current]]
  BY DEF PlainWords
<1>3. ws = [i \in 1..n |->
               IF i = 1 THEN [op |-> "block", to |-> NoLabel, hi |-> 0, lo |-> at,
                              src |-> Current]
                        ELSE [op |-> "word", to |-> NoLabel, hi |-> 0, lo |-> 0,
                              src |-> Current]]
  BY SMTT(30), <1>1, <1>2 DEF BlockWords
<1>4. ws \in [1..n -> Word]
  BY <1>1, <1>3 DEF Word
<1>5. ws \in Seq(Word)
  BY <1>1, <1>4, SeqDef
<1>6. Len(ws) = n
  BY <1>1, <1>4, <1>5, LenProperties
<1>7. ws[1].op = "block" /\ ws[1].lo = at /\ \A i \in 2..n : ws[i].op = "word"
  BY <1>1, <1>3
<1> QED
  BY <1>5, <1>6, <1>7

\* The words of a label reference.
LEMMA ReferenceLemma ==
    ASSUME TypeOK, NEW op \in Jumps, NEW l \in Labels, NEW n \in Nat
    PROVE  LET ws == <<Reference(op, l)>> \o PlainWords("word", n, Current)
           IN  /\ ws \in Seq(Word)
               /\ Len(ws) = n + 1
               /\ ws[1] = Reference(op, l)
               /\ \A i \in 2..(n + 1) : ws[i].op = "word"
<1> DEFINE plain == PlainWords("word", n, Current)
           first == <<Reference(op, l)>>
           ws == first \o plain
<1>1. /\ Current \in SUBSET (Nat \ {0})
      /\ "word" \in Ops /\ op \in Ops
  BY LenProperties DEF TypeOK, Current, Ops, Jumps
<1>2. Reference(op, l) \in Word
  BY <1>1 DEF Reference, Word
<1>3. /\ first \in Seq(Word) /\ Len(first) = 1 /\ first[1] = Reference(op, l)
  BY <1>2
<1>4. /\ plain \in Seq(Word) /\ Len(plain) = n
      /\ \A i \in 1..n : plain[i] = [op |-> "word", to |-> NoLabel, hi |-> 0,
                                     lo |-> 0, src |-> Current]
  BY <1>1, PlainWordsLemma
<1>5. \A i \in 1..n : plain[i].op = "word"
  BY <1>4
<1> HIDE DEF plain, first
<1>6. /\ ws \in Seq(Word) /\ Len(ws) = Len(first) + Len(plain)
      /\ \A i \in 1..Len(first) : ws[i] = first[i]
      /\ \A i \in (Len(first) + 1)..(Len(first) + Len(plain)) :
            ws[i] = plain[i - Len(first)]
  BY <1>3, <1>4, Joined
<1>7. ws[1] = Reference(op, l)
  BY <1>3, <1>6
<1>8. \A i \in 2..(n + 1) : ws[i] = plain[i - 1]
  BY <1>3, <1>4, <1>6
<1>9. ASSUME NEW i \in 2..(n + 1) PROVE ws[i].op = "word"
  <2>1. i - 1 \in 1..n
    OBVIOUS
  <2> QED
    BY <1>5, <1>8, <2>1
<1>10. Len(ws) = n + 1
  BY <1>3, <1>4, <1>6
<1> QED
  BY <1>6, <1>7, <1>9, <1>10 DEF plain, first

\* The fixup loop changes neither the number of words nor what they are, and
\* leaves every word alone that no fixup names.
LEMMA PatchedLemma ==
    ASSUME TypeOK, NEW ws \in Seq(Word)
    PROVE  /\ Patched(ws) \in Seq(Word)
           /\ Len(Patched(ws)) = Len(ws)
           /\ \A i \in 1..Len(ws) :
                 /\ Patched(ws)[i].op = ws[i].op
                 /\ (\A f \in fixes : f.index + 1 # i) => Patched(ws)[i] = ws[i]
<1> DEFINE Patches(i) == \E f \in fixes : f.index + 1 = i /\ Resolvable(f)
           Chosen(i) == CHOOSE f \in fixes : f.index + 1 = i /\ Resolvable(f)
<1>1. Len(ws) \in Nat /\ \A i \in 1..Len(ws) : ws[i] \in Word
  BY LenProperties, ElementOfSeq
<1>2. \A f \in fixes : Resolvable(f) => Displacement(f) \in Int
  BY SMTT(30) DEF TypeOK, Fixup, Resolvable, Displacement, TruncatedHalf, Undefined
<1>3. \A f \in fixes : Resolvable(f) => Unsigned(Displacement(f)) \in Nat
  BY <1>2, LayoutAssumption, Remainder DEF Unsigned
<1>4. \A w \in Word : \A f \in fixes :
          Resolvable(f) => Patch(w, f) \in Word /\ Patch(w, f).op = w.op
  BY <1>3 DEF Patch, Word
<1>5. \A i \in 1..Len(ws) : Patches(i) => Chosen(i) \in fixes /\ Resolvable(Chosen(i))
  OBVIOUS
<1> HIDE DEF Chosen
<1>6. Patched(ws) = [i \in 1..Len(ws) |->
                        IF Patches(i) THEN Patch(ws[i], Chosen(i)) ELSE ws[i]]
  BY DEF Patched, Chosen
<1> HIDE DEF Patches
<1>7. \A i \in 1..Len(ws) :
          /\ Patched(ws)[i] \in Word
          /\ Patched(ws)[i].op = ws[i].op
          /\ ~Patches(i) => Patched(ws)[i] = ws[i]
  BY <1>1, <1>4, <1>5, <1>6
<1>8. Patched(ws) \in [1..Len(ws) -> Word]
  BY <1>6, <1>7
<1>9. Patched(ws) \in Seq(Word)
  BY <1>1, <1>8, SeqDef
<1>10. Len(Patched(ws)) = Len(ws)
  BY <1>1, <1>8, <1>9, LenProperties
<1> QED
  BY <1>7, <1>9, <1>10 DEF Patches

----------------------------------------------------------------------------
(* Type correctness *)

\* Statements that emit words extend the words flushed before them.
LEMMA EmitsLemma ==
    ASSUME TypeOK, NEW ws \in Seq(Word), Emits(ws)
    PROVE  /\ words' \in Seq(Word)
           /\ Len(ws) \in Nat /\ Len(words') = Len(Flushed) + Len(ws)
           /\ \A i \in 1..Len(words) : words'[i] = words[i]
           /\ \A i \in (Len(words) + 1)..Len(Flushed) : words'[i].op = "data"
           /\ \A i \in (Len(Flushed) + 1)..(Len(Flushed) + Len(ws)) :
                 words'[i] = ws[i - Len(Flushed)]
           /\ data' \in [bytes : Nat, src : SUBSET (Nat \ {0})]
<1>1. words' = Flushed \o ws /\ data' = NoData
  BY DEF Emits
<1>2. /\ Flushed \in Seq(Word)
      /\ Len(words) \in Nat /\ Len(Flushed) \in Nat
      /\ Len(words) <= Len(Flushed)
      /\ \A i \in 1..Len(words) : Flushed[i] = words[i]
      /\ \A i \in (Len(words) + 1)..Len(Flushed) : Flushed[i].op = "data"
  BY FlushedLemma
<1>3. /\ words' \in Seq(Word)
      /\ Len(ws) \in Nat /\ Len(words') = Len(Flushed) + Len(ws)
      /\ \A i \in 1..Len(Flushed) : words'[i] = Flushed[i]
      /\ \A i \in (Len(Flushed) + 1)..(Len(Flushed) + Len(ws)) :
            words'[i] = ws[i - Len(Flushed)]
  BY <1>1, <1>2, Joined
<1>4. /\ \A i \in 1..Len(words) : words'[i] = words[i]
      /\ \A i \in (Len(words) + 1)..Len(Flushed) : words'[i].op = "data"
  BY <1>2, <1>3
<1> QED
  BY <1>1, <1>3, <1>4 DEF NoData

\* A statement that emits words and adds at most a fixup keeps the types.
LEMMA EmitsTypeOK ==
    ASSUME TypeOK, NEW kind \in Kinds, NEW name \in Labels \cup {NoLabel},
           NEW ws \in Seq(Word), Accepts(kind, name), Emits(ws),
           fixes' \in SUBSET Fixup
    PROVE  TypeOK'
<1>1. source' \in Seq(Statement)
  BY AcceptsLemma
<1>2. words' \in Seq(Word) /\ data' \in [bytes : Nat, src : SUBSET (Nat \ {0})]
  BY EmitsLemma
<1> QED
  BY <1>1, <1>2 DEF TypeOK, Emits

\* The words a goto or goto_f and its truncation leave: one or two.
LEMMA GotoWordsLemma ==
    ASSUME NEW kind
    PROVE  (IF kind = "goto_f" /\ ~policy["GotoFalse"] THEN 0 ELSE 1) \in Nat
  OBVIOUS

\* Init establishes the types.
LEMMA InitTypeOK == Init => TypeOK
<1> SUFFICES ASSUME Init PROVE TypeOK
  OBVIOUS
<1>1. codes \in Seq(Code) /\ words \in Seq(Word) /\ source \in Seq(Statement)
  BY EmptySeq DEF Init
<1> QED
  BY <1>1 DEF Init, TypeOK, NoData, NoLabels, Undefined

\* Every step keeps the types.
LEMMA NextTypeOK == TypeOK /\ [Next]_vars => TypeOK'
<1> SUFFICES ASSUME TypeOK, [Next]_vars PROVE TypeOK'
  OBVIOUS
<1> USE LayoutAssumption
<1>1. Current \in SUBSET (Nat \ {0}) /\ "word" \in Ops
  BY LenProperties DEF TypeOK, Current, Ops
<1>2. /\ Flushed \in Seq(Word) /\ Len(Flushed) \in Nat
  BY FlushedLemma
<1>3. fixes \in SUBSET Fixup /\ NoLabel \in Labels \cup {NoLabel}
  BY DEF TypeOK
<1>4. ASSUME NEW n \in DataSizes, EncodeData(n) PROVE TypeOK'
  <2>1. source' \in Seq(Statement)
    BY <1>4, AcceptsLemma DEF EncodeData, Kinds
  <2>2. data' \in [bytes : Nat, src : SUBSET (Nat \ {0})]
    <3>1. n \in Nat
      OBVIOUS
    <3>2. data.bytes \in Nat /\ data.src \in SUBSET (Nat \ {0})
      BY DEF TypeOK
    <3>3. data.src \cup Current \in SUBSET (Nat \ {0})
      BY <1>1, <3>2
    <3>4. data' = [bytes |-> data.bytes + n, src |-> data.src \cup Current]
      BY <1>4 DEF EncodeData
    <3> QED
      BY <3>1, <3>2, <3>3, <3>4
  <2> QED
    BY <1>4, <2>1, <2>2 DEF EncodeData, TypeOK
<1>5. ASSUME NEW l \in Labels, EncodeLabel(l) PROVE TypeOK'
  <2>1. source' \in Seq(Statement)
    BY <1>5, AcceptsLemma DEF EncodeLabel, Kinds
  <2>2. labels' \in [Labels -> Nat \cup {Undefined}]
    BY <1>2, <1>5 DEF EncodeLabel, TypeOK
  <2> QED
    BY <1>2, <1>5, <2>1, <2>2 DEF EncodeLabel, TypeOK, NoData
<1>6. CASE Fail
  <2>1. codes' \in Seq(Code)
    BY <1>6, EmptySeq DEF Fail
  <2> QED
    BY <1>6, <2>1 DEF Fail, TypeOK, section
<1>7. CASE EncodeRaw
  BY <1>1, <1>3, <1>7, PlainWordsLemma, EmitsTypeOK DEF EncodeRaw, Kinds
<1>8. ASSUME NEW n \in WriteSizes, EncodeWrite(n) PROVE TypeOK'
  <2>1. n \in Nat
    OBVIOUS
  <2> QED
    BY <1>1, <1>3, <1>8, <2>1, PlainWordsLemma, EmitsTypeOK DEF EncodeWrite, Kinds
<1>9. ASSUME NEW n \in BlockSizes, EncodeBlock(n) PROVE TypeOK'
  <2>1. offset + 4 * Len(Flushed) \in Nat
    BY <1>2 DEF TypeOK
  <2>2. BlockWords(n, offset + 4 * Len(Flushed)) \in Seq(Word)
    BY <2>1, BlockWordsLemma
  <2> QED
    BY <1>3, <1>9, <2>2, EmitsTypeOK DEF EncodeBlock, Kinds
<1>10. CASE EncodeDirective
  BY <1>1, <1>3, <1>10, PlainWordsLemma, EmitsTypeOK DEF EncodeDirective, Kinds
<1>11. CASE EncodeElseReset
  <2>1. (IF policy["ElseDirectives"] THEN 2 ELSE 0) \in Nat
    OBVIOUS
  <2> QED
    BY <1>1, <1>3, <1>11, <2>1, PlainWordsLemma, EmitsTypeOK
    DEF EncodeElseReset, Kinds
<1>12. ASSUME NEW l \in Labels, NEW kind \in {"goto", "goto_f"}, EncodeGoto(l, kind)
       PROVE  TypeOK'
  <2> DEFINE n == IF kind = "goto_f" /\ ~policy["GotoFalse"] THEN 0 ELSE 1
             ws == <<Reference("goto", l)>> \o PlainWords("word", n, Current)
  <2>1. ws \in Seq(Word)
    BY ReferenceLemma, GotoWordsLemma DEF Jumps
  <2>2. Accepts(kind, l) /\ Emits(ws)
    BY <1>12 DEF EncodeGoto
  <2>3. fixes' \in SUBSET Fixup
    <3> DEFINE f == [index |-> Len(Flushed), name |-> l, lines |-> TRUE]
    <3>1. f \in Fixup
      BY <1>2 DEF Fixup
    <3>2. fixes' = fixes \cup {f}
      BY <1>12 DEF EncodeGoto
    <3> HIDE DEF f
    <3> QED
      BY <1>3, <3>1, <3>2
  <2> HIDE DEF ws
  <2>4. kind \in Kinds
    BY DEF Kinds
  <2> QED
    BY <2>1, <2>2, <2>3, <2>4, EmitsTypeOK
<1>13. ASSUME NEW l \in Labels, EncodeBaseAddress(l) PROVE TypeOK'
  <2> DEFINE ws == <<Reference("ba", l)>> \o PlainWords("word", 1, Current)
  <2>1. ws \in Seq(Word)
    BY ReferenceLemma DEF Jumps
  <2>2. Accepts("ba", l) /\ Emits(ws)
    BY <1>13 DEF EncodeBaseAddress
  <2>3. fixes' \in SUBSET Fixup
    <3> DEFINE f == [index |-> Len(Flushed), name |-> l, lines |-> FALSE]
    <3>1. f \in Fixup
      BY <1>2 DEF Fixup
    <3>2. fixes' = fixes \cup {f}
      BY <1>13 DEF EncodeBaseAddress
    <3> HIDE DEF f
    <3> QED
      BY <1>3, <3>1, <3>2
  <2> HIDE DEF ws
  <2> QED
    BY <2>1, <2>2, <2>3, EmitsTypeOK DEF Kinds
<1>14. ASSUME NEW last \in BOOLEAN, EndSection(last) PROVE TypeOK'
  <2> DEFINE ws == Patched(Complete(last))
             c == [offset |-> offset, words |-> ws, source |-> source]
  <2>1. Complete(last) \in Seq(Word)
    BY <1>2 DEF Complete, TypeOK
  <2>2. ws \in Seq(Word) /\ Len(ws) \in Nat
    BY <2>1, PatchedLemma, LenProperties
  <2>3. /\ codes' = Append(codes, c)
        /\ offset' = offset + 4 * Len(ws)
        /\ phase' \in {"encode", "done"}
        /\ policy' = policy
        /\ BeginSection
    BY <1>14 DEF EndSection
  <2> HIDE DEF ws
  <2>4. c \in Code
    BY <2>2 DEF Code, TypeOK
  <2>5. codes' \in Seq(Code)
    BY <2>3, <2>4, AppendProperties DEF TypeOK
  <2>6. words' \in Seq(Word) /\ source' \in Seq(Statement)
    BY <2>3, EmptySeq DEF BeginSection
  <2> QED
    BY <2>2, <2>3, <2>5, <2>6 DEF TypeOK, BeginSection, NoData, NoLabels, Undefined
<1>15. CASE UNCHANGED vars
  BY <1>15 DEF vars, TypeOK
<1> QED
  BY <1>4, <1>5, <1>6, <1>7, <1>8, <1>9, <1>10, <1>11, <1>12, <1>13, <1>14, <1>15
  DEF Next, RejectLabel, StatementFails, RejectSection

\* Every reachable state is well typed: in particular every word that the
\* fixup loop of encodeSection patches still is a word, for every bound on
\* displacements.
THEOREM TypeCorrect == Spec => []TypeOK
  BY InitTypeOK, NextTypeOK, PTL DEF Spec

----------------------------------------------------------------------------
(* Where blocks and lines end up. BlockOffsetsAreFinal and LinesFramed speak *)
(* of finished sections only; the section being encoded needs its own parts *)
(* of the inductive invariant, and the fixups must not touch a block.       *)

\* The blocks among ws know their offset in a file that has ws at offset at.
Placed(ws, at) ==
    \A i \in 1..Len(ws) : ws[i].op = "block" => ws[i].lo = at + 4 * (i - 1)

\* The commands among ws that the handler must find start a line.
Aligned(ws) ==
    \A i \in 1..Len(ws) : ws[i].op \in Jumps \cup {"block"} => i % 2 = 1

WholeLines(ws) == Len(ws) % 2 = 0 /\ Aligned(ws)

FixesNameJumps ==
    \A f \in fixes : f.index + 1 \in 1..Len(words) /\ words[f.index + 1].op \in Jumps

SectionInv ==
    /\ FixesNameJumps
    /\ Placed(words, offset)
    /\ policy["GotoFalse"] => WholeLines(words)
    /\ policy["GotoFalse"] \/ policy["GeckoLineFraming"] => offset % 8 = 0

LayoutInv == TypeOK /\ SectionInv /\ BlockOffsetsAreFinal /\ LinesFramed

\* flush adds no command, and whole lines.
LEMMA FlushedSection ==
    ASSUME TypeOK, SectionInv
    PROVE  /\ Placed(Flushed, offset)
           /\ policy["GotoFalse"] => WholeLines(Flushed)
           /\ \A f \in fixes : f.index + 1 \in 1..Len(Flushed)
                                /\ Flushed[f.index + 1].op \in Jumps
<1>1. /\ Len(Flushed) = Len(words) + 2 * ((data.bytes + 7) \div 8)
      /\ Len(words) \in Nat /\ Len(Flushed) \in Nat
      /\ Len(words) <= Len(Flushed)
      /\ \A i \in 1..Len(words) : Flushed[i] = words[i]
      /\ \A i \in (Len(words) + 1)..Len(Flushed) : Flushed[i].op = "data"
  BY FlushedLemma
<1>2. (data.bytes + 7) \div 8 \in Nat
  BY DEF TypeOK
<1>3. ASSUME NEW i \in 1..Len(Flushed), Flushed[i].op \in Jumps \cup {"block"}
      PROVE  i \in 1..Len(words) /\ Flushed[i] = words[i]
  BY <1>1, <1>3 DEF Jumps
<1>4. Placed(Flushed, offset)
  BY <1>3 DEF Placed, SectionInv
<1>5. ASSUME policy["GotoFalse"] PROVE WholeLines(Flushed)
  <2>1. Len(words) % 2 = 0 /\ Aligned(words)
    BY <1>5 DEF SectionInv, WholeLines
  <2>2. Len(Flushed) % 2 = 0
    BY <1>1, <1>2, <2>1
  <2>3. Aligned(Flushed)
    BY <1>3, <2>1 DEF Aligned
  <2> QED
    BY <2>2, <2>3 DEF WholeLines
<1>6. ASSUME NEW f \in fixes
      PROVE  f.index + 1 \in 1..Len(Flushed) /\ Flushed[f.index + 1].op \in Jumps
  <2>1. f.index + 1 \in 1..Len(words) /\ words[f.index + 1].op \in Jumps
    BY DEF SectionInv, FixesNameJumps
  <2> QED
    BY <1>1, <2>1
<1> QED
  BY <1>4, <1>5, <1>6

\* A statement whose words are placed and framed for themselves keeps the
\* section so.
LEMMA EmitsSection ==
    ASSUME TypeOK, SectionInv, NEW ws \in Seq(Word), Emits(ws),
           Placed(ws, offset + 4 * Len(Flushed)),
           policy["GotoFalse"] => WholeLines(ws),
           \A f \in fixes' :
               f \in fixes \/ (f.index = Len(Flushed) /\ Len(ws) > 0 /\ ws[1].op \in Jumps)
    PROVE  SectionInv'
<1>1. /\ Len(ws) \in Nat /\ Len(words') = Len(Flushed) + Len(ws)
      /\ \A i \in 1..Len(words) : words'[i] = words[i]
      /\ \A i \in (Len(words) + 1)..Len(Flushed) : words'[i].op = "data"
      /\ \A i \in (Len(Flushed) + 1)..(Len(Flushed) + Len(ws)) :
            words'[i] = ws[i - Len(Flushed)]
  BY EmitsLemma
<1>2. Len(words) \in Nat /\ Len(Flushed) \in Nat /\ Len(words) <= Len(Flushed)
  BY FlushedLemma
<1>3. offset \in Nat /\ offset' = offset /\ policy' = policy
  BY DEF TypeOK, Emits
<1>4. policy["GotoFalse"] => WholeLines(Flushed)
  BY FlushedSection
<1>5. ASSUME NEW i \in 1..Len(words'), words'[i].op \in Jumps \cup {"block"}
      PROVE  \/ i \in 1..Len(words) /\ words'[i] = words[i]
             \/ /\ i - Len(Flushed) \in 1..Len(ws)
                /\ words'[i] = ws[i - Len(Flushed)]
  BY <1>1, <1>2, <1>5 DEF Jumps
<1>6. Placed(words', offset')
  <2> SUFFICES ASSUME NEW i \in 1..Len(words'), words'[i].op = "block"
               PROVE  words'[i].lo = offset + 4 * (i - 1)
    BY <1>3 DEF Placed
  <2>1. CASE i \in 1..Len(words) /\ words'[i] = words[i]
    BY <2>1 DEF SectionInv, Placed
  <2>2. CASE i - Len(Flushed) \in 1..Len(ws) /\ words'[i] = ws[i - Len(Flushed)]
    <3>1. words'[i].lo = (offset + 4 * Len(Flushed)) + 4 * (i - Len(Flushed) - 1)
      BY <2>2 DEF Placed
    <3> QED
      BY <1>1, <1>2, <1>3, <3>1
  <2> QED
    BY <1>5, <2>1, <2>2
<1>7. ASSUME policy["GotoFalse"] PROVE WholeLines(words')
  <2>1. Len(ws) % 2 = 0 /\ Aligned(ws) /\ Len(Flushed) % 2 = 0 /\ Aligned(words)
    BY <1>4, <1>7 DEF WholeLines, SectionInv
  <2>2. Len(words') % 2 = 0
    BY <1>1, <1>2, <2>1
  <2>3. ASSUME NEW i \in 1..Len(words'), words'[i].op \in Jumps \cup {"block"}
        PROVE  i % 2 = 1
    <3>1. CASE i \in 1..Len(words) /\ words'[i] = words[i]
      BY <2>1, <2>3, <3>1 DEF Aligned
    <3>2. CASE i - Len(Flushed) \in 1..Len(ws) /\ words'[i] = ws[i - Len(Flushed)]
      <4>1. (i - Len(Flushed)) % 2 = 1
        BY <2>1, <2>3, <3>2 DEF Aligned
      <4>2. i \in Int /\ Len(Flushed) \in Int
        BY <1>1, <1>2
      <4> QED
        BY <2>1, <4>1, <4>2, SameParity
    <3> QED
      BY <1>5, <2>3, <3>1, <3>2
  <2> QED
    BY <2>2, <2>3 DEF WholeLines, Aligned
<1>8. ASSUME NEW f \in fixes'
      PROVE  f.index + 1 \in 1..Len(words') /\ words'[f.index + 1].op \in Jumps
  <2>1. CASE f \in fixes
    <3>1. f.index + 1 \in 1..Len(words) /\ words[f.index + 1].op \in Jumps
      BY <2>1 DEF SectionInv, FixesNameJumps
    <3> QED
      BY <1>1, <1>2, <3>1
  <2>2. CASE f.index = Len(Flushed) /\ Len(ws) > 0 /\ ws[1].op \in Jumps
    BY <1>1, <1>2, <2>2
  <2> QED
    BY <2>1, <2>2
<1> QED
  BY <1>3, <1>6, <1>7, <1>8 DEF SectionInv, FixesNameJumps

\* What was said of the finished sections remains true while they do not change.
LEMMA SameSections ==
    ASSUME BlockOffsetsAreFinal, LinesFramed, codes' = codes, policy' = policy
    PROVE  BlockOffsetsAreFinal' /\ LinesFramed'
  BY DEF BlockOffsetsAreFinal, LinesFramed

\* Words without a command are placed and framed.
LEMMA PlainSection ==
    ASSUME NEW n \in Nat, n % 2 = 0, NEW origin \in SUBSET (Nat \ {0}), NEW at
    PROVE  /\ PlainWords("word", n, origin) \in Seq(Word)
           /\ Placed(PlainWords("word", n, origin), at)
           /\ WholeLines(PlainWords("word", n, origin))
<1> DEFINE ws == PlainWords("word", n, origin)
<1>1. /\ ws \in Seq(Word) /\ Len(ws) = n
      /\ \A i \in 1..n : ws[i] = [op |-> "word", to |-> NoLabel, hi |-> 0, lo |-> 0,
                                  src |-> origin]
  BY ZenonT(30), PlainWordsLemma DEF Ops
<1>2. \A i \in 1..Len(ws) : ws[i].op = "word"
  BY <1>1
<1> HIDE DEF ws
<1>3. Placed(ws, at) /\ WholeLines(ws)
  BY <1>1, <1>2 DEF Placed, WholeLines, Aligned, Jumps
<1> QED
  BY <1>1, <1>3 DEF ws

\* A block is placed by the offset encodeBlock is told, and framed.
LEMMA BlockSection ==
    ASSUME TypeOK, NEW n \in BlockSizes, NEW at \in Nat
    PROVE  /\ BlockWords(n, at) \in Seq(Word)
           /\ Placed(BlockWords(n, at), at)
           /\ WholeLines(BlockWords(n, at))
<1> DEFINE ws == BlockWords(n, at)
<1>1. /\ ws \in Seq(Word) /\ Len(ws) = n
      /\ ws[1].op = "block" /\ ws[1].lo = at
      /\ \A i \in 2..n : ws[i].op = "word"
  BY BlockWordsLemma
<1>2. n \in Nat /\ n % 2 = 0
  BY LayoutAssumption
<1> HIDE DEF ws
<1>3. ASSUME NEW i \in 1..n PROVE i = 1 \/ ws[i].op = "word"
  BY <1>1, <1>2
<1>4. Placed(ws, at)
  BY <1>1, <1>2, <1>3 DEF Placed
<1>5. WholeLines(ws)
  BY <1>1, <1>2, <1>3 DEF WholeLines, Aligned, Jumps
<1> QED
  BY <1>1, <1>4, <1>5 DEF ws

\* A reference is no block, and one that has its second word is framed.
LEMMA ReferenceSection ==
    ASSUME TypeOK, NEW op \in Jumps, NEW l \in Labels, NEW n \in {0, 1}, NEW at
    PROVE  LET ws == <<Reference(op, l)>> \o PlainWords("word", n, Current)
           IN  /\ ws \in Seq(Word) /\ Len(ws) > 0 /\ ws[1].op \in Jumps
               /\ Placed(ws, at)
               /\ n = 1 => WholeLines(ws)
<1> DEFINE ws == <<Reference(op, l)>> \o PlainWords("word", n, Current)
<1>1. n \in Nat
  OBVIOUS
<1>2. /\ ws \in Seq(Word) /\ Len(ws) = n + 1 /\ ws[1] = Reference(op, l)
      /\ \A i \in 2..(n + 1) : ws[i].op = "word"
  BY <1>1, ReferenceLemma
<1>3. ws[1].op = op
  BY <1>2 DEF Reference
<1> HIDE DEF ws
<1>4. ASSUME NEW i \in 1..Len(ws) PROVE ws[i].op # "block" /\ (i = 1 \/ ws[i].op = "word")
  BY <1>1, <1>2, <1>3 DEF Jumps
<1>5. Placed(ws, at)
  BY <1>4 DEF Placed
<1>6. n = 1 => WholeLines(ws)
  BY <1>2, <1>4 DEF WholeLines, Aligned, Jumps
<1> QED
  BY <1>1, <1>2, <1>3, <1>5, <1>6 DEF ws

\* The section of a codeset starts empty.
LEMMA InitLayout == Init => LayoutInv
<1> SUFFICES ASSUME Init PROVE LayoutInv
  OBVIOUS
<1>1. TypeOK
  BY InitTypeOK
<1>2. words = <<>> /\ codes = <<>> /\ fixes = {} /\ offset = 8
  BY DEF Init
<1>3. Len(words) = 0 /\ DOMAIN codes = {}
  BY <1>2
<1>4. SectionInv
  BY <1>2, <1>3 DEF SectionInv, FixesNameJumps, Placed, WholeLines, Aligned
<1>5. BlockOffsetsAreFinal /\ LinesFramed
  BY <1>3 DEF BlockOffsetsAreFinal, LinesFramed
<1> QED
  BY <1>1, <1>4, <1>5 DEF LayoutInv

\* What a finished section must satisfy.
Finished(c) ==
    /\ Placed(c.words, c.offset)
    /\ policy["GotoFalse"] => Aligned(c.words)
    /\ policy["GotoFalse"] \/ policy["GeckoLineFraming"] =>
           c.offset % 8 = 0 /\ Len(c.words) % 2 = 0

\* The properties of the finished sections, one section at a time.
LEMMA FinishedSections ==
    ASSUME TypeOK
    PROVE  BlockOffsetsAreFinal /\ LinesFramed <=> \A k \in 1..Len(codes) : Finished(codes[k])
<1>1. DOMAIN codes = 1..Len(codes)
  BY LenProperties DEF TypeOK
<1>2. ASSUME NEW k \in 1..Len(codes) PROVE DOMAIN codes[k].words = 1..Len(codes[k].words)
  <2>1. codes[k] \in Code
    BY ElementOfSeq DEF TypeOK
  <2> QED
    BY <2>1, LenProperties DEF Code
<1> QED
  BY <1>1, <1>2 DEF BlockOffsetsAreFinal, LinesFramed, Finished, Placed, Aligned

\* The fixups leave what a section's words are, and its blocks altogether.
LEMMA PatchedSection ==
    ASSUME TypeOK, NEW ws \in Seq(Word),
           \A f \in fixes : f.index + 1 \in 1..Len(ws) /\ ws[f.index + 1].op \in Jumps,
           Placed(ws, offset)
    PROVE  /\ Placed(Patched(ws), offset)
           /\ Aligned(ws) => Aligned(Patched(ws))
<1>1. /\ Len(Patched(ws)) = Len(ws)
      /\ \A i \in 1..Len(ws) :
            /\ Patched(ws)[i].op = ws[i].op
            /\ (\A f \in fixes : f.index + 1 # i) => Patched(ws)[i] = ws[i]
  BY PatchedLemma
<1>2. ASSUME NEW i \in 1..Len(ws), ws[i].op = "block" PROVE Patched(ws)[i] = ws[i]
  <2>1. \A f \in fixes : f.index + 1 # i
    BY <1>2 DEF Jumps
  <2> QED
    BY <1>1, <2>1
<1>3. Placed(Patched(ws), offset)
  BY <1>1, <1>2 DEF Placed
<1>4. Aligned(ws) => Aligned(Patched(ws))
  BY <1>1 DEF Aligned
<1> QED
  BY <1>3, <1>4

\* The words that encodeSection returns, before and after its fixups.
LEMMA CompleteSection ==
    ASSUME TypeOK, SectionInv, NEW last \in BOOLEAN
    PROVE  /\ Complete(last) \in Seq(Word)
           /\ Placed(Patched(Complete(last)), offset)
           /\ policy["GotoFalse"] => WholeLines(Patched(Complete(last)))
           /\ Len(Patched(Complete(last))) = Len(Complete(last))
<1> DEFINE ws == Complete(last)
<1>1. /\ ws \in Seq(Word)
      /\ Placed(ws, offset)
      /\ policy["GotoFalse"] => WholeLines(ws)
      /\ \A f \in fixes : f.index + 1 \in 1..Len(ws) /\ ws[f.index + 1].op \in Jumps
  <2>1. CASE ws = Flushed
    BY <2>1, FlushedSection, FlushedLemma
  <2>2. CASE ws = words
    BY <2>2 DEF TypeOK, SectionInv, FixesNameJumps
  <2> QED
    BY <2>1, <2>2 DEF Complete
<1> HIDE DEF ws
<1>2. Placed(Patched(ws), offset) /\ (Aligned(ws) => Aligned(Patched(ws)))
  BY <1>1, PatchedSection
<1>3. Len(Patched(ws)) = Len(ws)
  BY <1>1, PatchedLemma
<1> QED
  BY <1>1, <1>2, <1>3 DEF WholeLines, ws

\* Finishing a section: it is placed and framed, and the next one starts at
\* its end.
LEMMA EndSectionLayout ==
    ASSUME LayoutInv, NEW last \in BOOLEAN, EndSection(last), TypeOK'
    PROVE  SectionInv' /\ BlockOffsetsAreFinal' /\ LinesFramed'
<1> DEFINE ws == Patched(Complete(last))
           c == [offset |-> offset, words |-> ws, source |-> source]
<1>1. TypeOK /\ SectionInv /\ offset \in Nat
  BY DEF LayoutInv, TypeOK
<1>2. Complete(last) \in Seq(Word) /\ ws \in Seq(Word) /\ Len(ws) \in Nat
  BY <1>1, CompleteSection, PatchedLemma, LenProperties
<1>3. /\ Placed(ws, offset)
      /\ policy["GotoFalse"] => WholeLines(ws)
  BY <1>1, CompleteSection
<1>4. /\ ~Unframed(ws)
      /\ codes' = Append(codes, c)
      /\ offset' = offset + 4 * Len(ws)
      /\ policy' = policy
      /\ words' = <<>> /\ fixes' = {}
  BY DEF EndSection, BeginSection
<1> HIDE DEF ws
<1>5. policy["GotoFalse"] \/ policy["GeckoLineFraming"] => Len(ws) % 2 = 0
  BY <1>3, <1>4 DEF Unframed, WholeLines
<1>6. policy["GotoFalse"] \/ policy["GeckoLineFraming"] => offset % 8 = 0
  BY <1>1 DEF SectionInv
<1>7. policy["GotoFalse"] \/ policy["GeckoLineFraming"] => offset' % 8 = 0
  BY <1>1, <1>2, <1>4, <1>5, <1>6, LinesAdvance
<1>8. Len(<<>>) = 0
  OBVIOUS
<1>9. SectionInv'
  BY <1>4, <1>7, <1>8 DEF SectionInv, FixesNameJumps, Placed, WholeLines, Aligned
<1>10. Finished(c)
  BY <1>3, <1>5, <1>6 DEF Finished, WholeLines
<1>11. \A k \in 1..Len(codes) : Finished(codes[k])
  BY <1>1, FinishedSections DEF LayoutInv
<1>12. c \in Code /\ codes \in Seq(Code)
  BY <1>1, <1>2 DEF Code, TypeOK
<1>13. /\ Len(codes') = Len(codes) + 1 /\ Len(codes) \in Nat
       /\ \A k \in 1..Len(codes) : codes'[k] = codes[k]
       /\ codes'[Len(codes) + 1] = c
  BY <1>4, <1>12, AppendProperties, LenProperties
<1>14. \A k \in 1..Len(codes') : Finished(codes'[k])
  BY <1>10, <1>11, <1>13
<1>15. \A k \in 1..Len(codes') : Finished(codes[k])'
  BY <1>4, <1>14 DEF Finished
<1>16. (BlockOffsetsAreFinal /\ LinesFramed <=> \A k \in 1..Len(codes) : Finished(codes[k]))'
  BY FinishedSections, PTL
<1> QED
  BY <1>9, <1>15, <1>16

\* A statement that emits words and changes no label.
LEMMA EmitsLayout ==
    ASSUME LayoutInv, TypeOK', NEW ws \in Seq(Word), Emits(ws),
           Placed(ws, offset + 4 * Len(Flushed)),
           policy["GotoFalse"] => WholeLines(ws),
           \A f \in fixes' :
               f \in fixes \/ (f.index = Len(Flushed) /\ Len(ws) > 0 /\ ws[1].op \in Jumps)
    PROVE  LayoutInv'
<1>1. SectionInv'
  BY EmitsSection DEF LayoutInv
<1>2. BlockOffsetsAreFinal' /\ LinesFramed'
  BY SameSections DEF LayoutInv, Emits
<1> QED
  BY <1>1, <1>2 DEF LayoutInv

\* Every step keeps blocks and lines where the handler looks for them.
LEMMA NextLayout == LayoutInv /\ [Next]_vars => LayoutInv'
<1> SUFFICES ASSUME LayoutInv, [Next]_vars PROVE LayoutInv'
  OBVIOUS
<1> DEFINE at == offset + 4 * Len(Flushed)
<1>1. TypeOK /\ SectionInv /\ BlockOffsetsAreFinal /\ LinesFramed /\ TypeOK'
  BY NextTypeOK DEF LayoutInv
<1>2. /\ Current \in SUBSET (Nat \ {0})
      /\ Len(Flushed) \in Nat /\ at \in Nat
  BY SMTT(30), <1>1, FlushedLemma, LenProperties DEF TypeOK, Current
<1> HIDE DEF at
<1>3. ASSUME UNCHANGED <<policy, codes, offset, words, fixes>> PROVE LayoutInv'
  <2>1. SectionInv'
    BY <1>1, <1>3 DEF SectionInv, FixesNameJumps, Placed, WholeLines, Aligned
  <2> QED
    BY <1>1, <1>3, <2>1, SameSections DEF LayoutInv
<1>4. ASSUME NEW n \in DataSizes, EncodeData(n) PROVE LayoutInv'
  BY <1>3, <1>4 DEF EncodeData
<1>5. ASSUME NEW l \in Labels, EncodeLabel(l) PROVE LayoutInv'
  <2>1. words' = Flushed /\ UNCHANGED <<policy, codes, offset, fixes>>
    BY <1>5 DEF EncodeLabel
  <2>2. /\ Placed(Flushed, offset)
        /\ policy["GotoFalse"] => WholeLines(Flushed)
        /\ \A f \in fixes : f.index + 1 \in 1..Len(Flushed)
                             /\ Flushed[f.index + 1].op \in Jumps
    BY <1>1, FlushedSection
  <2>3. SectionInv'
    BY <1>1, <2>1, <2>2 DEF SectionInv, FixesNameJumps, Placed, WholeLines, Aligned
  <2> QED
    BY <1>1, <2>1, <2>3, SameSections DEF LayoutInv
<1>6. CASE Fail
  <2>1. SectionInv'
    BY <1>1, <1>6 DEF Fail, section, SectionInv, FixesNameJumps, Placed, WholeLines,
                      Aligned
  <2>2. codes' = <<>> /\ DOMAIN codes' = {}
    BY <1>6 DEF Fail
  <2>3. BlockOffsetsAreFinal' /\ LinesFramed'
    BY <2>2 DEF BlockOffsetsAreFinal, LinesFramed
  <2> QED
    BY <1>1, <2>1, <2>3 DEF LayoutInv
<1>7. ASSUME NEW n \in Nat, n % 2 = 0, Emits(PlainWords("word", n, Current)),
             UNCHANGED fixes
      PROVE  LayoutInv'
  <2> DEFINE ws == PlainWords("word", n, Current)
  <2>1. ws \in Seq(Word) /\ Placed(ws, at) /\ WholeLines(ws)
    BY <1>2, <1>7, PlainSection
  <2>2. Emits(ws) /\ \A f \in fixes' : f \in fixes
    BY <1>7
  <2> HIDE DEF ws
  <2> QED
    BY <1>1, <2>1, <2>2, EmitsLayout DEF at
<1>8. CASE EncodeRaw
  BY <1>7, <1>8 DEF EncodeRaw
<1>9. ASSUME NEW n \in WriteSizes, EncodeWrite(n) PROVE LayoutInv'
  <2>1. n \in Nat /\ n % 2 = 0
    BY LayoutAssumption
  <2> QED
    BY <1>7, <1>9, <2>1 DEF EncodeWrite
<1>10. ASSUME NEW n \in BlockSizes, EncodeBlock(n) PROVE LayoutInv'
  <2> DEFINE ws == BlockWords(n, at)
  <2>1. ws \in Seq(Word) /\ Placed(ws, at) /\ WholeLines(ws)
    BY <1>1, <1>2, BlockSection
  <2>2. Emits(ws) /\ \A f \in fixes' : f \in fixes
    BY <1>10 DEF EncodeBlock, at
  <2> HIDE DEF ws
  <2> QED
    BY <1>1, <2>1, <2>2, EmitsLayout DEF at
<1>11. CASE EncodeDirective
  BY <1>7, <1>11 DEF EncodeDirective
<1>12. CASE EncodeElseReset
  BY <1>7, <1>12 DEF EncodeElseReset
<1>13. ASSUME NEW l \in Labels, NEW kind \in {"goto", "goto_f"}, EncodeGoto(l, kind)
       PROVE  LayoutInv'
  <2> DEFINE n == IF kind = "goto_f" /\ ~policy["GotoFalse"] THEN 0 ELSE 1
             ws == <<Reference("goto", l)>> \o PlainWords("word", n, Current)
             f == [index |-> Len(Flushed), name |-> l, lines |-> TRUE]
  <2>1. Emits(ws) /\ fixes' = fixes \cup {f}
    BY <1>13 DEF EncodeGoto
  <2>2. n \in {0, 1} /\ (policy["GotoFalse"] => n = 1)
    OBVIOUS
  <2> HIDE DEF n
  <2>3. /\ ws \in Seq(Word) /\ Len(ws) > 0 /\ ws[1].op \in Jumps
        /\ Placed(ws, at)
        /\ n = 1 => WholeLines(ws)
    BY <1>1, <2>2, ReferenceSection DEF Jumps
  <2> HIDE DEF ws
  <2>4. f.index = Len(Flushed)
    OBVIOUS
  <2> HIDE DEF f
  <2> QED
    BY <1>1, <2>1, <2>2, <2>3, <2>4, EmitsLayout DEF at
<1>14. ASSUME NEW l \in Labels, EncodeBaseAddress(l) PROVE LayoutInv'
  <2> DEFINE ws == <<Reference("ba", l)>> \o PlainWords("word", 1, Current)
             f == [index |-> Len(Flushed), name |-> l, lines |-> FALSE]
  <2>1. Emits(ws) /\ fixes' = fixes \cup {f}
    BY <1>14 DEF EncodeBaseAddress
  <2>2. /\ ws \in Seq(Word) /\ Len(ws) > 0 /\ ws[1].op \in Jumps
        /\ Placed(ws, at) /\ WholeLines(ws)
    BY <1>1, ReferenceSection DEF Jumps
  <2> HIDE DEF ws
  <2>3. f.index = Len(Flushed)
    OBVIOUS
  <2> HIDE DEF f
  <2> QED
    BY <1>1, <2>1, <2>2, <2>3, EmitsLayout DEF at
<1>15. ASSUME NEW last \in BOOLEAN, EndSection(last) PROVE LayoutInv'
  BY <1>1, <1>15, EndSectionLayout DEF LayoutInv
<1>16. CASE UNCHANGED vars
  BY <1>3, <1>16 DEF vars
<1> QED
  BY <1>4, <1>5, <1>6, <1>8, <1>9, <1>10, <1>11, <1>12, <1>13, <1>14, <1>15, <1>16
  DEF Next, RejectLabel, StatementFails, RejectSection

\* In every reachable state, the offset that encodeBlock was told for a block of
\* a finished section is where the block lies in the file, for every codeset:
\* neither later flushes and fixups nor the sections in front of it move it.
THEOREM BlocksStayPut == Spec => []BlockOffsetsAreFinal
<1>1. LayoutInv => BlockOffsetsAreFinal
  BY DEF LayoutInv
<1> QED
  BY <1>1, InitLayout, NextLayout, PTL DEF Spec

\* In every reachable state, the sections consist of whole lines and the
\* commands that the handler must find start one, whenever .GOTO_F emits its
\* second word; gecko_line_framing alone guarantees the former.
THEOREM SectionsAreLines == Spec => []LinesFramed
<1>1. LayoutInv => LinesFramed
  BY DEF LayoutInv
<1> QED
  BY <1>1, InitLayout, NextLayout, PTL DEF Spec

----------------------------------------------------------------------------
(* Labels, references and data *)


LabelOf(l) == [kind |-> "label", name |-> l]

\* Statement d is the first definition of l.
First(statements, l, d) ==
    /\ d \in 1..Len(statements) /\ statements[d] = LabelOf(l)
    /\ \A e \in 1..(d - 1) : statements[e] # LabelOf(l)

\* The first n of the words are those of the statements before d.
Parted(ws, n, d) ==
    /\ n \in 0..Len(ws)
    /\ \A i \in 1..Len(ws) : \A e \in ws[i].src : IF i <= n THEN e < d ELSE e > d

\* No word is from a statement that was not read yet.
SourcesRead ==
    /\ \A i \in 1..Len(words) : \A e \in words[i].src : e <= Len(source)
    /\ \A e \in data.src : e <= Len(source)

\* A label is defined when its first definition has been read, at the place that parts
\* the words before it from those behind it.
LabelPlaced(l) ==
    /\ labels[l] = Undefined => \A e \in 1..Len(source) : source[e] # LabelOf(l)
    /\ labels[l] # Undefined =>
           \E d \in 1..Len(source) : /\ First(source, l, d) /\ Parted(words, labels[l], d)
                                     /\ \A e \in data.src : e > d

\* A fixup names a reference, and it is what the directive said.
FixupOK(f) ==
    /\ f.index + 1 \in 1..Len(words)
    /\ words[f.index + 1].op = (IF f.lines THEN "goto" ELSE "ba")
    /\ words[f.index + 1].to = f.name

\* Every reference has a fixup, and is not patched yet.
ReferenceOK(w, i) ==
    w.op \in Jumps => w.hi = 0 /\ w.lo = 0 /\ \E f \in fixes : f.index + 1 = i

ReferencesOK ==
    /\ \A f \in fixes : FixupOK(f)
    /\ \A i \in 1..Len(words) : ReferenceOK(words[i], i)

\* The bytes of a data statement are pending, or in the words.
DataKept ==
    /\ data.src # {} => data.bytes > 0
    /\ \A d \in 1..Len(source) :
           source[d].kind = "data" =>
               d \in data.src \/ \E i \in 1..Len(words) : d \in words[i].src

OpenSectionOK ==
    SourcesRead /\ (\A l \in Labels : LabelPlaced(l)) /\ ReferencesOK /\ DataKept

\* JumpsLand, ReferencesResolved and DataReachesImage of one finished section.
Lands(c) ==
    policy["GeckoLabelOffsets"] =>
        \A i \in 1..Len(c.words) :
            c.words[i].op \in Jumps /\ Defines(c, c.words[i].to) =>
                /\ c.words[i].hi = 0
                /\ StandsAt(c, FirstDefinition(c, c.words[i].to), Landing(c, i))

Resolved(c) ==
    \A i \in 1..Len(c.words) :
        c.words[i].op \in Jumps /\ ~Defines(c, c.words[i].to) =>
            ~policy["MissingLabels"] /\ c.words[i].hi = 0 /\ c.words[i].lo = 0

KeepsData(c) ==
    \A d \in 1..Len(c.source) :
        c.source[d].kind = "data" => \E i \in 1..Len(c.words) : d \in c.words[i].src

FinishedOK ==
    \A k \in 1..Len(codes) :
        /\ Lands(codes[k]) /\ Resolved(codes[k])
        /\ KeepsData(codes[k])
               \/ (k = Len(codes) /\ phase # "encode" /\ ~policy["RawDataEOF"])

JumpsInv == TypeOK /\ OpenSectionOK /\ FinishedOK

----------------------------------------------------------------------------
(* Displacements *)

\* The remainder of a number below the divisor, and of one just below zero.
LEMMA SmallRemainder ==
    ASSUME NEW b \in Nat \ {0}, NEW n \in Int
    PROVE  /\ 0 <= n /\ n < b => n % b = n
           /\ -b <= n /\ n < 0 => n % b = n + b
           /\ b <= n /\ n < 2 * b => n % b = n - b
<1>1. PICK q \in Int, r \in Int : q = n \div b /\ r = n % b
  OBVIOUS
<1>2. n = b * q + r /\ 0 <= r /\ r < b
  BY <1>1
<1>3. q >= 1 => b * q >= b
  OBVIOUS
<1>4. q <= -1 => b * q <= -b
  OBVIOUS
<1>5. q <= -2 => b * q <= -(2 * b)
  OBVIOUS
<1>6. q >= 2 => b * q >= 2 * b
  OBVIOUS
<1>7. ASSUME 0 <= n, n < b PROVE r = n
  <2>1. q = 0
    BY <1>2, <1>3, <1>4, <1>7
  <2>2. b * q = 0
    BY <2>1
  <2> QED
    BY <1>2, <2>2
<1>8. ASSUME -b <= n, n < 0 PROVE r = n + b
  <2>1. q >= 0 => b * q >= 0
    OBVIOUS
  <2>2. q = -1
    BY <1>2, <1>5, <1>8, <2>1
  <2>3. b * q = -b
    BY <2>2
  <2> QED
    BY <1>2, <2>3
<1>9. ASSUME b <= n, n < 2 * b PROVE r = n - b
  <2>1. q <= 0 => b * q <= 0
    OBVIOUS
  <2>2. q = 1
    BY <1>2, <1>6, <1>9, <2>1
  <2>3. b * q = b
    BY <2>2
  <2> QED
    BY <1>2, <2>3
<1> QED
  BY <1>1, <1>7, <1>8, <1>9

\* A displacement within the bounds that the fixup loop checks is not changed by its
\* conversion to 16 bits and back.
LEMMA SignedOfUnsigned ==
    ASSUME NEW n \in Int, -Half <= n, n < Half
    PROVE  Signed(Unsigned(n)) = n
<1>1. Half \in Nat \ {0} /\ 2 * Half \in Nat \ {0}
  BY LayoutAssumption
<1>2. CASE 0 <= n
  <2>1. Unsigned(n) = n
    BY <1>1, <1>2, SmallRemainder DEF Unsigned
  <2>2. n + Half \in Int /\ 0 <= n + Half /\ n + Half < 2 * Half
    BY <1>1, <1>2
  <2>3. (n + Half) % (2 * Half) = n + Half
    BY <1>1, <2>2, SmallRemainder
  <2> QED
    BY <1>1, <2>1, <2>3 DEF Signed
<1>3. CASE n < 0
  <2>1. Unsigned(n) = n + 2 * Half
    <3>1. PICK b \in Nat \ {0} : b = 2 * Half
      BY <1>1
    <3>2. -b <= n
      BY <1>1, <3>1
    <3>3. n % b = n + b
      BY <1>3, <3>2, SmallRemainder
    <3> QED
      BY <3>1, <3>3 DEF Unsigned
  <2>2. PICK m \in Int : m = n + 2 * Half + Half
    BY <1>1
  <2>3. 2 * Half <= m /\ m < 2 * (2 * Half)
    BY <1>1, <1>3, <2>2
  <2>4. m % (2 * Half) = m - 2 * Half
    BY <1>1, <2>3, SmallRemainder
  <2> QED
    BY <1>1, <2>1, <2>2, <2>4 DEF Signed
<1> QED
  BY <1>2, <1>3

\* Counted from where the handler stands after it, the displacement of an accepted
\* fixup leads to the label.
LEMMA DisplacementLands ==
    ASSUME NEW f \in Fixup, labels[f.name] \in Nat,
           f.lines => (labels[f.name] - f.index) % 2 = 0
    PROVE  /\ Displacement(f) \in Int
           /\ 4 * ((f.index + 1) + 1) + (IF f.lines THEN 8 ELSE 1) * Displacement(f)
                  = 4 * labels[f.name]
<1> DEFINE distance == labels[f.name] - f.index
<1>1. f.index \in Nat /\ distance \in Int
  BY DEF Fixup
<1>2. CASE f.lines
  <2>1. PICK h \in Int : distance = 2 * h
    <3>1. distance = 2 * (distance \div 2) /\ distance \div 2 \in Int
      BY <1>1, <1>2
    <3> QED
      BY <3>1
  <2>2. TruncatedHalf(2 * h - 2) = h - 1
    BY DEF TruncatedHalf
  <2>3. Displacement(f) = h - 1
    BY <1>2, <2>1, <2>2 DEF Displacement
  <2> QED
    BY <1>1, <1>2, <2>1, <2>3
<1>3. CASE ~f.lines
  <2>1. Displacement(f) = 4 * distance - 8
    BY <1>3 DEF Displacement
  <2> QED
    BY <1>1, <1>3, <2>1
<1> QED
  BY <1>2, <1>3

----------------------------------------------------------------------------
(* The section that is being encoded *)

\* The words of a flush are from the pending data, and there are some if a byte was.
LEMMA FlushedSources ==
    ASSUME TypeOK
    PROVE  /\ \A i \in (Len(words) + 1)..Len(Flushed) : Flushed[i].src = data.src
           /\ data.bytes > 0 => Len(Flushed) > Len(words)
<1> DEFINE n == 2 * ((data.bytes + 7) \div 8)
           tail == PlainWords("data", n, data.src)
<1>1. /\ n \in Nat /\ words \in Seq(Word) /\ data.src \in SUBSET (Nat \ {0})
      /\ "data" \in Ops /\ data.bytes \in Nat
  BY DEF TypeOK, Ops
<1>2. data.bytes > 0 => n > 0
  BY <1>1
<1>3. Flushed = words \o tail
  BY DEF Flushed
<1> HIDE DEF n
<1>4. /\ tail \in Seq(Word) /\ Len(tail) = n
      /\ \A i \in 1..n : tail[i] = [op |-> "data", to |-> NoLabel, hi |-> 0,
                                    lo |-> 0, src |-> data.src]
  BY <1>1, PlainWordsLemma
<1>5. \A i \in 1..n : tail[i].src = data.src
  BY <1>4
<1> HIDE DEF tail
<1>6. /\ Len(words) \in Nat /\ Len(Flushed) = Len(words) + n
      /\ \A i \in (Len(words) + 1)..(Len(words) + n) : Flushed[i] = tail[i - Len(words)]
  BY <1>1, <1>3, <1>4, Joined
<1> QED
  BY <1>1, <1>2, <1>5, <1>6

\* The words of the section after a flush and the words of a statement.
LEMMA Extended ==
    ASSUME TypeOK, NEW ws \in Seq(Word), words' = Flushed \o ws
    PROVE  /\ words' \in Seq(Word)
           /\ Len(words) \in Nat /\ Len(Flushed) \in Nat /\ Len(ws) \in Nat
           /\ Len(words) <= Len(Flushed) /\ Len(words') = Len(Flushed) + Len(ws)
           /\ \A i \in 1..Len(words) : words'[i] = words[i]
           /\ \A i \in (Len(words) + 1)..Len(Flushed) :
                  words'[i].op = "data" /\ words'[i].src = data.src
           /\ \A i \in (Len(Flushed) + 1)..(Len(Flushed) + Len(ws)) :
                  words'[i] = ws[i - Len(Flushed)]
<1>1. /\ Flushed \in Seq(Word) /\ Len(words) \in Nat /\ Len(Flushed) \in Nat
      /\ Len(words) <= Len(Flushed)
      /\ \A i \in 1..Len(words) : Flushed[i] = words[i]
      /\ \A i \in (Len(words) + 1)..Len(Flushed) :
             Flushed[i].op = "data" /\ Flushed[i].src = data.src
  BY FlushedLemma, FlushedSources
<1>2. /\ words' \in Seq(Word) /\ Len(ws) \in Nat /\ Len(words') = Len(Flushed) + Len(ws)
      /\ \A i \in 1..Len(Flushed) : words'[i] = Flushed[i]
      /\ \A i \in (Len(Flushed) + 1)..(Len(Flushed) + Len(ws)) :
             words'[i] = ws[i - Len(Flushed)]
  BY <1>1, Joined
<1> QED
  BY <1>1, <1>2

\* A statement that is read leaves those before it what they are.
LEMMA ReadOn ==
    ASSUME TypeOK, NEW st \in Statement, source' = Append(source, st)
    PROVE  /\ source' \in Seq(Statement) /\ Len(source) \in Nat
           /\ Len(source') = Len(source) + 1
           /\ \A e \in 1..Len(source) : source'[e] = source[e]
           /\ source'[Len(source) + 1] = st
<1>1. source \in Seq(Statement) /\ Len(source) \in Nat
  BY LenProperties DEF TypeOK
<1> QED
  BY <1>1, AppendProperties

\* A label keeps its place when words of later statements follow, and gets one when
\* its first definition is read.
LEMMA LabelsStep ==
    ASSUME TypeOK, SourcesRead, \A l \in Labels : LabelPlaced(l),
           NEW ws \in Seq(Word), words' = Flushed \o ws, data' = NoData,
           NEW st \in Statement, source' = Append(source, st),
           \A i \in 1..Len(ws) : ws[i].src \subseteq {Len(source) + 1},
           st.kind = "label" => Len(ws) = 0,
           \A l \in Labels : labels[l] # Undefined => labels'[l] = labels[l],
           \A l \in Labels : labels[l] = Undefined =>
               labels'[l] = (IF st = LabelOf(l) THEN Len(Flushed) ELSE Undefined)
    PROVE  SourcesRead' /\ \A l \in Labels : LabelPlaced(l)'
<1>0. PICK n, m, k : n = Len(words) /\ m = Len(Flushed) /\ k = Len(source)
  OBVIOUS
<1>1. /\ n \in Nat /\ m \in Nat /\ Len(ws) \in Nat /\ n <= m /\ Len(words') = m + Len(ws)
      /\ \A i \in 1..n : words'[i] = words[i]
      /\ \A i \in (n + 1)..m : words'[i].src = data.src
      /\ \A i \in (m + 1)..(m + Len(ws)) : words'[i] = ws[i - m]
  BY <1>0, Extended
<1>2. /\ k \in Nat /\ Len(source') = k + 1 /\ \A e \in 1..k : source'[e] = source[e]
      /\ source'[k + 1] = st
  BY <1>0, ReadOn
<1>3. /\ \A i \in 1..n : \A e \in words[i].src : e <= k
      /\ \A e \in data.src : e <= k
  BY <1>0 DEF SourcesRead
<1>4. /\ \A i \in 1..n : \A e \in words[i].src : e \in Nat
      /\ \A e \in data.src : e \in Nat
  <2>1. \A i \in 1..n : words[i] \in Word
    BY <1>0, ElementOfSeq DEF TypeOK
  <2> QED
    BY <2>1 DEF TypeOK, Word
<1>5. ASSUME NEW i \in (m + 1)..(m + Len(ws)), NEW e \in words'[i].src
      PROVE  e = k + 1
  <2>1. i - m \in 1..Len(ws) /\ words'[i] = ws[i - m]
    BY <1>1
  <2> QED
    BY <1>0, <1>5, <2>1
<1>6. \A i \in 1..Len(words') : i \in 1..n \/ i \in (n + 1)..m \/ i \in (m + 1)..(m + Len(ws))
  BY <1>1
<1>7. SourcesRead'
  <2>1. ASSUME NEW i \in 1..Len(words'), NEW e \in words'[i].src
        PROVE  e <= k + 1
    <3>1. CASE i \in 1..n
      <4>1. e \in words[i].src
        BY <1>1, <2>1, <3>1
      <4> QED
        BY <1>2, <1>3, <1>4, <3>1, <4>1
    <3>2. CASE i \in (n + 1)..m
      <4>1. e \in data.src
        BY <1>1, <2>1, <3>2
      <4> QED
        BY <1>2, <1>3, <1>4, <4>1
    <3>3. CASE i \in (m + 1)..(m + Len(ws))
      BY <1>2, <1>5, <2>1, <3>3
    <3> QED
      BY <1>6, <3>1, <3>2, <3>3
  <2> QED
    BY <1>2, <2>1 DEF SourcesRead, NoData
<1>8. ASSUME NEW l \in Labels, labels[l] # Undefined
      PROVE  LabelPlaced(l)'
  <2>1. PICK d \in 1..k : /\ First(source, l, d) /\ Parted(words, labels[l], d)
                          /\ \A e \in data.src : e > d
    BY <1>0, <1>8 DEF LabelPlaced
  <2>2. First(source, l, d)'
    BY <1>0, <1>2, <2>1 DEF First
  <2>3. labels'[l] = labels[l] /\ labels[l] \in 0..n
    BY <1>0, <1>8, <2>1 DEF Parted
  <2>4. ASSUME NEW i \in 1..Len(words'), NEW e \in words'[i].src
        PROVE  IF i <= labels[l] THEN e < d ELSE e > d
    <3>1. CASE i \in 1..n
      BY <1>0, <1>1, <2>1, <2>4, <3>1 DEF Parted
    <3>2. CASE i \in (n + 1)..m
      <4>1. ~(i <= labels[l])
        BY <1>1, <2>3, <3>2
      <4>2. e \in data.src
        BY <1>1, <2>4, <3>2
      <4> QED
        BY <2>1, <4>1, <4>2
    <3>3. CASE i \in (m + 1)..(m + Len(ws))
      <4>1. ~(i <= labels[l])
        BY <1>1, <2>3, <3>3
      <4>2. e = k + 1
        BY <1>5, <2>4, <3>3
      <4> QED
        BY <1>2, <2>1, <4>1, <4>2
    <3> QED
      BY <1>6, <3>1, <3>2, <3>3
  <2>5. Parted(words, labels[l], d)'
    BY <1>1, <2>3, <2>4 DEF Parted
  <2>6. d \in 1..Len(source') /\ labels'[l] # Undefined
    BY <1>2, <1>8, <2>3
  <2> QED
    BY <2>2, <2>5, <2>6 DEF LabelPlaced, NoData
<1>9. ASSUME NEW l \in Labels, labels[l] = Undefined, st # LabelOf(l)
      PROVE  LabelPlaced(l)'
  <2>1. \A e \in 1..k : source[e] # LabelOf(l)
    BY <1>0, <1>9 DEF LabelPlaced
  <2>2. \A e \in 1..(k + 1) : source'[e] # LabelOf(l)
    BY <1>2, <1>9, <2>1
  <2>3. labels'[l] = Undefined
    BY <1>9
  <2> QED
    BY <1>2, <2>2, <2>3 DEF LabelPlaced
<1>10. ASSUME NEW l \in Labels, labels[l] = Undefined, st = LabelOf(l)
       PROVE  LabelPlaced(l)'
  <2>1. \A e \in 1..k : source[e] # LabelOf(l)
    BY <1>0, <1>10 DEF LabelPlaced
  <2>2. First(source, l, k + 1)'
    BY <1>2, <1>10, <2>1 DEF First
  <2>3. labels'[l] = m /\ Len(ws) = 0
    BY <1>0, <1>10 DEF LabelOf
  <2>4. \A i \in 1..Len(words') : \A e \in words'[i].src : e < k + 1 /\ i <= m
    BY SMTT(30), <1>1, <1>2, <1>3, <1>4, <1>6, <2>3
  <2>5. Parted(words, labels[l], k + 1)'
    BY <1>1, <2>3, <2>4 DEF Parted
  <2>6. k + 1 \in 1..Len(source') /\ labels'[l] # Undefined
    BY <1>1, <1>2, <2>3 DEF Undefined
  <2> QED
    BY <2>2, <2>5, <2>6 DEF LabelPlaced, NoData
<1> QED
  BY <1>7, <1>8, <1>9, <1>10

\* The references keep their fixups, and so does the reference that a statement adds
\* as its first word.
LEMMA ReferencesStep ==
    ASSUME TypeOK, ReferencesOK, NEW ws \in Seq(Word), words' = Flushed \o ws,
           fixes \subseteq fixes',
           \A f \in fixes' \ fixes :
               /\ f.index = Len(Flushed) /\ Len(ws) > 0
               /\ ws[1].op = (IF f.lines THEN "goto" ELSE "ba") /\ ws[1].to = f.name,
           \A i \in 1..Len(ws) : ws[i].op \in Jumps =>
               /\ i = 1 /\ ws[i].hi = 0 /\ ws[i].lo = 0
               /\ \E f \in fixes' : f.index = Len(Flushed)
    PROVE  ReferencesOK'
<1>0. PICK n, m : n = Len(words) /\ m = Len(Flushed)
  OBVIOUS
<1>1. /\ n \in Nat /\ m \in Nat /\ Len(ws) \in Nat /\ n <= m /\ Len(words') = m + Len(ws)
      /\ \A i \in 1..n : words'[i] = words[i]
      /\ \A i \in (n + 1)..m : words'[i].op = "data"
      /\ \A i \in (m + 1)..(m + Len(ws)) : words'[i] = ws[i - m]
  BY <1>0, Extended
<1>2. ASSUME NEW f \in fixes
      PROVE  FixupOK(f)'
  <2>1. FixupOK(f)
    BY DEF ReferencesOK
  <2>2. f.index + 1 \in 1..n
    BY <1>0, <2>1 DEF FixupOK
  <2> QED
    BY <1>1, <2>1, <2>2 DEF FixupOK
<1>3. ASSUME NEW f \in fixes' \ fixes
      PROVE  FixupOK(f)'
  <2>1. m + 1 \in 1..(m + Len(ws)) /\ words'[m + 1] = ws[1] /\ f.index = m
    BY <1>0, <1>1
  <2> QED
    BY <1>1, <2>1 DEF FixupOK
<1>4. ASSUME NEW i \in 1..Len(words'), words'[i].op \in Jumps
      PROVE  /\ words'[i].hi = 0 /\ words'[i].lo = 0
             /\ \E f \in fixes' : f.index + 1 = i
  <2>1. CASE i \in 1..n
    BY <1>0, <1>1, <1>4, <2>1 DEF ReferencesOK, ReferenceOK
  <2>2. CASE i \in (n + 1)..m
    BY <1>1, <1>4, <2>2 DEF Jumps
  <2>3. CASE i \in (m + 1)..(m + Len(ws))
    <3>1. i - m \in 1..Len(ws) /\ words'[i] = ws[i - m]
      BY <1>1, <2>3
    <3>2. i - m = 1
      BY <1>4, <3>1
    <3> QED
      BY SMTT(30), <1>0, <1>1, <1>4, <3>1, <3>2
  <2> QED
    BY <1>1, <2>1, <2>2, <2>3
<1>5. (\A f \in fixes : FixupOK(f))'
  BY <1>2, <1>3
<1>6. (\A i \in 1..Len(words) : ReferenceOK(words[i], i))'
  BY <1>4 DEF ReferenceOK
<1> QED
  BY <1>5, <1>6 DEF ReferencesOK

\* Pending data is in the words after the flush.
LEMMA DataStep ==
    ASSUME TypeOK, DataKept, NEW ws \in Seq(Word), words' = Flushed \o ws, data' = NoData,
           NEW st \in Statement, source' = Append(source, st), st.kind # "data"
    PROVE  DataKept'
<1>0. PICK n, m, k : n = Len(words) /\ m = Len(Flushed) /\ k = Len(source)
  OBVIOUS
<1>1. /\ n \in Nat /\ m \in Nat /\ Len(ws) \in Nat /\ n <= m /\ Len(words') = m + Len(ws)
      /\ \A i \in 1..n : words'[i] = words[i]
      /\ \A i \in (n + 1)..m : words'[i].src = data.src
  BY <1>0, Extended
<1>2. /\ k \in Nat /\ Len(source') = k + 1 /\ \A e \in 1..k : source'[e] = source[e]
      /\ source'[k + 1] = st
  BY <1>0, ReadOn
<1>3. data.src # {} => m > n
  BY <1>0, FlushedSources DEF DataKept
<1>4. ASSUME NEW d \in 1..Len(source'), source'[d].kind = "data"
      PROVE  \E i \in 1..Len(words') : d \in words'[i].src
  <2>1. d \in 1..k /\ source[d].kind = "data"
    BY <1>2, <1>4
  <2>2. CASE d \in data.src
    <3>1. n + 1 \in (n + 1)..m /\ n + 1 \in 1..Len(words')
      BY <1>1, <1>3, <2>2
    <3>2. words'[n + 1].src = data.src
      BY <1>1, <3>1
    <3> QED
      BY <2>2, <3>1, <3>2
  <2>3. CASE \E i \in 1..n : d \in words[i].src
    <3>1. PICK i \in 1..n : d \in words[i].src
      BY <2>3
    <3>2. words'[i] = words[i] /\ i \in 1..Len(words')
      BY <1>1
    <3> QED
      BY <3>1, <3>2
  <2> QED
    BY <1>0, <2>1, <2>2, <2>3 DEF DataKept
<1> QED
  BY <1>4 DEF DataKept, NoData

----------------------------------------------------------------------------
(* The words of a statement *)

\* A statement without reference.
LEMMA PlainSources ==
    ASSUME TypeOK, NEW n \in Nat
    PROVE  /\ PlainWords("word", n, Current) \in Seq(Word)
           /\ \A i \in 1..Len(PlainWords("word", n, Current)) :
                  /\ PlainWords("word", n, Current)[i].op = "word"
                  /\ PlainWords("word", n, Current)[i].src = {Len(source) + 1}
<1>1. "word" \in Ops /\ Current \in SUBSET (Nat \ {0}) /\ Current = {Len(source) + 1}
  BY LenProperties DEF TypeOK, Current, Ops
<1> DEFINE ws == PlainWords("word", n, Current)
<1>2. /\ ws \in Seq(Word) /\ Len(ws) = n
      /\ \A i \in 1..n : ws[i] = [op |-> "word", to |-> NoLabel, hi |-> 0, lo |-> 0,
                                  src |-> Current]
  BY <1>1, PlainWordsLemma
<1> HIDE DEF ws
<1>3. \A i \in 1..Len(ws) : ws[i].op = "word" /\ ws[i].src = {Len(source) + 1}
  BY <1>1, <1>2
<1> QED
  BY <1>2, <1>3 DEF ws

\* A block.
LEMMA BlockSources ==
    ASSUME TypeOK, NEW n \in BlockSizes, NEW at \in Nat
    PROVE  /\ BlockWords(n, at) \in Seq(Word)
           /\ \A i \in 1..Len(BlockWords(n, at)) :
                  /\ BlockWords(n, at)[i].op \notin Jumps
                  /\ BlockWords(n, at)[i].src = {Len(source) + 1}
<1> DEFINE plain == PlainWords("word", n, Current)
           ws == BlockWords(n, at)
<1>1. n \in Nat /\ n >= 2
  BY LayoutAssumption
<1>2. plain = [i \in 1..n |-> [op |-> "word", to |-> NoLabel, hi |-> 0, lo |-> 0,
                               src |-> Current]]
  BY DEF PlainWords
<1>3. ws = [i \in 1..n |->
               IF i = 1 THEN [op |-> "block", to |-> NoLabel, hi |-> 0, lo |-> at,
                              src |-> Current]
                        ELSE [op |-> "word", to |-> NoLabel, hi |-> 0, lo |-> 0,
                              src |-> Current]]
  BY SMTT(30), <1>1, <1>2 DEF BlockWords
<1>4. ws \in Seq(Word) /\ Len(ws) = n
  BY BlockWordsLemma
<1>5. \A i \in 1..n : ws[i].op \notin Jumps /\ ws[i].src = {Len(source) + 1}
  BY <1>1, <1>3 DEF Jumps, Current
<1> HIDE DEF ws
<1> QED
  BY <1>4, <1>5 DEF ws

\* A reference, with or without its second word.
LEMMA ReferenceSources ==
    ASSUME TypeOK, NEW op \in Jumps, NEW l \in Labels, NEW n \in Nat
    PROVE  LET ws == <<Reference(op, l)>> \o PlainWords("word", n, Current)
           IN  /\ ws \in Seq(Word) /\ Len(ws) > 0
               /\ ws[1].op = op /\ ws[1].to = l /\ ws[1].hi = 0 /\ ws[1].lo = 0
               /\ \A i \in 1..Len(ws) : /\ ws[i].src = {Len(source) + 1}
                                        /\ i # 1 => ws[i].op \notin Jumps
<1> DEFINE plain == PlainWords("word", n, Current)
           first == <<Reference(op, l)>>
           ws == first \o plain
<1>1. /\ ws \in Seq(Word) /\ Len(ws) = n + 1 /\ ws[1] = Reference(op, l)
      /\ \A i \in 2..(n + 1) : ws[i].op = "word"
  BY ReferenceLemma
<1>2. /\ plain \in Seq(Word)
      /\ \A i \in 1..Len(plain) : plain[i].src = {Len(source) + 1}
  BY PlainSources
<1>3. /\ first \in Seq(Word) /\ Len(first) = 1
  <2>1. "goto" \in Ops /\ "ba" \in Ops /\ op \in Ops /\ Current \in SUBSET (Nat \ {0})
    BY LenProperties DEF TypeOK, Current, Ops, Jumps
  <2>2. Reference(op, l) \in Word
    BY <2>1 DEF Reference, Word
  <2> QED
    BY <2>2
<1> HIDE DEF plain, first
<1>4. /\ Len(ws) = Len(first) + Len(plain) /\ Len(plain) \in Nat
      /\ \A i \in (Len(first) + 1)..(Len(first) + Len(plain)) :
            ws[i] = plain[i - Len(first)]
  BY <1>2, <1>3, Joined
<1>5. ASSUME NEW i \in 2..(n + 1)
      PROVE  ws[i].src = {Len(source) + 1}
  <2>1. i - 1 \in 1..Len(plain) /\ ws[i] = plain[i - 1]
    BY <1>1, <1>3, <1>4
  <2> QED
    BY <1>2, <2>1
<1>6. /\ ws[1].op = op /\ ws[1].to = l /\ ws[1].hi = 0 /\ ws[1].lo = 0
      /\ ws[1].src = {Len(source) + 1}
  BY <1>1 DEF Reference, Current
<1> HIDE DEF ws
<1>7. \A i \in 1..Len(ws) : /\ ws[i].src = {Len(source) + 1}
                            /\ i # 1 => ws[i].op \notin Jumps
  BY <1>1, <1>5, <1>6 DEF Jumps
<1>8. /\ ws \in Seq(Word) /\ Len(ws) > 0
      /\ ws[1].op = op /\ ws[1].to = l /\ ws[1].hi = 0 /\ ws[1].lo = 0
      /\ \A i \in 1..Len(ws) : /\ ws[i].src = {Len(source) + 1}
                               /\ i # 1 => ws[i].op \notin Jumps
  BY <1>1, <1>6, <1>7
<1> QED
  BY <1>8 DEF ws, plain, first

\* What was said of the finished sections stays true while they do not change.
LEMMA FinishedSame ==
    ASSUME FinishedOK, codes' = codes, policy' = policy, phase' = phase
    PROVE  FinishedOK'
  BY DEF FinishedOK, Lands, Resolved, KeepsData

\* A statement that emits words.
LEMMA EmitsJumps ==
    ASSUME JumpsInv, TypeOK', NEW kind \in Kinds \ {"data", "label"},
           NEW name \in Labels \cup {NoLabel}, Accepts(kind, name),
           NEW ws \in Seq(Word), Emits(ws),
           \A i \in 1..Len(ws) : ws[i].src = {Len(source) + 1},
           fixes \subseteq fixes',
           \A f \in fixes' \ fixes :
               /\ f.index = Len(Flushed) /\ Len(ws) > 0
               /\ ws[1].op = (IF f.lines THEN "goto" ELSE "ba") /\ ws[1].to = f.name,
           \A i \in 1..Len(ws) : ws[i].op \in Jumps =>
               /\ i = 1 /\ ws[i].hi = 0 /\ ws[i].lo = 0
               /\ \E f \in fixes' : f.index = Len(Flushed)
    PROVE  JumpsInv'
<1>1. TypeOK /\ OpenSectionOK /\ FinishedOK
  BY DEF JumpsInv
<1>2. PICK st \in Statement : st = [kind |-> kind, name |-> name]
  BY DEF Statement
<1>3. source' = Append(source, st) /\ st.kind \notin {"data", "label"}
  BY <1>2 DEF Accepts
<1>4. words' = Flushed \o ws /\ data' = NoData /\ labels' = labels
      /\ codes' = codes /\ policy' = policy /\ phase' = phase
  BY DEF Emits
<1>5. SourcesRead' /\ \A l \in Labels : LabelPlaced(l)'
  <2>1. \A l \in Labels : st # LabelOf(l)
    BY <1>3 DEF LabelOf
  <2> QED
    BY <1>1, <1>3, <1>4, <2>1, LabelsStep DEF OpenSectionOK
<1>6. ReferencesOK'
  BY <1>1, <1>4, ReferencesStep DEF OpenSectionOK
<1>7. DataKept'
  BY <1>1, <1>3, <1>4, DataStep DEF OpenSectionOK
<1>8. FinishedOK'
  BY <1>1, <1>4, FinishedSame
<1> QED
  BY <1>5, <1>6, <1>7, <1>8 DEF JumpsInv, OpenSectionOK

\* A label that is read for the first time is placed behind all that was flushed.
LEMMA LabelStep ==
    ASSUME JumpsInv, TypeOK', NEW l \in Labels, EncodeLabel(l)
    PROVE  JumpsInv'
<1>1. TypeOK /\ OpenSectionOK /\ FinishedOK
  BY DEF JumpsInv
<1>2. PICK st \in Statement : st = [kind |-> "label", name |-> l]
  BY DEF Statement, Kinds
<1>3. source' = Append(source, st) /\ st.kind = "label" /\ st = LabelOf(l)
  BY <1>2 DEF EncodeLabel, Accepts, LabelOf
<1>4. PICK ws \in Seq(Word) : ws = <<>>
  BY EmptySeq
<1>5. /\ words' = Flushed \o ws /\ data' = NoData /\ fixes' = fixes
      /\ codes' = codes /\ policy' = policy /\ phase' = phase /\ Len(ws) = 0
  <2>1. Flushed \o ws = Flushed
    BY <1>1, <1>4, FlushedLemma, ConcatEmptySeq
  <2> QED
    BY <1>4, <2>1 DEF EncodeLabel
<1>6. labels' = IF labels[l] = Undefined THEN [labels EXCEPT ![l] = Len(Flushed)] ELSE labels
  BY DEF EncodeLabel
<1>7. /\ \A m \in Labels : labels[m] # Undefined => labels'[m] = labels[m]
      /\ \A m \in Labels : labels[m] = Undefined =>
             labels'[m] = (IF st = LabelOf(m) THEN Len(Flushed) ELSE Undefined)
  <2>1. labels \in [Labels -> Nat \cup {Undefined}]
    BY <1>1 DEF TypeOK
  <2>2. \A m \in Labels : st = LabelOf(m) <=> m = l
    BY <1>3 DEF LabelOf
  <2> QED
    BY <1>6, <2>1, <2>2
<1>8. SourcesRead' /\ \A m \in Labels : LabelPlaced(m)'
  <2>1. \A i \in 1..Len(ws) : ws[i].src \subseteq {Len(source) + 1}
    BY <1>5
  <2> QED
    BY <1>1, <1>3, <1>5, <1>7, <2>1, LabelsStep DEF OpenSectionOK
<1>9. ReferencesOK'
  <2>1. /\ fixes \subseteq fixes' /\ fixes' \ fixes = {}
        /\ \A i \in 1..Len(ws) : ws[i].op \notin Jumps
    BY <1>5
  <2> QED
    BY <1>1, <1>5, <2>1, ReferencesStep DEF OpenSectionOK
<1>10. DataKept'
  BY <1>1, <1>3, <1>5, DataStep DEF OpenSectionOK
<1>11. FinishedOK'
  BY <1>1, <1>5, FinishedSame
<1> QED
  BY <1>8, <1>9, <1>10, <1>11 DEF JumpsInv, OpenSectionOK

\* A data statement adds to the pending bytes.
LEMMA PendingStep ==
    ASSUME JumpsInv, TypeOK', NEW n \in DataSizes, EncodeData(n)
    PROVE  JumpsInv'
<1>1. TypeOK /\ OpenSectionOK /\ FinishedOK
  BY DEF JumpsInv
<1>2. PICK st \in Statement : st = [kind |-> "data", name |-> NoLabel]
  BY DEF Statement, Kinds
<1>3. PICK k : k = Len(source)
  OBVIOUS
<1>4. /\ source' = Append(source, st) /\ st.kind = "data"
      /\ k \in Nat /\ Len(source') = k + 1 /\ \A e \in 1..k : source'[e] = source[e]
      /\ source'[k + 1] = st
  BY <1>1, <1>2, <1>3, ReadOn DEF EncodeData, Accepts
<1>5. /\ data'.bytes = data.bytes + n /\ data'.src = data.src \cup {k + 1}
      /\ UNCHANGED <<policy, phase, codes, offset, words, labels, fixes>>
  BY <1>3 DEF EncodeData, Current
<1>6. /\ \A i \in 1..Len(words) : \A e \in words[i].src : e <= k /\ e \in Nat
      /\ \A e \in data.src : e <= k /\ e \in Nat
  <2>1. \A i \in 1..Len(words) : words[i] \in Word
    BY <1>1, ElementOfSeq DEF TypeOK
  <2>2. /\ \A i \in 1..Len(words) : \A e \in words[i].src : e \in Nat
        /\ \A e \in data.src : e \in Nat
    BY <1>1, <2>1 DEF TypeOK, Word
  <2> QED
    BY <1>1, <1>3, <2>2 DEF OpenSectionOK, SourcesRead
<1>7. SourcesRead'
  BY <1>4, <1>5, <1>6 DEF SourcesRead
<1>8. ASSUME NEW l \in Labels
      PROVE  LabelPlaced(l)'
  <2>1. LabelPlaced(l)
    BY <1>1 DEF OpenSectionOK
  <2>2. CASE labels[l] = Undefined
    <3>1. st # LabelOf(l)
      BY <1>2 DEF LabelOf
    <3>2. \A e \in 1..(k + 1) : source'[e] # LabelOf(l)
      BY <1>3, <1>4, <2>1, <2>2, <3>1 DEF LabelPlaced
    <3> QED
      BY <1>4, <1>5, <2>2, <3>2 DEF LabelPlaced
  <2>3. CASE labels[l] # Undefined
    <3>1. PICK d \in 1..k : /\ First(source, l, d) /\ Parted(words, labels[l], d)
                            /\ \A e \in data.src : e > d
      BY <1>3, <2>1, <2>3 DEF LabelPlaced
    <3>2. First(source, l, d)'
      BY <1>3, <1>4, <3>1 DEF First
    <3>3. Parted(words, labels[l], d)'
      BY <1>5, <3>1 DEF Parted
    <3>4. d \in 1..Len(source') /\ \A e \in data'.src : e > d
      BY <1>4, <1>5, <3>1
    <3> QED
      BY <1>5, <2>3, <3>2, <3>3, <3>4 DEF LabelPlaced
  <2> QED
    BY <2>2, <2>3
<1>9. ReferencesOK'
  BY <1>1, <1>5 DEF OpenSectionOK, ReferencesOK, FixupOK, ReferenceOK
<1>10. DataKept'
  <2>1. data'.bytes > 0
    BY <1>1, <1>5, LayoutAssumption DEF TypeOK
  <2>2. \A d \in 1..Len(source') : source'[d].kind = "data" =>
            d \in data'.src \/ \E i \in 1..Len(words) : d \in words[i].src
    BY <1>1, <1>3, <1>4, <1>5 DEF OpenSectionOK, DataKept
  <2> QED
    BY <1>5, <2>1, <2>2 DEF DataKept
<1>11. FinishedOK'
  BY <1>1, <1>5, FinishedSame
<1> QED
  BY <1>7, <1>8, <1>9, <1>10, <1>11 DEF JumpsInv, OpenSectionOK

----------------------------------------------------------------------------
(* The end of a section *)

\* The fixup loop leaves a word alone that has no reference to a defined label, and
\* patches any other with one of the fixups that name it.
LEMMA PatchedAt ==
    ASSUME TypeOK, NEW ws \in Seq(Word), NEW i \in 1..Len(ws)
    PROVE  /\ Patched(ws)[i].src = ws[i].src /\ Patched(ws)[i].to = ws[i].to
           /\ Patched(ws)[i].op = ws[i].op
           /\ (\A f \in fixes : f.index + 1 = i => ~Resolvable(f)) => Patched(ws)[i] = ws[i]
           /\ (\E f \in fixes : f.index + 1 = i /\ Resolvable(f)) =>
                  \E f \in fixes : /\ f.index + 1 = i /\ Resolvable(f)
                                   /\ Patched(ws)[i] = Patch(ws[i], f)
<1>1. ws[i] \in Word
  BY ElementOfSeq
<1>2. \A f : /\ Patch(ws[i], f).src = ws[i].src /\ Patch(ws[i], f).to = ws[i].to
             /\ Patch(ws[i], f).op = ws[i].op
  BY <1>1 DEF Patch, Word
<1>3. Patched(ws)[i] =
          IF \E f \in fixes : f.index + 1 = i /\ Resolvable(f)
          THEN Patch(ws[i], CHOOSE f \in fixes : f.index + 1 = i /\ Resolvable(f))
          ELSE ws[i]
  BY DEF Patched
<1>4. CASE \E f \in fixes : f.index + 1 = i /\ Resolvable(f)
  <2>1. PICK g : g = CHOOSE f \in fixes : f.index + 1 = i /\ Resolvable(f)
    OBVIOUS
  <2>2. g \in fixes /\ g.index + 1 = i /\ Resolvable(g)
    BY <1>4, <2>1
  <2>3. Patched(ws)[i] = Patch(ws[i], g)
    BY <1>3, <1>4, <2>1
  <2> QED
    BY <1>2, <2>2, <2>3
<1>5. CASE ~\E f \in fixes : f.index + 1 = i /\ Resolvable(f)
  BY <1>3, <1>5
<1> QED
  BY <1>4, <1>5

\* The words encodeSection patches: with or without the last flush, labels part them
\* and fixups name their references.
LEMMA CompleteWords ==
    ASSUME TypeOK, OpenSectionOK, NEW last \in BOOLEAN, NEW ws, ws = Complete(last)
    PROVE  /\ ws \in Seq(Word)
           /\ \A l \in Labels : labels[l] # Undefined =>
                  \E d \in 1..Len(source) : First(source, l, d) /\ Parted(ws, labels[l], d)
           /\ \A f \in fixes : /\ f.index + 1 \in 1..Len(ws)
                               /\ ws[f.index + 1].op = (IF f.lines THEN "goto" ELSE "ba")
                               /\ ws[f.index + 1].to = f.name
           /\ \A i \in 1..Len(ws) : ReferenceOK(ws[i], i)
           /\ ~last \/ policy["RawDataEOF"] =>
                  \A d \in 1..Len(source) : source[d].kind = "data" =>
                      \E i \in 1..Len(ws) : d \in ws[i].src
<1>0. PICK n : n = Len(words)
  OBVIOUS
<1>1. CASE ~last \/ policy["RawDataEOF"]
  <2>1. ws = Flushed
    BY <1>1 DEF Complete
  <2>2. /\ ws \in Seq(Word) /\ n \in Nat /\ Len(ws) \in Nat /\ n <= Len(ws)
        /\ \A i \in 1..n : ws[i] = words[i]
        /\ \A i \in (n + 1)..Len(ws) : ws[i].op = "data" /\ ws[i].src = data.src
        /\ data.bytes > 0 => Len(ws) > n
    BY <1>0, <2>1, FlushedLemma, FlushedSources
  <2>3. ASSUME NEW l \in Labels, labels[l] # Undefined
        PROVE  \E d \in 1..Len(source) : First(source, l, d) /\ Parted(ws, labels[l], d)
    <3>1. PICK d \in 1..Len(source) : /\ First(source, l, d) /\ Parted(words, labels[l], d)
                                      /\ \A e \in data.src : e > d
      BY <2>3 DEF OpenSectionOK, LabelPlaced
    <3>2. ASSUME NEW i \in 1..Len(ws), NEW e \in ws[i].src
          PROVE  IF i <= labels[l] THEN e < d ELSE e > d
      <4>1. CASE i \in 1..n
        BY <1>0, <2>2, <3>1, <3>2, <4>1 DEF Parted
      <4>2. CASE i \in (n + 1)..Len(ws)
        <5>1. ~(i <= labels[l]) /\ e \in data.src
          BY <1>0, <2>2, <3>1, <3>2, <4>2 DEF Parted
        <5> QED
          BY <3>1, <5>1
      <4> QED
        BY <2>2, <4>1, <4>2
    <3>3. Parted(ws, labels[l], d)
      BY <1>0, <2>2, <3>1, <3>2 DEF Parted
    <3> QED
      BY <3>1, <3>3
  <2>4. ASSUME NEW f \in fixes
        PROVE  /\ f.index + 1 \in 1..Len(ws)
               /\ ws[f.index + 1].op = (IF f.lines THEN "goto" ELSE "ba")
               /\ ws[f.index + 1].to = f.name
    <3>1. FixupOK(f)
      BY DEF OpenSectionOK, ReferencesOK
    <3>2. f.index + 1 \in 1..n
      BY <1>0, <3>1 DEF FixupOK
    <3> QED
      BY <2>2, <3>1, <3>2 DEF FixupOK
  <2>5. ASSUME NEW i \in 1..Len(ws)
        PROVE  ReferenceOK(ws[i], i)
    <3>1. CASE i \in 1..n
      BY <1>0, <2>2, <3>1 DEF OpenSectionOK, ReferencesOK
    <3>2. CASE i \in (n + 1)..Len(ws)
      BY <2>2, <3>2 DEF ReferenceOK, Jumps
    <3> QED
      BY <2>2, <3>1, <3>2
  <2>6. ASSUME NEW d \in 1..Len(source), source[d].kind = "data"
        PROVE  \E i \in 1..Len(ws) : d \in ws[i].src
    <3>1. CASE d \in data.src
      <4>1. n + 1 \in (n + 1)..Len(ws) /\ n + 1 \in 1..Len(ws)
        BY <2>2, <3>1 DEF OpenSectionOK, DataKept
      <4>2. ws[n + 1].src = data.src
        BY <2>2, <4>1
      <4> QED
        BY <3>1, <4>1, <4>2
    <3>2. CASE \E i \in 1..n : d \in words[i].src
      <4>1. PICK i \in 1..n : d \in words[i].src
        BY <3>2
      <4>2. ws[i] = words[i] /\ i \in 1..Len(ws)
        BY <2>2
      <4> QED
        BY <4>1, <4>2
    <3> QED
      BY <1>0, <2>6, <3>1, <3>2 DEF OpenSectionOK, DataKept
  <2> QED
    BY <2>2, <2>3, <2>4, <2>5, <2>6
<1>2. CASE ~(~last \/ policy["RawDataEOF"])
  <2>1. ws = words /\ ws \in Seq(Word)
    BY <1>2 DEF Complete, TypeOK
  <2>2. \A l \in Labels : labels[l] # Undefined =>
            \E d \in 1..Len(source) : First(source, l, d) /\ Parted(ws, labels[l], d)
    BY <2>1 DEF OpenSectionOK, LabelPlaced
  <2>3. /\ \A f \in fixes : /\ f.index + 1 \in 1..Len(ws)
                            /\ ws[f.index + 1].op = (IF f.lines THEN "goto" ELSE "ba")
                            /\ ws[f.index + 1].to = f.name
        /\ \A i \in 1..Len(ws) : ReferenceOK(ws[i], i)
    BY <2>1 DEF OpenSectionOK, ReferencesOK, FixupOK
  <2> QED
    BY <1>2, <2>1, <2>2, <2>3
<1> QED
  BY <1>1, <1>2

\* The first definition is the only one that is first.
LEMMA FirstIsFirst ==
    ASSUME NEW c, NEW l, NEW d, First(c.source, l, d), Len(c.source) \in Nat,
           DOMAIN c.source = 1..Len(c.source)
    PROVE  FirstDefinition(c, l) = d /\ Defines(c, l)
<1> DEFINE Is(e) == /\ c.source[e] = [kind |-> "label", name |-> l]
                    /\ \A g \in 1..(e - 1) : c.source[g] # [kind |-> "label", name |-> l]
<1>1. d \in DOMAIN c.source /\ Is(d) /\ d \in Nat
  BY DEF First, LabelOf
<1>2. FirstDefinition(c, l) = CHOOSE e \in DOMAIN c.source : Is(e)
  BY DEF FirstDefinition
<1>3. FirstDefinition(c, l) \in DOMAIN c.source /\ Is(FirstDefinition(c, l))
  BY <1>1, <1>2
<1>4. \A e, g \in DOMAIN c.source : Is(e) /\ Is(g) => e = g
  <2> TAKE e, g \in DOMAIN c.source
  <2>1. e < g => e \in 1..(g - 1)
    OBVIOUS
  <2>2. g < e => g \in 1..(e - 1)
    OBVIOUS
  <2> QED
    BY <2>1, <2>2
<1>5. Defines(c, l)
  BY <1>1 DEF Defines
<1> QED
  BY <1>1, <1>3, <1>4, <1>5

\* A place that parts the words from those of earlier and of later statements is where
\* the statement stands.
LEMMA PartedStands ==
    ASSUME NEW c, NEW n, NEW d, Parted(c.words, n, d), c.words \in Seq(Word)
    PROVE  StandsAt(c, d, 4 * n)
<1>1. Len(c.words) \in Nat /\ DOMAIN c.words = 1..Len(c.words) /\ n \in 0..Len(c.words)
  BY LenProperties DEF Parted
<1>2. 4 * n \in Nat /\ (4 * n) % 4 = 0 /\ 4 * n <= 4 * Len(c.words)
  BY <1>1
<1>3. ASSUME NEW j \in 1..Len(c.words)
      PROVE  IF 4 * j <= 4 * n THEN \A e \in c.words[j].src : e < d
                               ELSE \A e \in c.words[j].src : e > d
  <2>1. 4 * j <= 4 * n <=> j <= n
    BY <1>1
  <2> QED
    BY <2>1 DEF Parted
<1> QED
  BY <1>1, <1>2, <1>3 DEF StandsAt

\* A finished section keeps what its labels, references and data were.
LEMMA FinishedSection ==
    ASSUME JumpsInv, NEW last \in BOOLEAN, \A f \in fixes : ~Rejected(f),
           NEW c, c.words = Patched(Complete(last)), c.source = source
    PROVE  /\ c.words \in Seq(Word)
           /\ Lands(c) /\ Resolved(c)
           /\ ~last \/ policy["RawDataEOF"] => KeepsData(c)
<1>1. TypeOK /\ OpenSectionOK
  BY DEF JumpsInv
<1>2. PICK ws : ws = Complete(last)
  OBVIOUS
<1>3. /\ ws \in Seq(Word)
      /\ \A l \in Labels : labels[l] # Undefined =>
             \E d \in 1..Len(source) : First(source, l, d) /\ Parted(ws, labels[l], d)
      /\ \A f \in fixes : /\ f.index + 1 \in 1..Len(ws)
                          /\ ws[f.index + 1].op = (IF f.lines THEN "goto" ELSE "ba")
                          /\ ws[f.index + 1].to = f.name
      /\ \A i \in 1..Len(ws) : ReferenceOK(ws[i], i)
      /\ ~last \/ policy["RawDataEOF"] =>
             \A d \in 1..Len(source) : source[d].kind = "data" =>
                 \E i \in 1..Len(ws) : d \in ws[i].src
  BY <1>1, <1>2, CompleteWords
<1>4. PICK pw : pw = Patched(ws)
  OBVIOUS
<1>5. c.words = pw /\ pw \in Seq(Word) /\ Len(pw) = Len(ws) /\ Len(ws) \in Nat
  BY <1>1, <1>2, <1>3, <1>4, PatchedLemma, LenProperties
<1>6. \A i \in 1..Len(ws) : pw[i].src = ws[i].src /\ pw[i].to = ws[i].to /\ pw[i].op = ws[i].op
  BY <1>1, <1>3, <1>4, PatchedAt
<1>7. source \in Seq(Statement) /\ Len(source) \in Nat /\ DOMAIN source = 1..Len(source)
  BY <1>1, LenProperties DEF TypeOK
<1>8. ASSUME NEW l \in Labels
      PROVE  labels[l] # Undefined <=> Defines(c, l)
  <2>1. CASE labels[l] # Undefined
    <3>1. PICK d \in 1..Len(source) : First(source, l, d)
      BY <1>3, <2>1
    <3> QED
      BY <1>7, <2>1, <3>1, FirstIsFirst
  <2>2. CASE labels[l] = Undefined
    <3>1. \A e \in 1..Len(source) : source[e] # LabelOf(l)
      BY <1>1, <2>2 DEF OpenSectionOK, LabelPlaced
    <3> QED
      BY <1>7, <2>2, <3>1 DEF Defines, LabelOf
  <2> QED
    BY <2>1, <2>2
<1>9. ASSUME NEW i \in 1..Len(ws), pw[i].op \in Jumps
      PROVE  /\ \E f \in fixes : f.index + 1 = i
             /\ \A f \in fixes : f.index + 1 = i =>
                    /\ f \in Fixup /\ f.name = pw[i].to
                    /\ pw[i].op = (IF f.lines THEN "goto" ELSE "ba")
                    /\ Resolvable(f) <=> Defines(c, pw[i].to)
             /\ ws[i].hi = 0 /\ ws[i].lo = 0
  <2>1. ReferenceOK(ws[i], i) /\ ws[i].op \in Jumps
    BY <1>3, <1>6, <1>9
  <2>2. ASSUME NEW f \in fixes, f.index + 1 = i
        PROVE  /\ f \in Fixup /\ f.name = pw[i].to
               /\ pw[i].op = (IF f.lines THEN "goto" ELSE "ba")
               /\ Resolvable(f) <=> Defines(c, pw[i].to)
    <3>1. f \in Fixup /\ f.name \in Labels
      BY <1>1 DEF TypeOK, Fixup
    <3>2. f.name = pw[i].to /\ pw[i].op = (IF f.lines THEN "goto" ELSE "ba")
      BY <1>3, <1>6, <2>2
    <3> QED
      BY <1>8, <3>1, <3>2 DEF Resolvable
  <2> QED
    BY <2>1, <2>2 DEF ReferenceOK
<1>10. Lands(c)
  <2> SUFFICES ASSUME policy["GeckoLabelOffsets"], NEW i \in 1..Len(ws), pw[i].op \in Jumps,
                      Defines(c, pw[i].to)
               PROVE  pw[i].hi = 0 /\ StandsAt(c, FirstDefinition(c, pw[i].to), Landing(c, i))
    BY <1>5 DEF Lands
  <2>1. PICK f \in fixes : f.index + 1 = i /\ Resolvable(f) /\ pw[i] = Patch(ws[i], f)
    <3>1. \E f \in fixes : f.index + 1 = i /\ Resolvable(f)
      BY <1>9
    <3> QED
      BY <1>1, <1>3, <1>4, <3>1, PatchedAt
  <2>2. /\ f \in Fixup /\ f.name = pw[i].to /\ f.name \in Labels
        /\ pw[i].op = (IF f.lines THEN "goto" ELSE "ba")
    BY <1>9, <2>1 DEF Fixup
  <2>3. labels[f.name] # Undefined /\ labels[f.name] \in Nat
    BY <1>1, <2>1, <2>2 DEF Resolvable, TypeOK
  <2>4. /\ f.lines => (labels[f.name] - f.index) % 2 = 0
        /\ ~(Displacement(f) < -Half) /\ ~(Displacement(f) >= Half)
    BY <2>1 DEF Rejected
  <2>5. /\ Displacement(f) \in Int
        /\ 4 * ((f.index + 1) + 1) + (IF f.lines THEN 8 ELSE 1) * Displacement(f)
               = 4 * labels[f.name]
    BY <2>2, <2>3, <2>4, DisplacementLands
  <2>6. Signed(Unsigned(Displacement(f))) = Displacement(f)
    <3>1. -Half <= Displacement(f) /\ Displacement(f) < Half
      BY <2>4, <2>5, LayoutAssumption
    <3> QED
      BY <2>5, <3>1, SignedOfUnsigned
  <2>7. pw[i].hi = 0 /\ pw[i].lo = Unsigned(Displacement(f))
    <3>1. ws[i] \in Word
      BY <1>3, ElementOfSeq
    <3> QED
      BY <2>1, <3>1 DEF Patch, Word
  <2>8. Landing(c, i) = 4 * labels[f.name]
    <3>1. Landing(c, i) = 4 * (i + 1) + (IF pw[i].op = "goto" THEN 8 ELSE 1) * Displacement(f)
      BY <1>5, <2>6, <2>7 DEF Landing
    <3>2. pw[i].op = "goto" <=> f.lines
      BY <2>2
    <3> QED
      BY <2>1, <2>5, <3>1, <3>2
  <2>9. PICK d \in 1..Len(source) : First(source, f.name, d) /\ Parted(ws, labels[f.name], d)
    BY <1>3, <2>2, <2>3
  <2>10. FirstDefinition(c, pw[i].to) = d
    BY <1>7, <2>2, <2>9, FirstIsFirst
  <2>11. Parted(c.words, labels[f.name], d)
    BY <1>5, <1>6, <2>9 DEF Parted
  <2>12. StandsAt(c, d, 4 * labels[f.name])
    BY <1>5, <2>11, PartedStands
  <2> QED
    BY <2>7, <2>8, <2>10, <2>12
<1>11. Resolved(c)
  <2> SUFFICES ASSUME NEW i \in 1..Len(ws), pw[i].op \in Jumps, ~Defines(c, pw[i].to)
               PROVE  ~policy["MissingLabels"] /\ pw[i].hi = 0 /\ pw[i].lo = 0
    BY <1>5 DEF Resolved
  <2>1. PICK f \in fixes : f.index + 1 = i
    BY <1>9
  <2>2. \A g \in fixes : g.index + 1 = i => ~Resolvable(g)
    BY <1>9
  <2>3. pw[i] = ws[i]
    BY <1>1, <1>3, <1>4, <2>2, PatchedAt
  <2>4. ~policy["MissingLabels"]
    BY <2>1, <2>2 DEF Rejected
  <2> QED
    BY <1>9, <2>3, <2>4
<1>12. ASSUME ~last \/ policy["RawDataEOF"]
       PROVE  KeepsData(c)
  BY <1>3, <1>5, <1>6, <1>12 DEF KeepsData
<1> QED
  BY <1>5, <1>10, <1>11, <1>12

\* The section that ends joins the finished ones, and the next one starts empty.
LEMMA EndStep ==
    ASSUME JumpsInv, TypeOK', NEW last \in BOOLEAN, EndSection(last)
    PROVE  JumpsInv'
<1>1. TypeOK /\ FinishedOK /\ \A f \in fixes : ~Rejected(f)
  BY DEF JumpsInv, EndSection
<1>2. PICK c : c = [offset |-> offset, words |-> Patched(Complete(last)), source |-> source]
  OBVIOUS
<1>3. c.words = Patched(Complete(last)) /\ c.source = source
  BY <1>2
<1>4. /\ c.words \in Seq(Word) /\ Lands(c) /\ Resolved(c)
      /\ ~last \/ policy["RawDataEOF"] => KeepsData(c)
  BY <1>1, <1>3, FinishedSection
<1>5. /\ codes' = Append(codes, c) /\ policy' = policy /\ phase = "encode"
      /\ phase' = (IF last THEN "done" ELSE "encode")
      /\ words' = <<>> /\ data' = NoData /\ labels' = NoLabels /\ fixes' = {} /\ source' = <<>>
  BY <1>2 DEF EndSection, BeginSection
<1>6. c \in Code
  BY <1>1, <1>2, <1>4 DEF Code, TypeOK
<1>7. PICK k : k = Len(codes)
  OBVIOUS
<1>8. /\ k \in Nat /\ Len(codes') = k + 1 /\ codes'[k + 1] = c
      /\ \A j \in 1..k : codes'[j] = codes[j]
  BY <1>1, <1>5, <1>6, <1>7, AppendProperties, LenProperties DEF TypeOK
<1>9. ASSUME NEW j \in 1..(k + 1)
      PROVE  \E code : /\ code = codes'[j] /\ Lands(code)' /\ Resolved(code)'
                       /\ KeepsData(code)
                              \/ (j = k + 1 /\ phase' # "encode" /\ ~policy'["RawDataEOF"])
  <2>1. CASE j \in 1..k
    <3>1. PICK code : code = codes[j]
      OBVIOUS
    <3>2. Lands(code) /\ Resolved(code) /\ KeepsData(code)
      BY <1>1, <1>5, <1>7, <2>1, <3>1 DEF FinishedOK
    <3> QED
      BY <1>5, <1>8, <2>1, <3>1, <3>2 DEF Lands, Resolved
  <2>2. CASE j = k + 1
    <3>1. Lands(c)' /\ Resolved(c)'
      BY <1>4, <1>5 DEF Lands, Resolved
    <3>2. KeepsData(c) \/ (phase' # "encode" /\ ~policy'["RawDataEOF"])
      BY <1>4, <1>5
    <3> QED
      BY <1>8, <2>2, <3>1, <3>2
  <2> QED
    BY <1>8, <2>1, <2>2
<1>10. FinishedOK'
  BY <1>8, <1>9 DEF FinishedOK, Lands, Resolved
<1>11. OpenSectionOK'
  <2>1. Len(words') = 0 /\ Len(source') = 0
    BY <1>5
  <2>2. SourcesRead' /\ ReferencesOK' /\ DataKept'
    BY <1>5, <2>1 DEF SourcesRead, ReferencesOK, DataKept, NoData
  <2>3. \A l \in Labels : LabelPlaced(l)'
    BY <1>5, <2>1 DEF LabelPlaced, NoLabels
  <2> QED
    BY <2>2, <2>3 DEF OpenSectionOK
<1> QED
  BY <1>10, <1>11 DEF JumpsInv

----------------------------------------------------------------------------
(* The theorems *)

\* A codeset has no finished section at first, and the open one is empty.
LEMMA InitJumps == Init => JumpsInv
<1> SUFFICES ASSUME Init
             PROVE  JumpsInv
  OBVIOUS
<1>1. TypeOK
  BY InitTypeOK
<1>2. /\ words = <<>> /\ codes = <<>> /\ fixes = {} /\ source = <<>> /\ data = NoData
      /\ labels = NoLabels
  BY DEF Init
<1>3. Len(words) = 0 /\ Len(codes) = 0 /\ Len(source) = 0
  BY <1>2
<1>4. SourcesRead /\ ReferencesOK /\ DataKept
  BY <1>2, <1>3 DEF SourcesRead, ReferencesOK, DataKept, NoData
<1>5. \A l \in Labels : LabelPlaced(l)
  BY <1>2, <1>3 DEF LabelPlaced, NoLabels
<1>6. FinishedOK
  BY <1>3 DEF FinishedOK
<1> QED
  BY <1>1, <1>4, <1>5, <1>6 DEF JumpsInv, OpenSectionOK

\* Every step keeps labels, references and data where they belong.
LEMMA NextJumps == JumpsInv /\ [Next]_vars => JumpsInv'
<1> SUFFICES ASSUME JumpsInv, [Next]_vars
             PROVE  JumpsInv'
  OBVIOUS
<1>1. TypeOK /\ OpenSectionOK /\ FinishedOK /\ TypeOK'
  BY NextTypeOK DEF JumpsInv
<1>2. ASSUME NEW n \in DataSizes, EncodeData(n)
      PROVE  JumpsInv'
  BY <1>1, <1>2, PendingStep
<1>3. ASSUME NEW l \in Labels, EncodeLabel(l)
      PROVE  JumpsInv'
  BY <1>1, <1>3, LabelStep
<1>4. CASE Fail
  <2>1. Len(codes') = 0
    BY <1>4 DEF Fail
  <2>2. FinishedOK'
    BY <2>1 DEF FinishedOK
  <2>3. OpenSectionOK'
    BY <1>1, <1>4 DEF Fail, section, OpenSectionOK, SourcesRead, LabelPlaced, ReferencesOK,
       DataKept, FixupOK, ReferenceOK, Parted, First
  <2> QED
    BY <1>1, <2>2, <2>3 DEF JumpsInv
<1>5. ASSUME NEW kind \in Kinds \ {"data", "label"}, NEW ws \in Seq(Word),
             Accepts(kind, NoLabel), Emits(ws), fixes' = fixes,
             \A i \in 1..Len(ws) : ws[i].src = {Len(source) + 1} /\ ws[i].op \notin Jumps
      PROVE  JumpsInv'
  BY <1>1, <1>5, EmitsJumps
<1>6. ASSUME NEW kind \in Kinds \ {"data", "label"}, NEW n \in Nat,
             Accepts(kind, NoLabel), Emits(PlainWords("word", n, Current)), fixes' = fixes
      PROVE  JumpsInv'
  <2>1. PICK ws : ws = PlainWords("word", n, Current)
    OBVIOUS
  <2>2. ws \in Seq(Word)
        /\ \A i \in 1..Len(ws) : ws[i].src = {Len(source) + 1} /\ ws[i].op \notin Jumps
    BY <1>1, <2>1, PlainSources DEF Jumps
  <2> QED
    BY <1>5, <1>6, <2>1, <2>2
<1>7. CASE EncodeRaw
  BY <1>6, <1>7 DEF EncodeRaw, Kinds
<1>8. ASSUME NEW n \in WriteSizes, EncodeWrite(n)
      PROVE  JumpsInv'
  <2>1. n \in Nat
    BY LayoutAssumption
  <2> QED
    BY <1>6, <1>8, <2>1 DEF EncodeWrite, Kinds
<1>9. ASSUME NEW n \in BlockSizes, EncodeBlock(n)
      PROVE  JumpsInv'
  <2>1. PICK ws : ws = BlockWords(n, offset + 4 * Len(Flushed))
    OBVIOUS
  <2>2. offset + 4 * Len(Flushed) \in Nat
    BY <1>1, FlushedLemma DEF TypeOK
  <2>3. ws \in Seq(Word)
        /\ \A i \in 1..Len(ws) : ws[i].src = {Len(source) + 1} /\ ws[i].op \notin Jumps
    BY <1>1, <2>1, <2>2, BlockSources
  <2> QED
    BY <1>5, <1>9, <2>1, <2>3 DEF EncodeBlock, Kinds
<1>10. CASE EncodeDirective
  BY <1>6, <1>10 DEF EncodeDirective, Kinds
<1>11. CASE EncodeElseReset
  <2>1. (IF policy["ElseDirectives"] THEN 2 ELSE 0) \in Nat
    OBVIOUS
  <2> QED
    BY <1>6, <1>11, <2>1 DEF EncodeElseReset, Kinds
<1>12. ASSUME NEW kind \in Kinds \ {"data", "label"}, NEW op \in Jumps, NEW l \in Labels,
              NEW n \in Nat, NEW lines \in BOOLEAN, op = (IF lines THEN "goto" ELSE "ba"),
              Accepts(kind, l), Emits(<<Reference(op, l)>> \o PlainWords("word", n, Current)),
              fixes' = fixes \cup {[index |-> Len(Flushed), name |-> l, lines |-> lines]}
       PROVE  JumpsInv'
  <2> DEFINE ws == <<Reference(op, l)>> \o PlainWords("word", n, Current)
             f == [index |-> Len(Flushed), name |-> l, lines |-> lines]
  <2>1. /\ ws \in Seq(Word) /\ Len(ws) > 0
        /\ ws[1].op = op /\ ws[1].to = l /\ ws[1].hi = 0 /\ ws[1].lo = 0
        /\ \A i \in 1..Len(ws) : /\ ws[i].src = {Len(source) + 1}
                                 /\ i # 1 => ws[i].op \notin Jumps
    <3>1. TypeOK
      BY <1>1
    <3> QED
      BY <3>1, ReferenceSources
  <2>2. f.index = Len(Flushed) /\ f.name = l /\ (f.lines <=> lines)
    OBVIOUS
  <2>3. Emits(ws) /\ fixes' = fixes \cup {f} /\ Accepts(kind, l)
    BY <1>12
  <2> HIDE DEF ws, f
  <2>4. \A g \in fixes' \ fixes :
            /\ g.index = Len(Flushed) /\ Len(ws) > 0
            /\ ws[1].op = (IF g.lines THEN "goto" ELSE "ba") /\ ws[1].to = g.name
    BY <1>12, <2>1, <2>2, <2>3
  <2>5. \A i \in 1..Len(ws) : ws[i].op \in Jumps =>
            /\ i = 1 /\ ws[i].hi = 0 /\ ws[i].lo = 0
            /\ \E g \in fixes' : g.index = Len(Flushed)
    BY <2>1, <2>2, <2>3
  <2>6. l \in Labels \cup {NoLabel} /\ fixes \subseteq fixes'
    BY <2>3
  <2>7. \A i \in 1..Len(ws) : ws[i].src = {Len(source) + 1}
    BY <2>1
  <2>8. ws \in Seq(Word) /\ JumpsInv /\ TypeOK'
    BY <1>1, <2>1
  <2> QED
    BY <2>3, <2>4, <2>5, <2>6, <2>7, <2>8, EmitsJumps
<1>13. ASSUME NEW l \in Labels, NEW kind \in {"goto", "goto_f"}, EncodeGoto(l, kind)
       PROVE  JumpsInv'
  <2>1. (IF kind = "goto_f" /\ ~policy["GotoFalse"] THEN 0 ELSE 1) \in Nat
    OBVIOUS
  <2> QED
    BY <1>12, <1>13, <2>1 DEF EncodeGoto, Kinds, Jumps
<1>14. ASSUME NEW l \in Labels, EncodeBaseAddress(l)
       PROVE  JumpsInv'
  BY <1>12, <1>14 DEF EncodeBaseAddress, Kinds, Jumps
<1>15. ASSUME NEW last \in BOOLEAN, EndSection(last)
       PROVE  JumpsInv'
  BY <1>1, <1>15, EndStep
<1>16. CASE UNCHANGED vars
  <2>1. FinishedOK'
    BY <1>1, <1>16, FinishedSame DEF vars
  <2>2. OpenSectionOK'
    BY <1>1, <1>16 DEF vars, OpenSectionOK, SourcesRead, LabelPlaced, ReferencesOK,
       DataKept, FixupOK, ReferenceOK, Parted, First
  <2> QED
    BY <1>1, <2>1, <2>2 DEF JumpsInv
<1> QED
  BY <1>2, <1>3, <1>4, <1>7, <1>8, <1>9, <1>10, <1>11, <1>13, <1>14, <1>15, <1>16
  DEF Next, RejectLabel, StatementFails, RejectSection

\* The inductive invariant of the labels, references and data.
THEOREM JumpsInvariant == Spec => []JumpsInv
  BY InitJumps, NextJumps, PTL DEF Spec

\* With corrected label offsets, every GOTO and BA command of every finished section
\* takes the handler to the first definition of the label it names.
THEOREM LabelsAreReached == Spec => []JumpsLand
<1>1. JumpsInv => JumpsLand
  <2> SUFFICES ASSUME JumpsInv
               PROVE  JumpsLand
    OBVIOUS
  <2>1. DOMAIN codes = 1..Len(codes)
    BY LenProperties DEF JumpsInv, TypeOK
  <2>2. ASSUME NEW k \in 1..Len(codes)
        PROVE  DOMAIN codes[k].words = 1..Len(codes[k].words) /\ Lands(codes[k])
    <3>1. codes[k] \in Code
      BY ElementOfSeq DEF JumpsInv, TypeOK
    <3> QED
      BY <3>1, LenProperties DEF Code, JumpsInv, FinishedOK
  <2> QED
    BY <2>1, <2>2 DEF JumpsLand, Lands
<1> QED
  BY <1>1, JumpsInvariant, PTL

\* A reference to a label that its section does not define ends the assembly or is left
\* as it was encoded.
THEOREM MissingLabelsAreSeen == Spec => []ReferencesResolved
<1>1. JumpsInv => ReferencesResolved
  <2> SUFFICES ASSUME JumpsInv
               PROVE  ReferencesResolved
    OBVIOUS
  <2>1. DOMAIN codes = 1..Len(codes)
    BY LenProperties DEF JumpsInv, TypeOK
  <2>2. ASSUME NEW k \in 1..Len(codes)
        PROVE  DOMAIN codes[k].words = 1..Len(codes[k].words) /\ Resolved(codes[k])
    <3>1. codes[k] \in Code
      BY ElementOfSeq DEF JumpsInv, TypeOK
    <3> QED
      BY <3>1, LenProperties DEF Code, JumpsInv, FinishedOK
  <2> QED
    BY <2>1, <2>2 DEF ReferencesResolved, Resolved
<1> QED
  BY <1>1, JumpsInvariant, PTL

\* No data statement is lost at a section transition, nor at the end of the assembly
\* with raw_data_eof.
THEOREM DataIsKept == Spec => []DataReachesImage
<1>1. JumpsInv => DataReachesImage
  <2> SUFFICES ASSUME JumpsInv
               PROVE  DataReachesImage
    OBVIOUS
  <2>1. DOMAIN codes = 1..Len(codes) /\ Len(codes) \in Nat
    BY LenProperties DEF JumpsInv, TypeOK
  <2>2. ASSUME NEW k \in 1..Len(codes)
        PROVE  /\ DOMAIN codes[k].words = 1..Len(codes[k].words)
               /\ DOMAIN codes[k].source = 1..Len(codes[k].source)
    <3>1. codes[k] \in Code
      BY ElementOfSeq DEF JumpsInv, TypeOK
    <3> QED
      BY <3>1, LenProperties DEF Code
  <2>3. ASSUME NEW k \in 1..Len(codes), k < Len(codes) \/ phase = "encode" \/ policy["RawDataEOF"]
        PROVE  KeepsData(codes[k])
    <3>1. KeepsData(codes[k])
              \/ (k = Len(codes) /\ phase # "encode" /\ ~policy["RawDataEOF"])
      BY DEF JumpsInv, FinishedOK
    <3>2. k = Len(codes) => ~(k < Len(codes))
      BY <2>1
    <3> QED
      BY <2>3, <3>1, <3>2, Zenon
  <2> QED
    BY <2>1, <2>2, <2>3 DEF DataReachesImage, KeepsData
<1> QED
  BY <1>1, JumpsInvariant, PTL

----------------------------------------------------------------------------
(* Sections in the file *)

\* Every section starts where the one before it ends, the first one behind the
\* header, and the one being encoded starts behind the last one.
Chained ==
    /\ Len(codes) > 0 => codes[1].offset = 8
    /\ \A k \in 1..(Len(codes) - 1) :
           codes[k + 1].offset = codes[k].offset + 4 * Len(codes[k].words)
    /\ phase = "encode" =>
           offset = IF Len(codes) = 0 THEN 8
                    ELSE codes[Len(codes)].offset + 4 * Len(codes[Len(codes)].words)

\* The section that ends gets the offset at which the ones before it end.
LEMMA EndChained ==
    ASSUME TypeOK, Chained, NEW last \in BOOLEAN, EndSection(last)
    PROVE  Chained'
<1>1. PICK c : c = [offset |-> offset, words |-> Patched(Complete(last)), source |-> source]
  OBVIOUS
<1>2. /\ codes' = Append(codes, c) /\ offset' = offset + 4 * Len(c.words)
      /\ c.offset = offset /\ phase = "encode"
  BY <1>1 DEF EndSection
<1>3. PICK n : n = Len(codes)
  OBVIOUS
<1>4. codes \in Seq(Code)
  BY DEF TypeOK
<1>5. n \in Nat /\ Len(codes') = n + 1 /\ codes'[n + 1] = c /\ \A k \in 1..n : codes'[k] = codes[k]
  <2>1. n \in Nat /\ DOMAIN codes = 1..n
    BY <1>3, <1>4, LenProperties
  <2>2. codes \in Seq(Code \cup {c}) /\ c \in Code \cup {c}
    BY <1>4, SeqMonotonic
  <2>3. /\ Len(Append(codes, c)) = Len(codes) + 1
        /\ \A k \in 1..Len(codes) : Append(codes, c)[k] = codes[k]
        /\ Append(codes, c)[Len(codes) + 1] = c
    BY <2>2, AppendProperties
  <2> QED
    BY <1>2, <1>3, <2>1, <2>3
<1>6. c.offset = (IF n = 0 THEN 8 ELSE codes[n].offset + 4 * Len(codes[n].words))
  BY <1>2, <1>3 DEF Chained
<1>7. codes'[1].offset = 8
  BY <1>3, <1>5, <1>6 DEF Chained
<1>8. ASSUME NEW k \in 1..n
      PROVE  codes'[k + 1].offset = codes'[k].offset + 4 * Len(codes'[k].words)
  <2>1. CASE k = n
    BY <1>5, <1>6, <2>1
  <2>2. CASE k # n
    <3>1. k \in 1..(n - 1) /\ k + 1 \in 1..n
      BY <1>5, <2>2
    <3> QED
      BY <1>3, <1>5, <3>1 DEF Chained
  <2> QED
    BY <2>1, <2>2
<1>9. offset' = codes'[n + 1].offset + 4 * Len(codes'[n + 1].words)
  BY <1>2, <1>5
<1> QED
  BY <1>5, <1>7, <1>8, <1>9 DEF Chained

\* The sections stay in a chain: no statement moves the section it belongs to.
LEMMA NextChained == TypeOK /\ Chained /\ [Next]_vars => Chained'
<1> SUFFICES ASSUME TypeOK, Chained, [Next]_vars
             PROVE  Chained'
  OBVIOUS
<1>1. CASE UNCHANGED <<phase, codes, offset>>
  BY <1>1 DEF Chained
<1>2. CASE Fail
  <2>1. codes' = <<>> /\ phase' = "failed"
    BY <1>2 DEF Fail
  <2>2. Len(codes') = 0
    BY <2>1
  <2> QED
    BY <2>1, <2>2 DEF Chained
<1>3. CASE \/ \E n \in DataSizes : EncodeData(n)
           \/ \E l \in Labels : EncodeLabel(l)
           \/ EncodeRaw \/ EncodeDirective \/ EncodeElseReset
           \/ \E n \in WriteSizes : EncodeWrite(n)
           \/ \E n \in BlockSizes : EncodeBlock(n)
  BY <1>1, <1>3 DEF EncodeData, EncodeLabel, EncodeRaw, EncodeDirective, EncodeElseReset,
     EncodeWrite, EncodeBlock, Emits
<1>4. CASE \/ \E l \in Labels, kind \in {"goto", "goto_f"} : EncodeGoto(l, kind)
           \/ \E l \in Labels : EncodeBaseAddress(l)
  BY <1>1, <1>4 DEF EncodeGoto, EncodeBaseAddress, Emits
<1>5. CASE \E last \in BOOLEAN : EndSection(last)
  BY <1>5, EndChained
<1>6. CASE UNCHANGED vars
  BY <1>1, <1>6 DEF vars
<1> QED
  BY <1>2, <1>3, <1>4, <1>5, <1>6 DEF Next, RejectLabel, StatementFails, RejectSection

\* A list that other lists enclose, element by element.
LEMMA Enclosed ==
    ASSUME NEW s \in Seq(Word), NEW t \in Seq(Word), NEW u \in Seq(Word)
    PROVE  /\ (s \o t) \o u \in Seq(Word)
           /\ Len((s \o t) \o u) = (Len(s) + Len(t)) + Len(u)
           /\ \A j \in 1..Len(t) : ((s \o t) \o u)[Len(s) + j] = t[j]
<1>1. /\ s \o t \in Seq(Word)
      /\ Len(s) \in Nat /\ Len(t) \in Nat /\ Len(s \o t) = Len(s) + Len(t)
      /\ \A i \in (Len(s) + 1)..(Len(s) + Len(t)) : (s \o t)[i] = t[i - Len(s)]
  BY Joined
<1>2. PICK v : v = s \o t /\ v \in Seq(Word)
  BY <1>1
<1>3. /\ v \o u \in Seq(Word) /\ Len(v \o u) = Len(v) + Len(u)
      /\ \A i \in 1..Len(v) : (v \o u)[i] = v[i]
  BY <1>2, Joined
<1>4. ASSUME NEW j \in 1..Len(t)
      PROVE  (v \o u)[Len(s) + j] = t[j]
  <2>1. /\ Len(s) + j \in (Len(s) + 1)..(Len(s) + Len(t)) /\ (Len(s) + j) - Len(s) = j
        /\ Len(s) + j \in 1..(Len(s) + Len(t))
    BY <1>1
  <2>2. v[Len(s) + j] = t[j]
    BY <1>1, <1>2, <2>1
  <2>3. (v \o u)[Len(s) + j] = v[Len(s) + j]
    BY <1>1, <1>2, <1>3, <2>1
  <2> QED
    BY <2>2, <2>3
<1> QED
  BY <1>1, <1>2, <1>3, <1>4

\* A stretch of a list that has the elements of another one is that list.
LEMMA Stretch ==
    ASSUME NEW s \in Seq(Word), NEW t \in Seq(Word), NEW q \in Nat, q + Len(t) <= Len(s),
           \A j \in 1..Len(t) : s[q + j] = t[j]
    PROVE  SubSeq(s, q + 1, q + Len(t)) = t
<1>1. PICK n : n = Len(t) /\ n \in Nat /\ Len(s) \in Nat /\ q + n <= Len(s)
  BY LenProperties
<1>2. PICK m : m = q + n /\ m \in Nat /\ m - q = n /\ (m - (q + 1)) + 1 = n
  BY <1>1
<1>3. SubSeq(s, q + 1, m) = [j \in 1..n |-> s[q + j]]
  <2>1. SubSeq(s, q + 1, m) = [j \in 1..((m - (q + 1)) + 1) |-> s[(j + (q + 1)) - 1]]
    <3>1. DOMAIN s = 1..Len(s) /\ (q + 1)..m \subseteq 1..Len(s)
      BY <1>1, <1>2, LenProperties
    <3> QED
      BY <1>1, <1>2, <3>1
  <2>2. \A j \in 1..n : (j + (q + 1)) - 1 = q + j
    OBVIOUS
  <2> QED
    BY <1>2, <2>1, <2>2
<1>4. t = [j \in 1..n |-> t[j]]
  BY <1>1
<1> QED
  BY <1>1, <1>2, <1>3, <1>4

\* A section of a chain of sections is in the file where it says.
LEMMA ChainedIsFinal ==
    ASSUME TypeOK, Chained
    PROVE  OffsetsAreFinal
<1>1. PICK ss : ss = [k \in DOMAIN codes |-> codes[k].words]
  OBVIOUS
<1>2. DOMAIN codes = 1..Len(codes) /\ Len(codes) \in Nat
  BY LenProperties DEF TypeOK
<1>3. ASSUME NEW k \in 1..Len(codes)
      PROVE  codes[k].words \in Seq(Word) /\ codes[k].offset \in Nat /\ ss[k] = codes[k].words
  <2>1. codes[k] \in Code
    BY ElementOfSeq DEF TypeOK
  <2> QED
    BY <1>1, <1>2, <2>1 DEF Code
<1>4. ss \in Seq(Seq(Word)) /\ Len(ss) = Len(codes)
  <2>1. ss \in [1..Len(codes) -> Seq(Word)]
    BY <1>1, <1>2, <1>3
  <2>2. ss \in Seq(Seq(Word))
    BY <1>2, <2>1, SeqDef
  <2> QED
    BY <1>2, <2>1, <2>2, LenProperties
<1> SUFFICES ASSUME NEW k \in 1..Len(codes)
             PROVE  SubSeq(Image, (codes[k].offset \div 4) + 1,
                           (codes[k].offset \div 4) + Len(codes[k].words)) = codes[k].words
  BY <1>2 DEF OffsetsAreFinal
<1>5. PICK flat : flat = FlattenSeq(ss)
  OBVIOUS
<1>6. PICK at : /\ at \in [1..Len(codes) -> Nat] /\ at[1] = 0
                /\ \A j \in 1..(Len(codes) - 1) : at[j + 1] = at[j] + Len(ss[j])
                /\ flat \in Seq(Word)
                /\ \A j \in 1..Len(codes) : at[j] + Len(ss[j]) <= Len(flat)
                /\ \A j \in 1..Len(codes) : \A m \in 1..Len(ss[j]) : flat[at[j] + m] = ss[j][m]
  <2>1. ss \in Seq(Seq(Word)) /\ Len(ss) > 0
    BY <1>2, <1>4
  <2>2. PICK at : FlatAt(Word, ss, FlattenSeq(ss), at)
    BY <2>1, FlattenLemma
  <2>3. FlatAt(Word, ss, flat, at)
    BY <1>5, <2>2
  <2>4. /\ at \in [1..Len(ss) -> Nat] /\ at[1] = 0
        /\ \A j \in 1..(Len(ss) - 1) : at[j + 1] = at[j] + Len(ss[j])
        /\ flat \in Seq(Word)
        /\ \A j \in 1..Len(ss) : at[j] + Len(ss[j]) <= Len(flat)
        /\ \A j \in 1..Len(ss) : \A m \in 1..Len(ss[j]) : flat[at[j] + m] = ss[j][m]
    BY <2>3 DEF FlatAt
  <2>5. Len(ss) = Len(codes)
    BY <1>4
  <2> QED
    BY <2>4, <2>5
<1>7. codes[k].offset = 8 + 4 * at[k]
  <2> DEFINE T == {j \in Nat : codes[j].offset = 8 + 4 * at[j]}
  <2>1. 1 \in T
    BY <1>2, <1>6 DEF Chained
  <2>2. ASSUME NEW j \in 1..(Len(codes) - 1), j \in T
        PROVE  j + 1 \in T
    <3>1. j \in 1..Len(codes) /\ j + 1 \in Nat
      BY <1>2
    <3>2. PICK a \in Nat, n \in Nat : a = at[j] /\ n = Len(ss[j])
      BY <1>3, <1>6, <3>1, LenProperties
    <3>3. codes[j + 1].offset = (8 + 4 * a) + 4 * n
      BY <1>3, <2>2, <3>1, <3>2 DEF Chained
    <3>4. at[j + 1] = a + n
      BY <1>6, <3>2
    <3> QED
      BY <3>1, <3>3, <3>4
  <2> HIDE DEF T
  <2>3. \A j \in 1..Len(codes) : j \in T
    BY <1>2, <2>1, <2>2, UpTo
  <2> QED
    BY <2>3 DEF T
<1>8. PICK h : h = PlainWords("word", 2, {}) /\ h \in Seq(Word) /\ Len(h) = 2
  <2>1. "word" \in Ops /\ 2 \in Nat /\ {} \in SUBSET (Nat \ {0})
    BY DEF Ops
  <2>2. PICK op \in Ops, n \in Nat, s \in SUBSET (Nat \ {0}) : op = "word" /\ n = 2 /\ s = {}
    BY <2>1
  <2>3. PlainWords(op, n, s) \in Seq(Word) /\ Len(PlainWords(op, n, s)) = n
    BY PlainWordsLemma
  <2> QED
    BY <2>2, <2>3
<1>9. PICK image : image = (h \o flat) \o h /\ image = Image
  BY <1>1, <1>5, <1>8 DEF Image
<1>10. PICK p, ws : /\ p = at[k] /\ ws = codes[k].words /\ ws = ss[k]
                    /\ p \in Nat /\ ws \in Seq(Word)
  BY <1>3, <1>6
<1>11. flat \in Seq(Word) /\ h \in Seq(Word) /\ Len(h) = 2
  BY <1>6, <1>8
<1>12. /\ image \in Seq(Word) /\ Len(image) = (Len(h) + Len(flat)) + Len(h)
       /\ \A j \in 1..Len(flat) : image[Len(h) + j] = flat[j]
  <2>1. flat \in Seq(Word) /\ h \in Seq(Word)
    BY <1>11
  <2>2. /\ (h \o flat) \o h \in Seq(Word)
        /\ Len((h \o flat) \o h) = (Len(h) + Len(flat)) + Len(h)
        /\ \A j \in 1..Len(flat) : ((h \o flat) \o h)[Len(h) + j] = flat[j]
    BY <2>1, Enclosed
  <2> QED
    BY <1>9, <2>2, Zenon
<1>13. p + Len(ws) <= Len(flat) /\ \A m \in 1..Len(ws) : flat[p + m] = ws[m]
  BY <1>6, <1>10
<1>14. Len(ws) \in Nat /\ Len(flat) \in Nat /\ Len(image) \in Nat
  BY <1>10, <1>11, <1>12, LenProperties
<1>15. PICK q \in Nat : q = 2 + p
  BY <1>10
<1>16. ASSUME NEW m \in 1..Len(ws)
       PROVE  image[q + m] = ws[m]
  <2>1. p + m \in 1..Len(flat) /\ q + m = 2 + (p + m)
    <3>1. PICK a \in Nat, b \in Nat : a = Len(ws) /\ b = Len(flat) /\ p \in Nat /\ p + a <= b
      BY <1>10, <1>13, <1>14
    <3>2. m \in 1..a
      BY <3>1
    <3>3. p + m \in 1..b /\ (2 + p) + m = 2 + (p + m)
      BY <3>1, <3>2
    <3> QED
      BY <1>15, <3>1, <3>3
  <2>2. image[2 + (p + m)] = flat[p + m]
    BY <1>11, <1>12, <2>1
  <2>3. flat[p + m] = ws[m]
    BY <1>13
  <2> QED
    BY <2>1, <2>2, <2>3
<1>17. q + Len(ws) <= Len(image)
  BY <1>10, <1>11, <1>12, <1>13, <1>14, <1>15
<1>18. SubSeq(image, q + 1, q + Len(ws)) = ws
  BY <1>10, <1>12, <1>16, <1>17, Stretch
<1>19. codes[k].offset \div 4 = q
  <2>1. codes[k].offset = 4 * q
    BY <1>7, <1>10, <1>15
  <2>2. (4 * q) \div 4 = q
    OBVIOUS
  <2> QED
    BY <2>1, <2>2
<1> QED
  BY <1>9, <1>10, <1>18, <1>19

\* Code.Offset, which the log prints and from which the branches of the section's
\* blocks follow, is where the words of the section are in the bytes of the result.
THEOREM SectionsAreFound == Spec => []OffsetsAreFinal
<1>1. Init => Chained
  <2> SUFFICES ASSUME Init PROVE Chained
    OBVIOUS
  <2>1. Len(codes) = 0 /\ offset = 8
    BY DEF Init
  <2> QED
    BY <2>1 DEF Chained
<1>2. TypeOK /\ Chained /\ [Next]_vars => Chained'
  BY NextChained
<1>3. TypeOK /\ Chained => OffsetsAreFinal
  BY ChainedIsFinal
<1> QED
  BY <1>1, <1>2, <1>3, TypeCorrect, PTL DEF Spec

=============================================================================
