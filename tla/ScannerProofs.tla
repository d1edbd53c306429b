--------------------------- MODULE ScannerProofs ---------------------------
(***************************************************************************)
(* Theorems about scanPolicy, for files of any length: no letter is lost,  *)
(* strings stay whole, statements end with their lines, and their          *)
(* positions are those of the lines they start at.                         *)
(***************************************************************************)
EXTENDS Scanner, Lists

----------------------------------------------------------------------------
(* The inductive invariant *)

Entry == [text : Seq(Nat), pos : Nat]

TypeOK ==
    /\ text \in Seq(Chars)
    /\ phase \in {"scan", "done", "failed"}
    /\ i \in 1..(Len(text) + 1)
    /\ b \in Seq(Nat)
    /\ line \in Nat /\ start \in Nat
    /\ quote \in BOOLEAN /\ escape \in BOOLEAN /\ comment \in BOOLEAN
    /\ out \in Seq(Entry)

\* The line number is that of the place, and a statement starts at it or before.
LineOK ==
    /\ \A p \in 1..Len(text) : p = i => line = LineOf(p)
    /\ start <= line

\* What LinesEndStatements says of two neighbours.
Joins(p, q) ==
    ~SameLine(p, q) =>
        \/ q = p + 1 /\ text[p] = "newline"
        \/ \E r \in (p + 1)..(q - 1) : Opens(r)

Whole(s) ==
    \A n \in 1..(Len(s) - 1) : \A p, q \in 1..Len(text) :
        s[n] = p /\ s[n + 1] = q => Joins(p, q)

\* Place p can be followed by what is read next: a string is read without gaps,
\* anything else on the line of p or behind a block comment.
Leads(p) ==
    IF quote THEN p = i - 1
    ELSE \/ \E r \in (p + 1)..(i - 1) : Opens(r)
         \/ ~comment /\ \A q \in 1..Len(text) : q = i => SameLine(p, q)

\* The statement being read is made of places that were read since its start.
BufferOK ==
    /\ \A k \in 1..Len(b) : b[k] < i
    /\ \A k \in 1..Len(b) : \A p \in 1..Len(text) : b[k] = p => start <= LineOf(p)
    /\ Whole(b)
    /\ \A p \in 1..Len(text) : Len(b) > 0 /\ b[Len(b)] = p => Leads(p)
    /\ ~(quote /\ comment)

\* A statement is made of places of the file, is whole, and its position is not behind
\* its first character.
Sound(e) ==
    /\ Len(e.text) > 0
    /\ \A n \in 1..Len(e.text) : e.text[n] <= Len(text)
    /\ e.text[1] \in 1..Len(text)
    /\ \A p \in 1..Len(text) : e.text[1] = p => e.pos <= LineOf(p)
    /\ Whole(e.text)

\* The statements o are sound, and in the order of their positions, none of which is
\* behind the line bound.
OutGood(o, bound) ==
    \A k \in 1..Len(o) :
        /\ Sound(o[k])
        /\ o[k].pos <= bound
        /\ k > 1 => o[k - 1].pos <= o[k].pos

IsLetter(p) == text[p] \in {"a", "op", ".alias"}

\* The beginning of the file up to q is an .alias at r, or blank before it.
AliasAt(r, q) ==
    /\ text[r] = ".alias"
    /\ \A s \in 1..(r - 1) : text[s] \in {" ", "newline"}
    /\ \A s \in r..q : text[s] \notin {"newline", ";", "{"}

\* What NoLetterIsLost says of a letter that is in no statement.
Excused(p) ==
    \/ \E q \in 1..(p - 1) : Opens(q)
    \/ \E q \in 1..(p - 1) :
           /\ Hides(q) /\ SameLine(p, q)
           /\ text[q] = "|" /\ "ScannerOR" \in policy =>
                  ~\E r \in 1..(q - 1) : AliasAt(r, q)

InStatements(p, o) == \E k \in 1..Len(o) : \E n \in 1..Len(o[k].text) : o[k].text[n] = p
InBuffer(p) == \E k \in 1..Len(b) : b[k] = p

\* A letter that was read is in a statement, in the one being read, or excused.
LettersOK ==
    /\ \A p \in 1..(i - 1) : IsLetter(p) => InStatements(p, out) \/ InBuffer(p) \/ Excused(p)
    /\ comment => \E q \in 1..(i - 1) : Opens(q)
    /\ phase = "done" => i = Len(text) + 1 /\ b = <<>>

QuoteRead == \E q \in 1..(i - 1) : text[q] = "quote"

\* The .alias that begins the file begins the statement being read, as long as
\* nothing ended it.
AliasOK ==
    /\ quote => QuoteRead
    /\ \A k \in 1..Len(b) : b[k] > 0 /\ text[b[k]] = "newline" => QuoteRead
    /\ \A r \in 1..(i - 1) :
           i <= Len(text) /\ AliasAt(r, i - 1) =>
               \/ \E q \in 1..(i - 1) : Opens(q)
               \/ \E k \in 1..Len(b) : b[k] = r /\ \A n \in 1..(k - 1) : BlankAt(b[n])

ScanInv == TypeOK /\ LineOK /\ BufferOK /\ OutGood(out, start) /\ LettersOK /\ AliasOK

\* The statements when the one being read ends, with line x.
EmittedAt(x) == IF Trimmed(b) = <<>> THEN out ELSE Append(out, [text |-> Trimmed(b), pos |-> x])

----------------------------------------------------------------------------
(* Places *)

\* NextLine is behind the next end of line, or behind the file.
LEMMA NextLineLemma ==
    ASSUME TypeOK, i <= Len(text)
    PROVE  /\ NextLine \in (i + 1)..(Len(text) + 1)
           /\ \A p \in i..(NextLine - 2) : text[p] # "newline"
           /\ text[NextLine - 1] = "newline" \/ NextLine = Len(text) + 1
           /\ text[NextLine - 1] = "newline" \/ \A p \in i..Len(text) : text[p] # "newline"
<1> DEFINE ends == {k \in i..Len(text) : text[k] = "newline"}
<1>1. Len(text) \in Nat /\ i \in 1..Len(text)
  BY LenProperties DEF TypeOK
<1>2. CASE ends = {}
  BY <1>1, <1>2 DEF NextLine
<1>3. CASE ends # {}
  <2>1. \E k \in ends : \A l \in ends : k <= l
    <3>1. ends \in SUBSET Nat
      BY <1>1
    <3> HIDE DEF ends
    <3> QED
      BY <1>3, <3>1, Smallest
  <2>2. PICK m : m = CHOOSE k \in ends : \A l \in ends : k <= l
    OBVIOUS
  <2>3. m \in ends /\ \A l \in ends : m <= l
    BY <2>1, <2>2
  <2>4. NextLine = m + 1
    BY <1>3, <2>2 DEF NextLine
  <2> QED
    BY <1>1, <2>3, <2>4
<1> QED
  BY <1>2, <1>3

\* Lines are numbers, and do not decrease.
LEMMA LineMonotonic ==
    ASSUME NEW p \in Nat, NEW q \in Nat, p <= q
    PROVE  LineOf(p) \in Nat /\ LineOf(q) \in Nat /\ LineOf(p) <= LineOf(q)
<1> DEFINE ends(n) == {k \in 1..(n - 1) : text[k] = "newline"}
<1>1. IsFiniteSet(ends(p)) /\ IsFiniteSet(ends(q)) /\ ends(p) \in SUBSET ends(q)
  <2>1. IsFiniteSet(1..(p - 1)) /\ IsFiniteSet(1..(q - 1))
    BY FS_Interval
  <2>2. ends(p) \in SUBSET (1..(p - 1)) /\ ends(q) \in SUBSET (1..(q - 1))
    OBVIOUS
  <2>3. ends(p) \in SUBSET ends(q)
    OBVIOUS
  <2> QED
    BY <2>1, <2>2, <2>3, FS_Subset
<1>2. /\ Cardinality(ends(p)) \in Nat /\ Cardinality(ends(q)) \in Nat
      /\ Cardinality(ends(p)) <= Cardinality(ends(q))
  BY <1>1, FS_CardinalityType, FS_Subset
<1> QED
  BY <1>2 DEF LineOf

\* Places with no end of line between them are on one line.
LEMMA LineStays ==
    ASSUME NEW p \in Nat \ {0}, NEW q \in Nat, p <= q, \A k \in p..(q - 1) : text[k] # "newline"
    PROVE  LineOf(q) = LineOf(p)
<1>1. {k \in 1..(q - 1) : text[k] = "newline"} = {k \in 1..(p - 1) : text[k] = "newline"}
  OBVIOUS
<1> QED
  BY <1>1 DEF LineOf

\* The end of a line begins the next one.
LEMMA LineAdvances ==
    ASSUME NEW p \in Nat \ {0}, text[p] = "newline"
    PROVE  LineOf(p + 1) = LineOf(p) + 1
<1> DEFINE ends == {k \in 1..(p - 1) : text[k] = "newline"}
<1>1. {k \in 1..(p + 1 - 1) : text[k] = "newline"} = ends \cup {p}
  OBVIOUS
<1>2. IsFiniteSet(ends)
  BY FS_Interval, FS_Subset, ends \in SUBSET (1..(p - 1))
<1>3. p \notin ends
  OBVIOUS
<1>4. Cardinality(ends \cup {p}) = Cardinality(ends) + 1 /\ Cardinality(ends) \in Nat
  BY <1>2, <1>3, FS_AddElement, FS_CardinalityType
<1> QED
  BY <1>1, <1>4 DEF LineOf

\* The file is the same in all states, and so is what follows from it.
LEMMA TextSame ==
    ASSUME text' = text, policy' = policy
    PROVE  /\ \A p : LineOf(p)' = LineOf(p)
           /\ \A p : Opens(p)' <=> Opens(p)
           /\ \A p : BlankAt(p)' <=> BlankAt(p)
           /\ \A p, q : SameLine(p, q)' <=> SameLine(p, q)
           /\ \A p, q : AliasAt(p, q)' <=> AliasAt(p, q)
           /\ \A p, q : Joins(p, q)' <=> Joins(p, q)
           /\ \A p : Excused(p)' <=> Excused(p)
<1>1. \A p : LineOf(p)' = LineOf(p)
  BY DEF LineOf
<1>2. \A p : Opens(p)' <=> Opens(p)
  BY DEF Opens
<1>3. \A p : BlankAt(p)' <=> BlankAt(p)
  BY DEF BlankAt
<1>4. \A p, q : SameLine(p, q)' <=> SameLine(p, q)
  BY <1>1 DEF SameLine
<1>5. \A p, q : AliasAt(p, q)' <=> AliasAt(p, q)
  BY DEF AliasAt
<1>6. \A p, q : Joins(p, q)' <=> Joins(p, q)
  BY <1>2, <1>4 DEF Joins
<1>7. \A p : Hides(p)' <=> Hides(p)
  BY DEF Hides
<1>8. \A p : Excused(p)' <=> Excused(p)
  BY <1>2, <1>4, <1>5, <1>7 DEF Excused
<1> QED
  BY <1>1, <1>2, <1>3, <1>4, <1>5, <1>6, <1>8

----------------------------------------------------------------------------
(* Statements *)

\* What is trimmed of a statement is blank, and the rest is what stood between.
LEMMA TrimmedLemma ==
    ASSUME NEW s \in Seq(Nat), Trimmed(s) # <<>>
    PROVE  \E lo, hi \in 1..Len(s) :
               /\ lo <= hi
               /\ Trimmed(s) \in Seq(Nat) /\ Len(Trimmed(s)) = hi - lo + 1
               /\ \A n \in 1..Len(Trimmed(s)) : Trimmed(s)[n] = s[lo + n - 1]
               /\ ~BlankAt(s[lo])
               /\ \A n \in 1..Len(s) : ~BlankAt(s[n]) => lo <= n /\ n <= hi
<1> DEFINE solid == {k \in DOMAIN s : ~BlankAt(s[k])}
<1>1. Len(s) \in Nat /\ DOMAIN s = 1..Len(s) /\ solid \in SUBSET Nat
  BY LenProperties
<1>2. solid # {}
  BY DEF Trimmed
<1>3. PICK lo, hi : /\ lo = CHOOSE k \in solid : \A l \in solid : k <= l
                    /\ hi = CHOOSE k \in solid : \A l \in solid : l <= k
  OBVIOUS
<1>4. lo \in solid /\ \A l \in solid : lo <= l
  BY <1>1, <1>2, <1>3, Smallest
<1>5. hi \in solid /\ \A l \in solid : l <= hi
  <2>1. \A n \in solid : n <= Len(s)
    BY <1>1
  <2>2. \E k \in solid : \A l \in solid : l <= k
    BY <1>1, <1>2, <2>1, Largest
  <2> QED
    BY <1>3, <2>2
<1>6. Trimmed(s) = SubSeq(s, lo, hi)
  BY <1>2, <1>3 DEF Trimmed
<1>7. lo \in 1..Len(s) /\ hi \in 1..Len(s) /\ lo <= hi
  BY <1>1, <1>4, <1>5
<1>8. \A n \in lo..hi : s[n] \in Nat
  BY <1>1, <1>7, ElementOfSeq
<1>9. /\ SubSeq(s, lo, hi) \in Seq(Nat) /\ Len(SubSeq(s, lo, hi)) = hi - lo + 1
      /\ \A n \in 1..(hi - lo + 1) : SubSeq(s, lo, hi)[n] = s[lo + n - 1]
  BY <1>7, <1>8, SubSeqProperties
<1> QED
  BY <1>1, <1>4, <1>5, <1>6, <1>7, <1>9

\* A statement of blanks is trimmed to nothing.
LEMMA BlankLemma ==
    ASSUME NEW s \in Seq(Nat), Trimmed(s) = <<>>
    PROVE  \A n \in 1..Len(s) : BlankAt(s[n])
<1> SUFFICES ASSUME NEW n \in 1..Len(s), ~BlankAt(s[n])
             PROVE  FALSE
  OBVIOUS
<1> DEFINE solid == {k \in DOMAIN s : ~BlankAt(s[k])}
<1>1. Len(s) \in Nat /\ DOMAIN s = 1..Len(s) /\ solid \in SUBSET Nat /\ n \in solid
  BY LenProperties
<1>3. PICK lo, hi : /\ lo = CHOOSE k \in solid : \A l \in solid : k <= l
                    /\ hi = CHOOSE k \in solid : \A l \in solid : l <= k
  OBVIOUS
<1>4. lo \in solid /\ \A l \in solid : lo <= l
  BY <1>1, <1>3, Smallest
<1>5. hi \in solid /\ \A l \in solid : l <= hi
  <2>1. \A k \in solid : k <= Len(s)
    BY <1>1
  <2>2. \E k \in solid : \A l \in solid : l <= k
    BY <1>1, <2>1, Largest
  <2> QED
    BY <1>3, <2>2
<1>6. Trimmed(s) = SubSeq(s, lo, hi)
  BY <1>1, <1>3 DEF Trimmed
<1>7. lo \in 1..Len(s) /\ hi \in 1..Len(s) /\ lo <= hi
  BY <1>1, <1>4, <1>5
<1>8. \A k \in lo..hi : s[k] \in Nat
  BY <1>1, <1>7, ElementOfSeq
<1>9. SubSeq(s, lo, hi) \in Seq(Nat) /\ Len(SubSeq(s, lo, hi)) = hi - lo + 1
  BY <1>7, <1>8, SubSeqProperties
<1>10. PICK t : t = SubSeq(s, lo, hi)
  OBVIOUS
<1>11. Len(t) = hi - lo + 1 /\ t \in Seq(Nat)
  BY <1>9, <1>10
<1>12. t = <<>>
  BY <1>6, <1>10
<1>13. Len(t) = 0
  BY <1>12
<1> QED
  BY <1>7, <1>11, <1>13

\* The statements are bounded by any later line too.
LEMMA OutLater ==
    ASSUME NEW o \in Seq(Entry), NEW x \in Nat, NEW y \in Nat, x <= y, OutGood(o, x)
    PROVE  OutGood(o, y)
<1>1. \A k \in 1..Len(o) : o[k] \in Entry
  BY ElementOfSeq
<1>2. \A k \in 1..Len(o) : o[k].pos \in Nat
  BY <1>1 DEF Entry
<1>3. \A k \in 1..Len(o) : o[k].pos <= x
  BY DEF OutGood
<1>4. \A k \in 1..Len(o) : o[k].pos <= y
  BY <1>2, <1>3
<1> QED
  BY <1>4 DEF OutGood

\* A further statement, behind the others.
LEMMA AppendGood ==
    ASSUME NEW o \in Seq(Entry), NEW x \in Nat, NEW y \in Nat, x <= y, OutGood(o, x),
           NEW e \in Entry, x <= e.pos, e.pos <= y, Sound(e)
    PROVE  /\ Append(o, e) \in Seq(Entry) /\ OutGood(Append(o, e), y)
           /\ \A p : InStatements(p, o) => InStatements(p, Append(o, e))
           /\ \A n \in 1..Len(e.text) : InStatements(e.text[n], Append(o, e))
<1>1. PICK m, a : m = Len(o) /\ a = Append(o, e)
  OBVIOUS
<1>2. /\ m \in Nat /\ a \in Seq(Entry) /\ Len(a) = m + 1 /\ a[m + 1] = e
      /\ \A k \in 1..m : a[k] = o[k] /\ o[k] \in Entry
  BY <1>1, LenProperties, AppendProperties, ElementOfSeq
<1>3. ASSUME NEW k \in 1..Len(a)
      PROVE  /\ Sound(a[k])
             /\ a[k].pos <= y
             /\ k > 1 => a[k - 1].pos <= a[k].pos
  <2>1. CASE k \in 1..m
    <3>1. a[k] = o[k] /\ (k > 1 => a[k - 1] = o[k - 1])
      BY <1>2, <2>1
    <3>2. /\ Sound(o[k])
          /\ o[k].pos <= x
          /\ k > 1 => o[k - 1].pos <= o[k].pos
      BY <1>1, <2>1 DEF OutGood
    <3>3. o[k].pos \in Nat
      BY <1>2, <2>1 DEF Entry
    <3> QED
      BY <3>1, <3>2, <3>3
  <2>2. CASE k = m + 1
    <3>1. a[k] = e
      BY <1>2, <2>2
    <3>2. k > 1 => a[k - 1] = o[k - 1] /\ o[k - 1].pos <= x /\ o[k - 1].pos \in Nat
      <4>1. k > 1 => k - 1 \in 1..m
        BY <1>2, <2>2
      <4> QED
        BY <1>1, <1>2, <4>1 DEF OutGood, Entry
    <3>3. e.pos \in Nat
      BY DEF Entry
    <3> QED
      BY <3>1, <3>2, <3>3
  <2> QED
    BY <1>2, <2>1, <2>2
<1>4. OutGood(a, y)
  BY <1>3 DEF OutGood
<1>5. ASSUME NEW p, InStatements(p, o)
      PROVE  InStatements(p, a)
  <2>1. PICK k \in 1..m : \E n \in 1..Len(o[k].text) : o[k].text[n] = p
    BY <1>1, <1>5 DEF InStatements
  <2>2. k \in 1..Len(a) /\ a[k] = o[k]
    BY <1>2, <2>1
  <2> QED
    BY <2>1, <2>2 DEF InStatements
<1>6. ASSUME NEW n \in 1..Len(e.text)
      PROVE  InStatements(e.text[n], a)
  <2>1. m + 1 \in 1..Len(a) /\ a[m + 1] = e
    BY <1>2
  <2> QED
    BY <2>1 DEF InStatements
<1> QED
  BY <1>1, <1>2, <1>4, <1>5, <1>6

\* emit: what was read becomes a statement, with its letters, or was blank.
LEMMA EmitLemma ==
    ASSUME TypeOK, BufferOK, OutGood(out, start), NEW x \in Nat, b = <<>> \/ x = start, start <= x
    PROVE  /\ EmittedAt(x) \in Seq(Entry) /\ OutGood(EmittedAt(x), x)
           /\ \A p \in 1..Len(text) :
                 InStatements(p, out) \/ (InBuffer(p) /\ IsLetter(p)) =>
                     InStatements(p, EmittedAt(x))
<1>1. /\ b \in Seq(Nat) /\ out \in Seq(Entry) /\ start \in Nat /\ Len(text) \in Nat
      /\ i \in Nat /\ i <= Len(text) + 1 /\ Len(b) \in Nat
      /\ \A n \in 1..Len(b) : b[n] \in Nat
  BY LenProperties, ElementOfSeq DEF TypeOK
<1>2. ASSUME NEW n \in 1..Len(b), ~BlankAt(b[n])
      PROVE  b[n] \in 1..Len(text)
  <2>1. b[n] < i
    BY <1>2 DEF BufferOK
  <2>2. b[n] # 0
    BY <1>2 DEF BlankAt
  <2> QED
    BY <1>1, <1>2, <2>1, <2>2
<1>3. ASSUME NEW p \in 1..Len(text), InBuffer(p), IsLetter(p)
      PROVE  \E n \in 1..Len(b) : b[n] = p /\ ~BlankAt(b[n])
  <2>1. PICK n \in 1..Len(b) : b[n] = p
    BY <1>3 DEF InBuffer
  <2>2. p # 0
    BY <1>1
  <2>3. text[p] # " "
    BY <1>3 DEF IsLetter
  <2> QED
    BY <2>1, <2>2, <2>3 DEF BlankAt
<1>4. CASE Trimmed(b) = <<>>
  <2>1. \A n \in 1..Len(b) : BlankAt(b[n])
    BY <1>1, <1>4, BlankLemma
  <2>2. OutGood(out, x)
    BY <1>1, OutLater
  <2>3. EmittedAt(x) = out
    BY <1>4 DEF EmittedAt
  <2> QED
    BY <1>1, <1>3, <2>1, <2>2, <2>3
<1>5. CASE Trimmed(b) # <<>>
  <2>1. PICK lo \in 1..Len(b), hi \in 1..Len(b) :
            /\ lo <= hi
            /\ Trimmed(b) \in Seq(Nat) /\ Len(Trimmed(b)) = hi - lo + 1
            /\ \A n \in 1..Len(Trimmed(b)) : Trimmed(b)[n] = b[lo + n - 1]
            /\ ~BlankAt(b[lo])
            /\ \A n \in 1..Len(b) : ~BlankAt(b[n]) => lo <= n /\ n <= hi
    BY <1>1, <1>5, TrimmedLemma
  <2>2. PICK t : t = Trimmed(b)
    OBVIOUS
  <2>3. /\ t \in Seq(Nat) /\ Len(t) = hi - lo + 1 /\ Len(t) > 0 /\ t[1] = b[lo]
        /\ \A n \in 1..Len(t) : t[n] = b[lo + n - 1]
    BY <1>1, <2>1, <2>2
  <2>4. PICK e : e = [text |-> t, pos |-> x]
    OBVIOUS
  <2>5. e \in Entry /\ e.text = t /\ e.pos = x
    BY <2>3, <2>4 DEF Entry
  <2>6. x = start
    <3>1. Len(b) > 0
      BY <1>1, <2>1
    <3>2. b # <<>>
      BY <3>1
    <3> QED
      BY <3>2
  <2>7. Whole(t)
    <3> SUFFICES ASSUME NEW n \in 1..(Len(t) - 1), NEW p \in 1..Len(text), NEW q \in 1..Len(text),
                        t[n] = p, t[n + 1] = q
                 PROVE  Joins(p, q)
      BY DEF Whole
    <3>1. PICK k : k = lo + n - 1
      OBVIOUS
    <3>2. k \in 1..(Len(b) - 1) /\ t[n] = b[k] /\ t[n + 1] = b[k + 1]
      <4>1. n \in 1..Len(t) /\ n + 1 \in 1..Len(t) /\ lo + (n + 1) - 1 = k + 1
        BY <1>1, <2>3, <3>1
      <4>2. t[n] = b[lo + n - 1] /\ t[n + 1] = b[lo + (n + 1) - 1]
        BY <2>3, <4>1
      <4> QED
        BY <1>1, <2>3, <3>1, <4>1, <4>2
    <3> QED
      BY <3>2 DEF BufferOK, Whole
  <2>8. t[1] \in 1..Len(text) /\ \A p \in 1..Len(text) : t[1] = p => start <= LineOf(p)
    BY <1>2, <2>1, <2>3 DEF BufferOK
  <2>9. \A n \in 1..Len(t) : t[n] <= Len(text)
    <3>1. ASSUME NEW n \in 1..Len(b)
          PROVE  b[n] <= Len(text)
      <4>1. b[n] \in Nat /\ b[n] < i
        BY <1>1 DEF BufferOK
      <4> QED
        BY <1>1, <4>1
    <3>2. \A n \in 1..Len(t) : lo + n - 1 \in 1..Len(b)
      BY <1>1, <2>3
    <3> QED
      BY <2>3, <3>1, <3>2
  <2>10. /\ Append(out, e) \in Seq(Entry) /\ OutGood(Append(out, e), x)
         /\ \A p : InStatements(p, out) => InStatements(p, Append(out, e))
         /\ \A n \in 1..Len(e.text) : InStatements(e.text[n], Append(out, e))
    <3>1. start <= x /\ start <= e.pos /\ e.pos <= x
      BY <1>1, <2>5, <2>6
    <3>2. Sound(e)
      BY <2>3, <2>5, <2>6, <2>7, <2>8, <2>9 DEF Sound
    <3> QED
      BY <1>1, <2>5, <3>1, <3>2, AppendGood
  <2>11. EmittedAt(x) = Append(out, e)
    BY <1>5, <2>2, <2>4 DEF EmittedAt
  <2>12. ASSUME NEW p \in 1..Len(text), InBuffer(p), IsLetter(p)
         PROVE  InStatements(p, Append(out, e))
    <3>1. PICK n \in 1..Len(b) : b[n] = p /\ ~BlankAt(b[n])
      BY <1>3, <2>12
    <3>2. lo <= n /\ n <= hi
      BY <2>1, <3>1
    <3>3. PICK l : l = n - lo + 1
      OBVIOUS
    <3>4. l \in 1..Len(t) /\ lo + l - 1 = n
      BY <1>1, <2>3, <3>2, <3>3
    <3>5. t[l] = p
      BY <2>3, <3>1, <3>4
    <3>6. InStatements(t[l], Append(out, e))
      <4>1. l \in 1..Len(e.text) /\ e.text[l] = t[l]
        BY <2>5, <3>4
      <4>2. InStatements(e.text[l], Append(out, e))
        BY <2>10, <4>1, Zenon
      <4> QED
        BY <4>1, <4>2, Zenon
    <3> QED
      BY <3>5, <3>6, Zenon
  <2> QED
    BY <2>10, <2>11, <2>12
<1> QED
  BY <1>4, <1>5

\* A statement that starts with .alias, behind blanks.
LEMMA Begins ==
    ASSUME TypeOK, NEW k \in 1..Len(b), NEW r \in 1..Len(text), b[k] = r, text[r] = ".alias",
           \A n \in 1..(k - 1) : BlankAt(b[n])
    PROVE  BeginsWith(b, <<".alias">>)
<1>1. b \in Seq(Nat) /\ Len(b) \in Nat
  BY LenProperties DEF TypeOK
<1>2. ~BlankAt(b[k])
  <2>1. r # 0 /\ text[r] # " "
    BY LenProperties DEF TypeOK
  <2> QED
    BY <2>1 DEF BlankAt
<1>3. Trimmed(b) # <<>>
  BY <1>1, <1>2, BlankLemma
<1>4. PICK lo \in 1..Len(b), hi \in 1..Len(b) :
          /\ lo <= hi
          /\ Trimmed(b) \in Seq(Nat) /\ Len(Trimmed(b)) = hi - lo + 1
          /\ \A n \in 1..Len(Trimmed(b)) : Trimmed(b)[n] = b[lo + n - 1]
          /\ ~BlankAt(b[lo])
          /\ \A n \in 1..Len(b) : ~BlankAt(b[n]) => lo <= n /\ n <= hi
  BY <1>1, <1>3, TrimmedLemma
<1>5. lo = k
  <2>1. lo <= k
    BY <1>2, <1>4
  <2>2. lo \notin 1..(k - 1)
    BY <1>4
  <2>3. lo \in Nat /\ k \in Nat /\ 1 <= lo
    BY <1>1
  <2> QED
    BY <2>1, <2>2, <2>3
<1>6. PICK t : t = Trimmed(b)
  OBVIOUS
<1>7. t \in Seq(Nat) /\ Len(t) \in Nat \ {0} /\ t[1] = r /\ DOMAIN t = 1..Len(t)
  BY <1>1, <1>4, <1>5, <1>6, LenProperties
<1>8. PICK u : u = Letters(t)
  OBVIOUS
<1>9. u = [n \in 1..Len(t) |-> IF t[n] = 0 THEN " " ELSE text[t[n]]]
  BY <1>7, <1>8 DEF Letters
<1>10. Len(u) = Len(t) /\ u[1] = ".alias"
  <2>1. 1 \in 1..Len(t) /\ r # 0 /\ Len(t) \in Nat
    BY <1>7, LenProperties DEF TypeOK
  <2>2. u[1] = ".alias"
    BY <1>7, <1>9, <2>1
  <2>3. Len(u) = Len(t)
    <3>1. PICK m, S : m = Len(t) /\ S = {u[n] : n \in 1..m}
      OBVIOUS
    <3>2. m \in Nat /\ u \in [1..m -> S]
      BY <1>9, <2>1, <3>1
    <3> QED
      BY <3>1, <3>2
  <2> QED
    BY <2>2, <2>3
<1>11. ASSUME NEW v, v[1] = ".alias"
       PROVE  SubSeq(v, 1, 1) = <<".alias">>
  <2>1. \A n \in 1..1 : v[n] \in {".alias"}
    BY <1>11
  <2>2. PICK w : w = SubSeq(v, 1, 1)
    OBVIOUS
  <2>3. w \in Seq({".alias"}) /\ Len(w) = 1 /\ w[1] = v[1]
    BY <2>1, <2>2, SubSeqProperties
  <2>4. <<".alias">> \in Seq({".alias"}) /\ Len(<<".alias">>) = 1 /\ <<".alias">>[1] = ".alias"
    OBVIOUS
  <2>5. w = <<".alias">>
    BY <1>11, <2>3, <2>4, SeqEqual
  <2> QED
    BY <2>2, <2>5
<1>12. SubSeq(<<".alias">>, 1, 1) = <<".alias">> /\ SubSeq(u, 1, 1) = <<".alias">>
  <2>1. PICK v : v = <<".alias">>
    OBVIOUS
  <2>2. v[1] = ".alias"
    BY <2>1
  <2> QED
    BY <1>10, <1>11, <2>1, <2>2
<1>13. IsPrefix(<<".alias">>, u)
  BY <1>7, <1>10, <1>12 DEF IsPrefix
<1> QED
  BY <1>6, <1>8, <1>13 DEF BeginsWith

----------------------------------------------------------------------------
(* What a step has to do to keep the invariant *)

\* The lines of the places that are read next.
LEMMA LinesAhead ==
    ASSUME TypeOK, LineOK, i <= Len(text)
    PROVE  /\ line = LineOf(i)
           /\ text[i] = "newline" => LineOf(i + 1) = line + 1
           /\ text[i] # "newline" => LineOf(i + 1) = line
           /\ NextLine <= Len(text) => LineOf(NextLine) = line + 1
<1>1. Len(text) \in Nat /\ i \in 1..Len(text)
  BY LenProperties DEF TypeOK
<1>2. line = LineOf(i)
  BY <1>1 DEF LineOK
<1>3. text[i] # "newline" => LineOf(i + 1) = LineOf(i)
  BY <1>1, LineStays
<1>4. text[i] = "newline" => LineOf(i + 1) = LineOf(i) + 1
  BY <1>1, LineAdvances
<1>5. ASSUME NextLine <= Len(text)
      PROVE  LineOf(NextLine) = LineOf(i) + 1
  <2>1. PICK n : n = NextLine
    OBVIOUS
  <2>2. /\ n \in (i + 1)..Len(text) /\ \A p \in i..(n - 2) : text[p] # "newline"
        /\ text[n - 1] = "newline"
    BY <1>1, <1>5, <2>1, NextLineLemma
  <2>3. LineOf(n - 1) = LineOf(i)
    BY <1>1, <2>2, LineStays
  <2>4. LineOf(n) = LineOf(n - 1) + 1
    <3>1. n - 1 \in Nat \ {0} /\ n - 1 + 1 = n
      BY <1>1, <2>2
    <3> QED
      BY <2>2, <3>1, LineAdvances
  <2> QED
    BY <2>1, <2>3, <2>4
<1> QED
  BY <1>2, <1>3, <1>4, <1>5

\* What was opened before a place was opened before later ones.
LEMMA OpensLater ==
    ASSUME NEW m \in Nat, NEW n \in Nat, m <= n, \E q \in 1..(m - 1) : Opens(q)
    PROVE  \E q \in 1..(n - 1) : Opens(q)
<1>1. \A q \in 1..(m - 1) : q \in 1..(n - 1)
  OBVIOUS
<1> QED
  BY <1>1

\* The line number stays that of the place.
LEMMA LineStep ==
    ASSUME text' = text, policy' = policy, Len(text) \in Nat,
           i' <= Len(text) => line' = LineOf(i'), start' <= line'
    PROVE  LineOK'
<1>1. \A p \in 1..Len(text') : p = i' => line' = LineOf(p)'
  <2> SUFFICES ASSUME NEW p \in 1..Len(text), p = i'
               PROVE  line' = LineOf(p)'
    OBVIOUS
  <2>1. line' = LineOf(p)
    OBVIOUS
  <2> QED
    BY <2>1, TextSame
<1> QED
  BY <1>1 DEF LineOK

\* A character, or the blank of a continuation, is added to what was read.
LEMMA BufferAdds ==
    ASSUME TypeOK, LineOK, BufferOK, text' = text, policy' = policy,
           i <= Len(text), ~comment, i < i', i' \in Nat,
           NEW x \in {0, i}, b' = Append(b, x),
           start' = start \/ (b = <<>> /\ start' = line),
           \A p \in 1..Len(text) : x = p => Leads(p)',
           ~(quote' /\ comment')
    PROVE  BufferOK'
<1>1. /\ Len(text) \in Nat /\ i \in 1..Len(text) /\ b \in Seq(Nat) /\ x \in Nat
      /\ line = LineOf(i) /\ start <= line
  BY LenProperties, LinesAhead DEF TypeOK, LineOK
<1>2. PICK m : m = Len(b)
  OBVIOUS
<1>3. /\ m \in Nat /\ Len(b') = m + 1 /\ b'[m + 1] = x
      /\ \A k \in 1..m : b'[k] = b[k] /\ b[k] \in Nat
  BY <1>1, <1>2, LenProperties, AppendProperties, ElementOfSeq
<1>4. \A k \in 1..Len(b') : k \in 1..m \/ k = m + 1
  BY <1>3
<1>5. \A k \in 1..Len(b') : b'[k] < i'
  <2>1. \A k \in 1..m : b[k] < i
    BY <1>2 DEF BufferOK
  <2> QED
    BY <1>1, <1>3, <1>4, <2>1
<1>6. ASSUME NEW k \in 1..Len(b'), NEW p \in 1..Len(text), b'[k] = p
      PROVE  start' <= LineOf(p)
  <2>1. CASE k \in 1..m
    <3>1. Len(b) > 0
      BY <1>2, <1>3, <2>1
    <3>2. start' = start
      BY <3>1
    <3> QED
      BY <1>2, <1>3, <1>6, <2>1, <3>2 DEF BufferOK
  <2>2. CASE k = m + 1
    <3>1. p = x /\ p = i
      BY <1>1, <1>3, <1>6, <2>2
    <3>2. start' <= line
      BY <1>1 DEF TypeOK
    <3> QED
      BY <1>1, <3>1, <3>2
  <2> QED
    BY <1>4, <2>1, <2>2
<1>7. ASSUME NEW n \in 1..(Len(b') - 1), NEW p \in 1..Len(text), NEW q \in 1..Len(text),
             b'[n] = p, b'[n + 1] = q
      PROVE  Joins(p, q)
  <2>1. CASE n \in 1..(m - 1)
    <3>1. n \in 1..m /\ n + 1 \in 1..m
      BY <1>3, <2>1
    <3>2. b[n] = p /\ b[n + 1] = q
      BY <1>3, <1>7, <3>1
    <3> QED
      BY <1>2, <2>1, <3>2 DEF BufferOK, Whole
  <2>2. CASE n = m
    <3>1. m \in 1..m /\ b[m] = p /\ q = x /\ q = i
      BY <1>1, <1>3, <1>7, <2>2
    <3>2. Leads(p)
      BY <1>2, <1>3, <3>1 DEF BufferOK
    <3>3. CASE quote
      <4>1. p = i - 1
        BY <3>2, <3>3 DEF Leads
      <4>2. text[p] # "newline" => LineOf(q) = LineOf(p)
        BY <1>1, <3>1, <4>1, LineStays
      <4>3. q = p + 1
        BY <1>1, <3>1, <4>1
      <4> QED
        BY <4>2, <4>3 DEF Joins, SameLine
    <3>4. CASE ~quote
      BY <3>1, <3>2, <3>4 DEF Leads, Joins
    <3> QED
      BY <3>3, <3>4
  <2> QED
    BY <1>3, <2>1, <2>2
<1>8. Whole(b)'
  BY <1>7, TextSame DEF Whole
<1>9. \A k \in 1..Len(b') : \A p \in 1..Len(text') : b'[k] = p => start' <= LineOf(p)'
  BY <1>6, TextSame
<1>10. \A p \in 1..Len(text') : Len(b') > 0 /\ b'[Len(b')] = p => Leads(p)'
  BY <1>3
<1> QED
  BY <1>5, <1>8, <1>9, <1>10 DEF BufferOK

\* What was read stays as it is.
LEMMA BufferStays ==
    ASSUME TypeOK, BufferOK, text' = text, policy' = policy, i <= i', i' \in Nat, b' = b,
           start' = start \/ b = <<>>,
           \A p \in 1..Len(text) : Leads(p) /\ p < i => Leads(p)',
           ~(quote' /\ comment')
    PROVE  BufferOK'
<1>1. b \in Seq(Nat) /\ Len(b) \in Nat /\ i \in Nat /\ \A k \in 1..Len(b) : b[k] \in Nat
  BY LenProperties, ElementOfSeq DEF TypeOK
<1>2. \A k \in 1..Len(b') : b'[k] < i'
  BY <1>1 DEF BufferOK
<1>3. \A k \in 1..Len(b') : start' = start
  BY EmptySeq
<1>4. \A k \in 1..Len(b) : \A p \in 1..Len(text) : b[k] = p => start <= LineOf(p)
  BY DEF BufferOK
<1>5. \A k \in 1..Len(b') : \A p \in 1..Len(text') : b'[k] = p => start' <= LineOf(p)'
  BY <1>3, <1>4, TextSame
<1>6. Whole(b)'
  BY TextSame DEF BufferOK, Whole
<1>7. \A p \in 1..Len(text') : Len(b') > 0 /\ b'[Len(b')] = p => Leads(p)'
  <2>1. Len(b) > 0 => Len(b) \in 1..Len(b)
    BY <1>1
  <2> QED
    BY <1>1, <2>1 DEF BufferOK
<1> QED
  BY <1>2, <1>5, <1>6, <1>7 DEF BufferOK

\* The next statement begins.
LEMMA BufferEmptied ==
    ASSUME b' = <<>>, ~(quote' /\ comment')
    PROVE  BufferOK'
<1>1. Len(b') = 0
  OBVIOUS
<1> QED
  BY <1>1 DEF BufferOK, Whole

\* The statements are as good as they were said to be.
LEMMA OutStep ==
    ASSUME text' = text, policy' = policy, NEW o, NEW x, OutGood(o, x), out' = o, start' = x
    PROVE  OutGood(out, start)'
  BY TextSame DEF OutGood, Sound, Whole

\* The places read after a step are those read before it and those that it reads.
LEMMA Split ==
    ASSUME NEW n \in Nat, NEW j \in Nat, NEW k \in Nat, 1 <= k, k <= j, j <= n + 1
    PROVE  \A p \in 1..(j - 1) : p \in 1..n /\ (p \in 1..(k - 1) \/ p \in k..(j - 1))
  OBVIOUS

\* The letters that were read stay where they are, and those read now are somewhere.
LEMMA LettersStep ==
    ASSUME TypeOK, LettersOK, text' = text, policy' = policy, i <= i', i' \in 1..(Len(text) + 1),
           \A p \in 1..Len(text) :
               /\ InStatements(p, out) => InStatements(p, out')
               /\ InBuffer(p) /\ IsLetter(p) => InBuffer(p)' \/ InStatements(p, out'),
           \A p \in i..(i' - 1) :
               IsLetter(p) => InStatements(p, out') \/ InBuffer(p)' \/ Excused(p),
           comment' => \E q \in 1..(i' - 1) : Opens(q),
           phase' = "done" => i' = Len(text) + 1 /\ b' = <<>>
    PROVE  LettersOK'
<1>1. /\ i \in 1..(Len(text) + 1) /\ Len(text) \in Nat
      /\ i' \in Nat /\ i' <= Len(text) + 1
  BY LenProperties DEF TypeOK
<1>2. 1 <= i /\ i \in Nat /\ i <= i'
  BY <1>1
<1>3. \A p \in 1..(i' - 1) : p \in 1..Len(text) /\ (p \in 1..(i - 1) \/ p \in i..(i' - 1))
  BY <1>1, <1>2, Split
<1>4. ASSUME NEW p \in 1..(i' - 1), IsLetter(p)
      PROVE  InStatements(p, out') \/ InBuffer(p)' \/ Excused(p)
  <2>1. p \in 1..Len(text) /\ (p \in 1..(i - 1) \/ p \in i..(i' - 1))
    BY <1>4, <1>3
  <2>2. CASE p \in 1..(i - 1)
    BY <1>4, <2>1, <2>2 DEF LettersOK
  <2>3. CASE p \in i..(i' - 1)
    BY <1>4, <2>3
  <2> QED
    BY <2>1, <2>2, <2>3
<1>5. \A p : IsLetter(p)' <=> IsLetter(p)
  BY DEF IsLetter
<1>6. \A p \in 1..(i' - 1) : IsLetter(p)' => InStatements(p, out') \/ InBuffer(p)' \/ Excused(p)'
  BY <1>4, <1>5, TextSame
<1>7. comment' => \E q \in 1..(i' - 1) : Opens(q)'
  BY TextSame
<1> QED
  BY <1>6, <1>7 DEF LettersOK, InStatements

\* What was read stays in front, or the step reads the end of a statement.
KeepsBuffer ==
    \/ \A k \in 1..Len(b) : k \in 1..Len(b') /\ b'[k] = b[k]
    \/ \E s \in i..(i' - 1) : text[s] \in {"newline", ";", "{"}
    \/ i' = Len(text) + 1

\* The step reads no .alias at the beginning of the file, or keeps it behind blanks.
MeetsAlias ==
    \/ text[i] \notin {" ", "newline", ".alias"}
    \/ i' = i + 1 /\ text[i] # ".alias"
    \/ i' = i + 1 /\ \E q \in 1..(i - 1) : Opens(q)
    \/ i' = i + 1 /\ QuoteRead
    \/ /\ i' = i + 1
       /\ (\A s \in 1..(i - 1) : text[s] \in {" ", "newline"}) =>
              \E k \in 1..Len(b') : b'[k] = i /\ \A n \in 1..(k - 1) : BlankAt(b'[n])

\* The end of a line is read in strings only.
QuotesNewlines == \A k \in 1..Len(b') : b'[k] > 0 /\ text[b'[k]] = "newline" => QuoteRead

\* The first statement keeps its .alias until something ends it, and gets it when it is
\* read.
LEMMA AliasStep ==
    ASSUME TypeOK, AliasOK, text' = text, policy' = policy,
           i <= Len(text), i < i', i' \in Nat, i' <= Len(text) + 1,
           quote' => QuoteRead \/ text[i] = "quote", QuotesNewlines, KeepsBuffer, MeetsAlias
    PROVE  AliasOK'
<1>0. PICK j \in Nat : j = i'
  OBVIOUS
<1>1. /\ Len(text) \in Nat /\ i \in Nat /\ 1 <= i /\ i <= Len(text)
      /\ i < j /\ j <= Len(text) + 1
  BY <1>0, LenProperties DEF TypeOK
<1>2. QuoteRead \/ text[i] = "quote" => QuoteRead'
  <2>1. QuoteRead' <=> \E q \in 1..(j - 1) : text[q] = "quote"
    BY <1>0 DEF QuoteRead
  <2>2. i \in 1..(j - 1) /\ \A q \in 1..(i - 1) : q \in 1..(j - 1)
    BY <1>1
  <2> QED
    BY <2>1, <2>2 DEF QuoteRead
<1>3. ASSUME NEW r \in 1..(i - 1), j <= Len(text), AliasAt(r, j - 1)
      PROVE  \/ \E q \in 1..(j - 1) : Opens(q)
             \/ \E k \in 1..Len(b') : b'[k] = r /\ \A n \in 1..(k - 1) : BlankAt(b'[n])
  <2>1. \A s \in i..(j - 1) : text[s] \notin {"newline", ";", "{"}
    <3>1. \A s \in i..(j - 1) : s \in r..(j - 1)
      BY <1>1, <1>3
    <3> QED
      BY <1>3, <3>1 DEF AliasAt
  <2>2. \A k \in 1..Len(b) : k \in 1..Len(b') /\ b'[k] = b[k]
    <3>1. j # Len(text) + 1
      BY <1>1, <1>3
    <3> QED
      BY <1>0, <2>1, <3>1 DEF KeepsBuffer
  <2>3. AliasAt(r, i - 1)
    <3>1. \A s \in r..(i - 1) : s \in r..(j - 1)
      BY <1>1, <1>3
    <3> QED
      BY <1>3, <3>1 DEF AliasAt
  <2>4. \/ \E q \in 1..(i - 1) : Opens(q)
        \/ \E k \in 1..Len(b) : b[k] = r /\ \A n \in 1..(k - 1) : BlankAt(b[n])
    BY <1>3, <2>3 DEF AliasOK
  <2>5. ASSUME NEW q \in 1..(i - 1), Opens(q)
        PROVE  \E p \in 1..(j - 1) : Opens(p)
    <3>1. q \in 1..(j - 1)
      BY <1>1
    <3> QED
      BY <2>5, <3>1
  <2>6. ASSUME NEW k \in 1..Len(b), b[k] = r, \A n \in 1..(k - 1) : BlankAt(b[n])
        PROVE  \E l \in 1..Len(b') : b'[l] = r /\ \A n \in 1..(l - 1) : BlankAt(b'[n])
    <3>1. Len(b) \in Nat
      BY LenProperties DEF TypeOK
    <3>2. \A n \in 1..(k - 1) : n \in 1..Len(b)
      BY <3>1
    <3>3. \A n \in 1..(k - 1) : BlankAt(b'[n])
      BY <2>2, <2>6, <3>2
    <3> QED
      BY <2>2, <2>6, <3>3
  <2> QED
    BY <2>4, <2>5, <2>6
<1>4. ASSUME NEW r \in i..(j - 1), j <= Len(text), AliasAt(r, j - 1)
      PROVE  \/ \E q \in 1..(j - 1) : Opens(q)
             \/ \E k \in 1..Len(b') : b'[k] = r /\ \A n \in 1..(k - 1) : BlankAt(b'[n])
  <2>1. /\ text[r] = ".alias"
        /\ \A s \in 1..(r - 1) : text[s] \in {" ", "newline"}
    BY <1>4 DEF AliasAt
  <2>2. r = i \/ i \in 1..(r - 1)
    BY <1>1
  <2>3. text[i] \in {" ", "newline", ".alias"}
    BY <2>1, <2>2
  <2>4. j = i + 1
    BY <1>0, <2>3 DEF MeetsAlias
  <2>5. r = i
    BY <1>1, <2>4
  <2>6. ~QuoteRead
    BY <2>1, <2>5 DEF QuoteRead
  <2>7. ASSUME NEW q \in 1..(i - 1), Opens(q)
        PROVE  \E p \in 1..(j - 1) : Opens(p)
    <3>1. q \in 1..(j - 1)
      BY <1>1
    <3> QED
      BY <2>7, <3>1
  <2> QED
    BY <2>1, <2>3, <2>5, <2>6, <2>7, <1>0 DEF MeetsAlias
<1>5. \A r \in 1..(j - 1) : r \in 1..(i - 1) \/ r \in i..(j - 1)
  BY <1>1
<1>6. \A r \in 1..(j - 1) : j <= Len(text') /\ AliasAt(r, j - 1) =>
          \/ \E q \in 1..(j - 1) : Opens(q)
          \/ \E k \in 1..Len(b') : b'[k] = r /\ \A n \in 1..(k - 1) : BlankAt(b'[n])
  BY <1>3, <1>4, <1>5
<1>7. quote' => QuoteRead'
  BY <1>2
<1>8. \A k \in 1..Len(b') : b'[k] > 0 /\ text'[b'[k]] = "newline" => QuoteRead'
  BY <1>2 DEF QuotesNewlines
<1>9. PICK n : n = i' - 1
  OBVIOUS
<1>10. \A r : AliasAt(r, i - 1)' <=> AliasAt(r, n)
  <2>1. \A r : AliasAt(r, i - 1)' <=> AliasAt(r, n)'
    BY <1>9 DEF AliasAt
  <2> QED
    BY <2>1, TextSame
<1>11. \A m : BlankAt(b[m])' <=> BlankAt(b'[m])
  BY DEF BlankAt
<1>12. \A r \in 1..(i' - 1) : i' <= Len(text') /\ AliasAt(r, i - 1)' =>
          \/ \E q \in 1..(i' - 1) : Opens(q)'
          \/ \E k \in 1..Len(b') : b'[k] = r /\ \A m \in 1..(k - 1) : BlankAt(b[m])'
  <2>1. i' = j /\ n = j - 1 /\ \A q : Opens(q)' <=> Opens(q)
    BY <1>0, <1>9, TextSame
  <2> QED
    BY <1>6, <1>10, <1>11, <2>1
<1> QED
  BY <1>7, <1>8, <1>12 DEF AliasOK

----------------------------------------------------------------------------
(* The steps of the scanner *)

\* The line a statement would start at.
LEMMA StartLemma ==
    ASSUME TypeOK, LineOK
    PROVE  /\ StartHere \in Nat /\ start <= StartHere /\ StartHere <= line
           /\ StartHere = start \/ (b = <<>> /\ StartHere = line)
<1>1. start \in Nat /\ line \in Nat /\ start <= line
  BY DEF TypeOK, LineOK
<1>2. StartHere = start \/ (b = <<>> /\ StartHere = line)
  BY DEF StartHere
<1> QED
  BY <1>1, <1>2

\* Facts about the character that is read.
LEMMA ReadingLemma ==
    ASSUME TypeOK, LineOK, Reading
    PROVE  /\ Len(text) \in Nat /\ i \in 1..Len(text) /\ phase = "scan"
           /\ line \in Nat /\ start \in Nat /\ start <= line /\ line = LineOf(i)
           /\ text[i] = "newline" => LineOf(i + 1) = line + 1
           /\ text[i] # "newline" => LineOf(i + 1) = line
           /\ b \in Seq(Nat) /\ Len(b) \in Nat
<1>1. i <= Len(text) /\ phase = "scan"
  BY DEF Reading
<1> QED
  BY <1>1, LenProperties, LinesAhead DEF TypeOK, LineOK

\* A place is added to what was read: the conditions of AliasStep.
LEMMA AddsLemma ==
    ASSUME TypeOK, NEW x \in Nat, b' = Append(b, x)
    PROVE  /\ KeepsBuffer /\ b' \in Seq(Nat)
           /\ \A p : InBuffer(p) => InBuffer(p)'
           /\ InBuffer(x)'
           /\ Len(b') = Len(b) + 1 /\ b'[Len(b) + 1] = x
           /\ \A k \in 1..Len(b) : k \in 1..Len(b') /\ b'[k] = b[k]
           /\ \A k \in 1..Len(b') : k \in 1..Len(b) \/ k = Len(b) + 1
<1>1. b \in Seq(Nat) /\ Len(b) \in Nat
  BY LenProperties DEF TypeOK
<1>2. b' \in Seq(Nat) /\ Len(b') = Len(b) + 1 /\ b'[Len(b) + 1] = x
  BY <1>1, AppendProperties
<1>3. \A k \in 1..Len(b) : k \in 1..Len(b') /\ b'[k] = b[k]
  BY <1>1, AppendProperties
<1>4. \A k \in 1..Len(b') : k \in 1..Len(b) \/ k = Len(b) + 1
  BY <1>1, <1>2
<1>5. Len(b) + 1 \in 1..Len(b')
  BY <1>1, <1>2
<1> QED
  BY <1>2, <1>3, <1>4, <1>5 DEF KeepsBuffer, InBuffer

\* A character is read and kept.
LEMMA KeepsChar ==
    ASSUME ScanInv, Reading, ~comment, comment' = comment, quote' \in BOOLEAN, escape' \in BOOLEAN,
           text' = text, policy' = policy, phase' = phase, out' = out,
           b' = Append(b, i), i' = i + 1,
           line' = line + (IF Char = "newline" THEN 1 ELSE 0),
           start' = start \/ (b = <<>> /\ start' = line),
           quote' => quote \/ Char = "quote", Char = "newline" => quote /\ quote'
    PROVE  ScanInv'
<1>1. TypeOK /\ LineOK /\ BufferOK /\ OutGood(out, start) /\ LettersOK /\ AliasOK
  BY DEF ScanInv
<1>2. /\ Len(text) \in Nat /\ i \in 1..Len(text) /\ phase = "scan"
      /\ line \in Nat /\ start \in Nat /\ start <= line /\ line = LineOf(i)
      /\ text[i] = "newline" => LineOf(i + 1) = line + 1
      /\ text[i] # "newline" => LineOf(i + 1) = line
  BY <1>1, ReadingLemma
<1>3. i' \in Nat /\ i < i' /\ i' <= Len(text) + 1 /\ i' - 1 = i /\ i <= Len(text) /\ i \in Nat
  BY <1>2
<1>4. /\ KeepsBuffer /\ b' \in Seq(Nat)
      /\ \A p : InBuffer(p) => InBuffer(p)'
      /\ \A p : p = i => InBuffer(p)'
      /\ Len(b') = Len(b) + 1 /\ b'[Len(b) + 1] = i
      /\ \A k \in 1..Len(b) : k \in 1..Len(b') /\ b'[k] = b[k]
      /\ \A k \in 1..Len(b') : k \in 1..Len(b) \/ k = Len(b) + 1
  <2>1. PICK x \in Nat : x = i
    BY <1>3
  <2>2. b' = Append(b, x)
    BY <2>1
  <2>3. /\ KeepsBuffer /\ b' \in Seq(Nat)
        /\ \A p : InBuffer(p) => InBuffer(p)'
        /\ InBuffer(x)'
        /\ Len(b') = Len(b) + 1 /\ b'[Len(b) + 1] = x
        /\ \A k \in 1..Len(b) : k \in 1..Len(b') /\ b'[k] = b[k]
        /\ \A k \in 1..Len(b') : k \in 1..Len(b) \/ k = Len(b) + 1
    BY <1>1, <2>2, AddsLemma
  <2> QED
    BY <2>1, <2>3
<1>5. line' = LineOf(i + 1) /\ line' \in Nat /\ line <= line'
  BY <1>2 DEF Char
<1>6. start' \in Nat /\ start <= start' /\ start' <= line'
  BY <1>2, <1>5
<1>7. TypeOK'
  <2>1. i' \in 1..(Len(text) + 1)
    BY <1>3
  <2>2. comment' \in BOOLEAN
    BY <1>1 DEF TypeOK
  <2> QED
    BY <1>1, <1>4, <1>5, <1>6, <2>1, <2>2 DEF TypeOK
<1>8. LineOK'
  BY <1>2, <1>5, <1>6, LineStep
<1>9. BufferOK'
  <2>1. ASSUME NEW p \in 1..Len(text), i = p
        PROVE  Leads(p)'
    <3>1. CASE quote'
      BY <1>3, <2>1, <3>1 DEF Leads
    <3>2. CASE ~quote'
      <4>1. text[i] # "newline"
        BY <3>2 DEF Char
      <4>2. \A q \in 1..Len(text) : q = i' => SameLine(p, q)
        BY <1>2, <2>1, <4>1 DEF SameLine
      <4>3. \A q \in 1..Len(text') : q = i' => SameLine(p, q)'
        BY <4>2, TextSame
      <4> QED
        BY <3>2, <4>3 DEF Leads
    <3> QED
      BY <3>1, <3>2
  <2> QED
    BY <1>1, <1>3, <2>1, BufferAdds
<1>10. OutGood(out, start)'
  <2>1. PICK x : x = start'
    OBVIOUS
  <2>2. OutGood(out, x)
    <3>1. out \in Seq(Entry) /\ x \in Nat /\ start <= x
      BY <1>1, <1>6, <2>1 DEF TypeOK
    <3> QED
      BY <1>1, <1>2, <3>1, OutLater
  <2> QED
    BY <2>1, <2>2, OutStep
<1>11. LettersOK'
  <2>1. \A p \in i..(i' - 1) : InBuffer(p)'
    <3>1. \A p \in i..(i' - 1) : p = i
      BY <1>3
    <3> QED
      BY <1>4, <3>1
  <2>2. i <= i' /\ i' \in 1..(Len(text) + 1)
    BY <1>3
  <2> QED
    BY <1>1, <1>2, <1>4, <2>1, <2>2, LettersStep
<1>12. AliasOK'
  <2>1. quote => QuoteRead
    BY <1>1 DEF AliasOK
  <2>2. QuotesNewlines
    <3>1. \A k \in 1..Len(b) : b[k] > 0 /\ text[b[k]] = "newline" => QuoteRead
      BY <1>1 DEF AliasOK
    <3>2. text[i] = "newline" => QuoteRead
      BY <2>1 DEF Char
    <3> QED
      BY <1>4, <3>1, <3>2 DEF QuotesNewlines
  <2>3. MeetsAlias
    <3>1. ASSUME \A s \in 1..(i - 1) : text[s] \in {" ", "newline"}
          PROVE  \E k \in 1..Len(b') : b'[k] = i /\ \A n \in 1..(k - 1) : BlankAt(b'[n])
      <4>1. ~QuoteRead
        BY <3>1 DEF QuoteRead
      <4>2. b \in Seq(Nat) /\ Len(b) \in Nat /\ \A n \in 1..Len(b) : b[n] \in Nat
        BY <1>1, LenProperties, ElementOfSeq DEF TypeOK
      <4>3. ASSUME NEW n \in 1..Len(b)
            PROVE  BlankAt(b'[n])
        <5>1. b[n] \in Nat /\ b[n] < i /\ b'[n] = b[n]
          BY <1>1, <1>4, <4>2 DEF BufferOK
        <5>2. b[n] = 0 \/ b[n] \in 1..(i - 1)
          BY <1>3, <5>1
        <5>3. b[n] > 0 => text[b[n]] # "newline"
          BY <1>1, <4>1 DEF AliasOK
        <5>4. CASE b[n] = 0
          BY <5>1, <5>4 DEF BlankAt
        <5>5. CASE b[n] \in 1..(i - 1)
          <6>1. PICK q \in 1..(i - 1) : q = b[n]
            BY <5>5
          <6>2. text[q] \in {" ", "newline"}
            BY <3>1, <6>1
          <6>3. q > 0
            BY <1>3, <6>1
          <6>4. text[b[n]] = " "
            BY <5>3, <6>1, <6>2, <6>3
          <6> QED
            BY <5>1, <6>4 DEF BlankAt
        <5> QED
          BY <5>2, <5>4, <5>5
      <4>4. Len(b) + 1 \in 1..Len(b') /\ \A n \in 1..(Len(b) + 1 - 1) : n \in 1..Len(b)
        BY <1>4, <4>2
      <4> QED
        BY <1>4, <4>3, <4>4
    <3> QED
      BY <3>1 DEF MeetsAlias
  <2>4. quote' => QuoteRead \/ text[i] = "quote"
    BY <2>1 DEF Char
  <2> QED
    BY <1>1, <1>3, <1>4, <2>2, <2>3, <2>4, AliasStep
<1> QED
  BY <1>7, <1>8, <1>9, <1>10, <1>11, <1>12 DEF ScanInv

\* What was read ends.
LEMMA EndsBuffer ==
    ASSUME ScanInv, Reading, ~comment, comment' = comment, ~quote, quote' = quote,
           escape' = escape,
           text' = text, policy' = policy, phase' = phase, b' = <<>>,
           i < i', i' \in Nat, i' <= Len(text) + 1,
           line' \in Nat, i' <= Len(text) => line' = LineOf(i'),
           start' \in Nat, start' <= line',
           out' \in Seq(Entry), OutGood(out', start'),
           \A p \in 1..Len(text) :
               InStatements(p, out) \/ (InBuffer(p) /\ IsLetter(p)) => InStatements(p, out'),
           \A p \in i..(i' - 1) : IsLetter(p) => Excused(p),
           KeepsBuffer, MeetsAlias
    PROVE  ScanInv'
<1>1. TypeOK /\ LineOK /\ BufferOK /\ OutGood(out, start) /\ LettersOK /\ AliasOK
  BY DEF ScanInv
<1>2. Len(text) \in Nat /\ i \in 1..Len(text) /\ phase = "scan" /\ i \in Nat /\ i <= Len(text)
  BY <1>1, ReadingLemma
<1>3. i <= i' /\ i' \in 1..(Len(text) + 1)
  BY <1>2
<1>4. TypeOK'
  <2>1. b' \in Seq(Nat)
    OBVIOUS
  <2> QED
    BY <1>1, <1>3, <2>1 DEF TypeOK
<1>5. LineOK'
  BY <1>2, LineStep
<1>6. BufferOK'
  BY BufferEmptied
<1>7. OutGood(out, start)'
  <2>1. PICK o, x : o = out' /\ x = start'
    OBVIOUS
  <2>2. OutGood(o, x)
    BY <2>1
  <2> QED
    BY <2>1, <2>2, OutStep
<1>8. LettersOK'
  BY <1>1, <1>2, <1>3, LettersStep
<1>9. AliasOK'
  <2>1. QuotesNewlines
    BY DEF QuotesNewlines
  <2> QED
    BY <1>1, <1>2, <2>1, AliasStep
<1> QED
  BY <1>4, <1>5, <1>6, <1>7, <1>8, <1>9 DEF ScanInv

\* What was read stays as it is, while a comment begins or a character is dropped.
LEMMA BufferWaits ==
    ASSUME ScanInv, Reading, ~quote, quote' = quote, escape' = escape, comment' \in BOOLEAN,
           text' = text, policy' = policy, phase' = phase, out' = out, b' = b,
           i < i', i' \in Nat, i' <= Len(text) + 1,
           line' \in Nat, i' <= Len(text) => line' = LineOf(i'),
           start' = start \/ b = <<>>, start' \in Nat, start <= start', start' <= line',
           \A p \in 1..Len(text) : Leads(p) /\ p < i => Leads(p)',
           \A p \in i..(i' - 1) : IsLetter(p) => Excused(p),
           comment' => \E q \in 1..(i' - 1) : Opens(q),
           MeetsAlias
    PROVE  ScanInv'
<1>1. TypeOK /\ LineOK /\ BufferOK /\ OutGood(out, start) /\ LettersOK /\ AliasOK
  BY DEF ScanInv
<1>2. Len(text) \in Nat /\ i \in 1..Len(text) /\ phase = "scan" /\ i \in Nat /\ i <= Len(text)
  BY <1>1, ReadingLemma
<1>3. i <= i' /\ i' \in 1..(Len(text) + 1)
  BY <1>2
<1>4. TypeOK'
  BY <1>1, <1>3 DEF TypeOK
<1>5. LineOK'
  BY <1>2, LineStep
<1>6. BufferOK'
  BY <1>1, <1>3, BufferStays
<1>7. OutGood(out, start)'
  <2>1. PICK x : x = start'
    OBVIOUS
  <2>2. OutGood(out, x)
    <3>1. out \in Seq(Entry) /\ start \in Nat /\ x \in Nat /\ start <= x
      BY <1>1, <2>1 DEF TypeOK
    <3> QED
      BY <1>1, <3>1, OutLater
  <2> QED
    BY <2>1, <2>2, OutStep
<1>8. LettersOK'
  <2>1. \A p : InBuffer(p)' <=> InBuffer(p)
    BY DEF InBuffer
  <2> QED
    BY <1>1, <1>2, <1>3, <2>1, LettersStep
<1>9. AliasOK'
  <2>1. QuotesNewlines /\ KeepsBuffer
    BY <1>1 DEF AliasOK, QuotesNewlines, KeepsBuffer
  <2> QED
    BY <1>1, <1>2, <2>1, AliasStep
<1> QED
  BY <1>4, <1>5, <1>6, <1>7, <1>8, <1>9 DEF ScanInv

\* In a block comment nothing is kept.
LEMMA InCommentStep == ScanInv /\ InComment => ScanInv'
<1> SUFFICES ASSUME ScanInv, InComment
             PROVE  ScanInv'
  OBVIOUS
<1>1. TypeOK /\ LineOK /\ BufferOK /\ OutGood(out, start) /\ LettersOK /\ AliasOK
  BY DEF ScanInv
<1>2. /\ Reading /\ comment /\ comment' = ~Pair("*", "/")
      /\ i' = i + (IF Pair("*", "/") THEN 2 ELSE 1)
      /\ line' = line + (IF Char = "newline" THEN 1 ELSE 0)
      /\ text' = text /\ policy' = policy /\ phase' = phase /\ b' = b /\ start' = start
      /\ quote' = quote /\ escape' = escape /\ out' = out
  BY DEF InComment
<1>3. /\ Len(text) \in Nat /\ i \in 1..Len(text) /\ phase = "scan"
      /\ line \in Nat /\ start \in Nat /\ start <= line /\ line = LineOf(i)
      /\ text[i] = "newline" => LineOf(i + 1) = line + 1
      /\ text[i] # "newline" => LineOf(i + 1) = line
  BY <1>1, <1>2, ReadingLemma
<1>4. ~quote /\ ~quote'
  BY <1>1, <1>2 DEF BufferOK
<1>5. /\ i' \in Nat /\ i < i' /\ i' <= Len(text) + 1
      /\ \/ i' = i + 1 /\ line' = LineOf(i + 1)
         \/ i' = i + 2 /\ text[i] = "*" /\ text[i + 1] = "/" /\ line' = LineOf(i + 2)
      /\ start' <= line' /\ line' \in Nat
  <2>1. CASE Pair("*", "/")
    <3>1. i + 1 <= Len(text) /\ text[i] = "*" /\ text[i + 1] = "/"
      BY <1>3, <2>1 DEF Pair, Char
    <3>2. i' = i + 2 /\ line' = line
      BY <1>2, <1>3, <2>1, <3>1 DEF Char
    <3>3. LineOf(i + 2) = LineOf(i)
      <4>1. \A k \in i..(i + 2 - 1) : text[k] # "newline"
        BY <1>3, <3>1
      <4> QED
        BY <1>3, <4>1, LineStays
    <3> QED
      BY <1>2, <1>3, <3>1, <3>2, <3>3
  <2>2. CASE ~Pair("*", "/")
    BY <1>2, <1>3, <2>2 DEF Char
  <2> QED
    BY <2>1, <2>2
<1>6. PICK q \in 1..(i - 1) : Opens(q)
  BY <1>1, <1>2 DEF LettersOK
<1>7. \A p \in 1..Len(text) : Leads(p) /\ p < i => Leads(p)'
  <2> SUFFICES ASSUME NEW p \in 1..Len(text), Leads(p), p < i
               PROVE  Leads(p)'
    OBVIOUS
  <2>1. PICK r \in (p + 1)..(i - 1) : Opens(r)
    BY <1>2, <1>4 DEF Leads
  <2>2. r \in (p + 1)..(i' - 1) /\ Opens(r)'
    BY <1>2, <1>3, <1>5, <2>1, TextSame
  <2> QED
    BY <1>4, <2>2 DEF Leads
<1>8. \A p \in i..(i' - 1) : Excused(p)
  <2>1. \A p \in i..(i' - 1) : q \in 1..(p - 1)
    BY <1>3, <1>5
  <2> QED
    BY <1>6, <2>1 DEF Excused
<1>9. \E n \in 1..(i' - 1) : Opens(n)
  <2>1. i \in Nat /\ i' \in Nat /\ i <= i'
    BY <1>3, <1>5
  <2> QED
    BY <1>6, <2>1, OpensLater
<1>10. MeetsAlias
  BY <1>5, <1>6 DEF MeetsAlias
<1>11. comment' \in BOOLEAN /\ start <= start' /\ start' \in Nat
  BY <1>2, <1>3
<1>12. i' <= Len(text) => line' = LineOf(i')
  BY <1>5
<1> QED
  BY <1>2, <1>4, <1>5, <1>7, <1>8, <1>9, <1>10, <1>11, <1>12, BufferWaits

\* In a string every character is kept.
LEMMA InStringStep == ScanInv /\ InString => ScanInv'
<1> SUFFICES ASSUME ScanInv, InString
             PROVE  ScanInv'
  OBVIOUS
<1>1. escape' \in BOOLEAN /\ quote' \in BOOLEAN
  BY DEF InString
<1>2. Char = "newline" => quote /\ quote'
  BY DEF InString
<1> QED
  BY <1>1, <1>2, KeepsChar DEF InString

\* The quote that begins a string is kept.
LEMMA BeginStringStep == ScanInv /\ BeginString => ScanInv'
<1> SUFFICES ASSUME ScanInv, BeginString
             PROVE  ScanInv'
  OBVIOUS
<1>1. TypeOK /\ LineOK
  BY DEF ScanInv
<1>2. /\ Reading /\ ~comment /\ Char = "quote" /\ quote' = TRUE /\ b' = Append(b, i) /\ i' = i + 1
      /\ start' = StartHere /\ text' = text /\ policy' = policy /\ phase' = phase
      /\ line' = line /\ escape' = escape /\ comment' = comment /\ out' = out
  BY DEF BeginString, Outside
<1>3. start' = start \/ (b = <<>> /\ start' = line)
  BY <1>1, <1>2, StartLemma
<1>4. escape' \in BOOLEAN /\ quote' \in BOOLEAN
  BY <1>1, <1>2 DEF TypeOK
<1>5. line' = line + (IF Char = "newline" THEN 1 ELSE 0)
  BY <1>1, <1>2 DEF TypeOK
<1> QED
  BY <1>2, <1>3, <1>4, <1>5, KeepsChar

\* Any other character is kept.
LEMMA KeepStep == ScanInv /\ Keep => ScanInv'
<1> SUFFICES ASSUME ScanInv, Keep
             PROVE  ScanInv'
  OBVIOUS
<1>1. TypeOK /\ LineOK
  BY DEF ScanInv
<1>2. /\ Reading /\ ~comment /\ Char # "newline" /\ quote' = quote /\ b' = Append(b, i)
      /\ i' = i + 1 /\ start' = StartHere
      /\ text' = text /\ policy' = policy /\ phase' = phase
      /\ line' = line /\ escape' = escape /\ comment' = comment /\ out' = out
  BY DEF Keep, Outside
<1>3. start' = start \/ (b = <<>> /\ start' = line)
  BY <1>1, <1>2, StartLemma
<1>4. escape' \in BOOLEAN /\ quote' \in BOOLEAN
  BY <1>1, <1>2 DEF TypeOK
<1>5. line' = line + (IF Char = "newline" THEN 1 ELSE 0)
  BY <1>1, <1>2 DEF TypeOK
<1> QED
  BY <1>2, <1>3, <1>4, <1>5, KeepsChar

\* The places before a comment are followed by it.
LEMMA BeginCommentStep == ScanInv /\ BeginComment => ScanInv'
<1> SUFFICES ASSUME ScanInv, BeginComment
             PROVE  ScanInv'
  OBVIOUS
<1>1. TypeOK /\ LineOK
  BY DEF ScanInv
<1>2. /\ Reading /\ ~comment /\ ~quote /\ Pair("/", "*") /\ comment' = TRUE /\ i' = i + 2
      /\ start' = StartHere /\ text' = text /\ policy' = policy /\ phase' = phase /\ b' = b
      /\ line' = line /\ quote' = quote /\ escape' = escape /\ out' = out
  BY DEF BeginComment, Outside
<1>3. /\ Len(text) \in Nat /\ i \in 1..Len(text)
      /\ line \in Nat /\ start \in Nat /\ start <= line /\ line = LineOf(i)
  BY <1>1, <1>2, ReadingLemma
<1>4. i + 1 <= Len(text) /\ text[i] = "/" /\ text[i + 1] = "*"
  BY <1>2, <1>3 DEF Pair, Char
<1>5. /\ i' \in Nat /\ i < i' /\ i' <= Len(text) + 1 /\ i \in 1..(i' - 1)
      /\ Opens(i) /\ \A p \in i..(i' - 1) : p = i \/ p = i + 1
  BY <1>2, <1>3, <1>4 DEF Opens
<1>6. line' \in Nat /\ (i' <= Len(text) => line' = LineOf(i'))
  <2>1. \A k \in i..(i + 2 - 1) : text[k] # "newline"
    BY <1>3, <1>4
  <2>2. LineOf(i + 2) = LineOf(i)
    BY <1>3, <2>1, LineStays
  <2> QED
    BY <1>2, <1>3, <2>2
<1>7. start' \in Nat /\ start <= start' /\ start' <= line' /\ (start' = start \/ b = <<>>)
  BY <1>1, <1>2, StartLemma
<1>8. \A p \in 1..Len(text) : Leads(p) /\ p < i => Leads(p)'
  <2> SUFFICES ASSUME NEW p \in 1..Len(text), p < i
               PROVE  Leads(p)'
    OBVIOUS
  <2>1. PICK r \in Nat : r = i
    BY <1>3
  <2>2. r \in (p + 1)..(i' - 1) /\ Opens(r)'
    BY <1>2, <1>3, <1>5, <2>1, TextSame
  <2> QED
    BY <1>2, <2>2 DEF Leads
<1>9. \A p \in i..(i' - 1) : ~IsLetter(p)
  BY <1>4, <1>5 DEF IsLetter
<1>10. \E q \in 1..(i' - 1) : Opens(q)
  BY <1>5
<1>11. MeetsAlias
  BY <1>4 DEF MeetsAlias
<1> QED
  BY <1>2, <1>5, <1>6, <1>7, <1>8, <1>9, <1>10, <1>11, BufferWaits

\* A dropped "*" is no letter.
LEMMA DropStarStep == ScanInv /\ DropStar => ScanInv'
<1> SUFFICES ASSUME ScanInv, DropStar
             PROVE  ScanInv'
  OBVIOUS
<1>1. TypeOK /\ LineOK
  BY DEF ScanInv
<1>2. /\ Reading /\ ~comment /\ ~quote /\ text[i] = "*" /\ comment' = comment /\ i' = i + 1
      /\ start' = StartHere /\ text' = text /\ policy' = policy /\ phase' = phase /\ b' = b
      /\ line' = line /\ quote' = quote /\ escape' = escape /\ out' = out
  BY DEF DropStar, DropsStar, Outside, Char
<1>3. /\ Len(text) \in Nat /\ i \in 1..Len(text) /\ i \in Nat
      /\ line \in Nat /\ start \in Nat /\ start <= line /\ line = LineOf(i)
      /\ LineOf(i + 1) = line
  BY <1>1, <1>2, ReadingLemma
<1>4. /\ i' \in Nat /\ i < i' /\ i' <= Len(text) + 1 /\ \A p \in i..(i' - 1) : p = i
      /\ line' = LineOf(i')
  BY <1>2, <1>3
<1>5. start' \in Nat /\ start <= start' /\ start' <= line' /\ (start' = start \/ b = <<>>)
  BY <1>1, <1>2, StartLemma
<1>6. \A p \in 1..Len(text) : Leads(p) /\ p < i => Leads(p)'
  <2> SUFFICES ASSUME NEW p \in 1..Len(text), Leads(p), p < i
               PROVE  Leads(p)'
    OBVIOUS
  <2>1. CASE \E r \in (p + 1)..(i - 1) : Opens(r)
    <3>1. PICK r \in (p + 1)..(i - 1) : Opens(r)
      BY <2>1
    <3>2. r \in (p + 1)..(i' - 1) /\ Opens(r)'
      BY <1>2, <1>3, <1>4, <3>1, TextSame
    <3> QED
      BY <1>2, <3>2 DEF Leads
  <2>2. CASE \A q \in 1..Len(text) : q = i => SameLine(p, q)
    <3>1. LineOf(p) = LineOf(i)
      BY <1>3, <2>2 DEF SameLine
    <3>2. \A q \in 1..Len(text) : q = i' => SameLine(p, q)
      BY <1>2, <1>3, <3>1 DEF SameLine
    <3>3. \A q \in 1..Len(text') : q = i' => SameLine(p, q)'
      BY <1>2, <3>2, TextSame
    <3> QED
      BY <1>2, <3>3 DEF Leads
  <2> QED
    BY <1>2, <2>1, <2>2 DEF Leads
<1>7. \A p \in i..(i' - 1) : ~IsLetter(p)
  BY <1>2, <1>4 DEF IsLetter
<1>8. MeetsAlias
  BY <1>2 DEF MeetsAlias
<1>9. line' \in Nat /\ comment' \in BOOLEAN
  BY <1>1, <1>2 DEF TypeOK
<1> QED
  BY <1>2, <1>4, <1>5, <1>6, <1>7, <1>8, <1>9, BufferWaits

\* What hides the rest of its line excuses the letters there.
LEMMA HiddenLemma ==
    ASSUME TypeOK, i <= Len(text), Hides(i), ~IsLetter(i),
           text[i] = "|" /\ "ScannerOR" \in policy =>
               (\E q \in 1..(i - 1) : Opens(q)) \/ ~\E r \in 1..(i - 1) : AliasAt(r, i)
    PROVE  \A p \in i..(NextLine - 1) : IsLetter(p) => Excused(p)
<1>1. PICK n : n = NextLine
  OBVIOUS
<1>2. /\ Len(text) \in Nat /\ i \in 1..Len(text)
      /\ n \in (i + 1)..(Len(text) + 1) /\ \A p \in i..(n - 2) : text[p] # "newline"
  BY <1>1, NextLineLemma, LenProperties DEF TypeOK
<1>3. SUFFICES ASSUME NEW p \in i..(n - 1), IsLetter(p)
               PROVE  Excused(p)
  BY <1>1
<1>4. p # i
  BY <1>3
<1>5. i \in 1..(p - 1) /\ p \in Nat /\ i <= p /\ i \in Nat \ {0}
  BY <1>2, <1>4
<1>6. SameLine(p, i)
  <2>1. \A k \in i..(p - 1) : k \in i..(n - 2)
    BY <1>2
  <2>2. \A k \in i..(p - 1) : text[k] # "newline"
    BY <1>2, <2>1
  <2> QED
    BY <1>5, <2>2, LineStays DEF SameLine
<1>7. CASE \E q \in 1..(i - 1) : Opens(q)
  <2>1. \E q \in 1..(p - 1) : Opens(q)
    BY <1>5, <1>7, OpensLater
  <2> QED
    BY <2>1 DEF Excused
<1>8. CASE ~\E q \in 1..(i - 1) : Opens(q)
  BY <1>5, <1>6, <1>8 DEF Excused
<1> QED
  BY <1>7, <1>8

\* A line comment ends the statement, and hides the rest of its line.
LEMMA LineCommentStep == ScanInv /\ LineComment => ScanInv'
<1> SUFFICES ASSUME ScanInv, LineComment
             PROVE  ScanInv'
  OBVIOUS
<1>1. TypeOK /\ LineOK /\ BufferOK /\ OutGood(out, start)
  BY DEF ScanInv
<1>2. /\ Reading /\ ~comment /\ ~quote /\ BeginsLineComment /\ b' = <<>>
      /\ out' = EmittedAt(StartHere) /\ i' = NextLine /\ line' = line + 1 /\ start' = line + 1
      /\ text' = text /\ policy' = policy /\ phase' = phase
      /\ quote' = quote /\ escape' = escape /\ comment' = comment
  BY DEF LineComment, Outside, EmittedAt
<1>3. Len(text) \in Nat /\ i \in 1..Len(text) /\ i <= Len(text) /\ line \in Nat /\ i \in Nat
  BY <1>1, <1>2, ReadingLemma
<1>4. text[i] \in {"#", "/", "backslash"} /\ Hides(i)
  BY <1>2 DEF BeginsLineComment, Pair, Char, Hides
<1>5. /\ i' \in Nat /\ i < i' /\ i' <= Len(text) + 1
      /\ text[i' - 1] = "newline" \/ i' = Len(text) + 1
  BY <1>1, <1>2, <1>3, NextLineLemma
<1>6. i' <= Len(text) => line' = LineOf(i')
  BY <1>1, <1>2, <1>3, LinesAhead
<1>7. PICK x : x = StartHere
  OBVIOUS
<1>8. x \in Nat /\ start <= x /\ x <= line /\ (b = <<>> \/ x = start)
  BY <1>1, <1>7, StartLemma
<1>9. /\ out' \in Seq(Entry) /\ OutGood(out', x)
      /\ \A p \in 1..Len(text) :
            InStatements(p, out) \/ (InBuffer(p) /\ IsLetter(p)) => InStatements(p, out')
  BY <1>1, <1>2, <1>7, <1>8, EmitLemma
<1>10. start' \in Nat /\ line' \in Nat /\ start' <= line' /\ x <= start'
  BY <1>2, <1>3, <1>8
<1>11. OutGood(out', start')
  BY <1>8, <1>9, <1>10, OutLater
<1>12. \A p \in i..(i' - 1) : IsLetter(p) => Excused(p)
  <2>1. ~IsLetter(i) /\ text[i] # "|"
    BY <1>4 DEF IsLetter
  <2> QED
    BY <1>1, <1>2, <1>3, <1>4, <2>1, HiddenLemma
<1>13. KeepsBuffer
  <2>1. PICK m \in Nat : m = i
    BY <1>3
  <2>2. PICK j \in Nat : j = i'
    BY <1>5
  <2>3. m < j
    BY <1>5, <2>1, <2>2
  <2>4. j - 1 \in m..(j - 1)
    BY <2>3
  <2> QED
    BY <1>5, <2>1, <2>2, <2>4 DEF KeepsBuffer
<1>14. MeetsAlias
  BY <1>4 DEF MeetsAlias
<1> QED
  BY <1>2, <1>5, <1>6, <1>9, <1>10, <1>11, <1>12, <1>13, <1>14, EndsBuffer

\* The end of a line ends the statement.
LEMMA EndOfLineStep == ScanInv /\ EndOfLine => ScanInv'
<1> SUFFICES ASSUME ScanInv, EndOfLine
             PROVE  ScanInv'
  OBVIOUS
<1>1. TypeOK /\ LineOK /\ BufferOK /\ OutGood(out, start)
  BY DEF ScanInv
<1>2. /\ Reading /\ ~comment /\ ~quote /\ text[i] = "newline" /\ b' = <<>>
      /\ out' = EmittedAt(start) /\ i' = i + 1 /\ line' = line + 1 /\ start' = line + 1
      /\ text' = text /\ policy' = policy /\ phase' = phase
      /\ quote' = quote /\ escape' = escape /\ comment' = comment
  BY DEF EndOfLine, Outside, Char, EmittedAt, Emitted
<1>3. /\ Len(text) \in Nat /\ i \in 1..Len(text) /\ line \in Nat /\ start \in Nat
      /\ start <= line /\ LineOf(i + 1) = line + 1
  BY <1>1, <1>2, ReadingLemma
<1>4. /\ i' \in Nat /\ i < i' /\ i' <= Len(text) + 1 /\ i \in i..(i' - 1)
      /\ \A p \in i..(i' - 1) : p = i
  BY <1>2, <1>3
<1>5. i' <= Len(text) => line' = LineOf(i')
  BY <1>2, <1>3
<1>6. /\ out' \in Seq(Entry) /\ OutGood(out', start)
      /\ \A p \in 1..Len(text) :
            InStatements(p, out) \/ (InBuffer(p) /\ IsLetter(p)) => InStatements(p, out')
  BY <1>1, <1>2, <1>3, EmitLemma
<1>7. start' \in Nat /\ line' \in Nat /\ start' <= line' /\ start <= start'
  BY <1>2, <1>3
<1>8. OutGood(out', start')
  BY <1>3, <1>6, <1>7, OutLater
<1>9. \A p \in i..(i' - 1) : ~IsLetter(p)
  BY <1>2, <1>4 DEF IsLetter
<1>10. KeepsBuffer /\ MeetsAlias
  BY <1>2, <1>4 DEF KeepsBuffer, MeetsAlias
<1> QED
  BY <1>2, <1>4, <1>5, <1>6, <1>7, <1>8, <1>9, <1>10, EndsBuffer

\* A place alone is a whole statement.
LEMMA BraceLemma ==
    ASSUME NEW p \in Nat
    PROVE  <<p>> \in Seq(Nat) /\ Len(<<p>>) = 1 /\ <<p>>[1] = p /\ Whole(<<p>>)
<1>1. <<p>> \in Seq(Nat) /\ Len(<<p>>) = 1 /\ <<p>>[1] = p
  OBVIOUS
<1> QED
  BY <1>1 DEF Whole

\* ";" ends the statement, and a brace is one of its own.
LEMMA EndOfStatementStep == ScanInv /\ EndOfStatement => ScanInv'
<1> SUFFICES ASSUME ScanInv, EndOfStatement
             PROVE  ScanInv'
  OBVIOUS
<1>1. TypeOK /\ LineOK /\ BufferOK /\ OutGood(out, start)
  BY DEF ScanInv
<1>2. PICK o, e : o = EmittedAt(start) /\ e = [text |-> <<i>>, pos |-> line]
  OBVIOUS
<1>3. text[i] \in {";", "{"} /\ (out' = o \/ out' = Append(o, e))
  BY <1>2 DEF EndOfStatement, Char, EmittedAt, Emitted
<1>4. /\ Reading /\ ~comment /\ ~quote /\ b' = <<>>
      /\ i' = i + 1 /\ line' = line /\ start' = line
      /\ text' = text /\ policy' = policy /\ phase' = phase
      /\ quote' = quote /\ escape' = escape /\ comment' = comment
  BY DEF EndOfStatement, Outside
<1>5. /\ Len(text) \in Nat /\ i \in 1..Len(text) /\ line \in Nat /\ start \in Nat
      /\ start <= line /\ line = LineOf(i) /\ i \in Nat
  BY <1>1, <1>4, ReadingLemma
<1>6. /\ i' \in Nat /\ i < i' /\ i' <= Len(text) + 1 /\ i \in i..(i' - 1)
      /\ \A p \in i..(i' - 1) : p = i
  BY <1>4, <1>5
<1>7. i' <= Len(text) => line' = LineOf(i')
  <2>1. text[i] # "newline"
    BY <1>3
  <2> QED
    BY <1>1, <1>4, <1>5, <2>1, ReadingLemma
<1>8. /\ o \in Seq(Entry) /\ OutGood(o, start)
      /\ \A p \in 1..Len(text) :
            InStatements(p, out) \/ (InBuffer(p) /\ IsLetter(p)) => InStatements(p, o)
  BY <1>1, <1>2, <1>5, EmitLemma
<1>9. OutGood(o, line)
  BY <1>5, <1>8, OutLater
<1>10. /\ Append(o, e) \in Seq(Entry) /\ OutGood(Append(o, e), line)
      /\ \A p : InStatements(p, o) => InStatements(p, Append(o, e))
  <2>1. e \in Entry /\ e.text = <<i>> /\ e.pos = line
    BY <1>2, <1>5, BraceLemma DEF Entry
  <2>2. /\ Len(e.text) > 0 /\ e.text[1] \in 1..Len(text) /\ Whole(e.text)
        /\ \A n \in 1..Len(e.text) : e.text[n] <= Len(text)
    BY <1>5, <2>1, BraceLemma
  <2>3. \A p \in 1..Len(text) : e.text[1] = p => e.pos <= LineOf(p)
    BY <1>5, <2>1, BraceLemma
  <2>4. Sound(e)
    BY <2>2, <2>3 DEF Sound
  <2>5. start <= e.pos /\ e.pos <= line
    BY <1>5, <2>1
  <2> QED
    BY <1>5, <1>8, <2>1, <2>4, <2>5, AppendGood
<1>11. /\ out' \in Seq(Entry) /\ OutGood(out', start')
       /\ \A p \in 1..Len(text) :
             InStatements(p, out) \/ (InBuffer(p) /\ IsLetter(p)) => InStatements(p, out')
  <2>1. CASE out' = o
    BY <1>3, <1>4, <1>8, <1>9, <2>1
  <2>2. CASE out' = Append(o, e)
    BY <1>3, <1>4, <1>8, <1>10, <2>2
  <2> QED
    BY <1>3, <1>4, <2>1, <2>2
<1>12. start' \in Nat /\ line' \in Nat /\ start' <= line'
  BY <1>4, <1>5
<1>13. \A p \in i..(i' - 1) : ~IsLetter(p)
  BY <1>3, <1>4, <1>6 DEF IsLetter
<1>14. KeepsBuffer /\ MeetsAlias
  BY <1>3, <1>4, <1>6 DEF KeepsBuffer, MeetsAlias
<1> QED
  BY <1>3, <1>4, <1>6, <1>7, <1>11, <1>12, <1>13, <1>14, EndsBuffer

\* A continuation hides the rest of its line, unless the file begins with an .alias
\* that is being read.
LEMMA ContinuationStep == ScanInv /\ Continuation => ScanInv'
<1> SUFFICES ASSUME ScanInv, Continuation
             PROVE  ScanInv'
  OBVIOUS
<1>1. TypeOK /\ LineOK /\ BufferOK /\ OutGood(out, start) /\ LettersOK /\ AliasOK
  BY DEF ScanInv
<1>2. text[i] = "|" /\ ("ScannerOR" \in policy => ~BeginsWith(b, <<".alias">>))
  BY DEF Continuation, Continues, Char
<1>3. /\ Reading /\ ~comment /\ ~quote /\ b' = Append(b, 0)
      /\ i' = NextLine /\ line' = line + 1 /\ start' = StartHere
      /\ text' = text /\ policy' = policy /\ phase' = phase /\ out' = out
      /\ quote' = quote /\ escape' = escape /\ comment' = comment
  BY DEF Continuation, Outside
<1>4. /\ Len(text) \in Nat /\ i \in 1..Len(text) /\ i <= Len(text) /\ i \in Nat /\ phase = "scan"
      /\ line \in Nat /\ start \in Nat /\ start <= line /\ line = LineOf(i)
  BY <1>1, <1>3, ReadingLemma
<1>5. i' \in Nat /\ i < i' /\ i <= i' /\ i' <= Len(text) + 1
  BY <1>1, <1>3, <1>4, NextLineLemma
<1>6. i' <= Len(text) => line' = LineOf(i')
  BY <1>1, <1>3, <1>4, LinesAhead
<1>7. /\ start' \in Nat /\ start <= start' /\ start' <= line
      /\ start' = start \/ (b = <<>> /\ start' = line)
  BY <1>1, <1>3, StartLemma
<1>8. line' \in Nat /\ start' <= line'
  BY <1>3, <1>4, <1>7
<1>9. /\ KeepsBuffer /\ b' \in Seq(Nat)
      /\ \A p : InBuffer(p) => InBuffer(p)'
      /\ Len(b') = Len(b) + 1 /\ b'[Len(b) + 1] = 0
      /\ \A k \in 1..Len(b) : k \in 1..Len(b') /\ b'[k] = b[k]
      /\ \A k \in 1..Len(b') : k \in 1..Len(b) \/ k = Len(b) + 1
  <2>1. PICK x \in Nat : x = 0
    OBVIOUS
  <2>2. b' = Append(b, x)
    BY <1>3, <2>1
  <2> QED
    BY <1>1, <2>1, <2>2, AddsLemma
<1>10. TypeOK'
  <2>1. i' \in 1..(Len(text) + 1)
    BY <1>4, <1>5
  <2> QED
    BY <1>1, <1>3, <1>7, <1>8, <1>9, <2>1 DEF TypeOK
<1>11. LineOK'
  BY <1>3, <1>4, <1>6, <1>8, LineStep
<1>12. BufferOK'
  <2>1. \A p \in 1..Len(text) : 0 = p => Leads(p)'
    BY <1>4
  <2>2. ~(quote' /\ comment')
    BY <1>3
  <2> QED
    BY <1>1, <1>3, <1>4, <1>5, <1>7, <2>1, <2>2, BufferAdds
<1>13. OutGood(out, start)'
  <2>1. PICK x : x = start'
    OBVIOUS
  <2>2. OutGood(out, x)
    <3>1. out \in Seq(Entry) /\ x \in Nat /\ start <= x
      BY <1>1, <1>7, <2>1 DEF TypeOK
    <3> QED
      BY <1>1, <1>4, <3>1, OutLater
  <2> QED
    BY <1>3, <2>1, <2>2, OutStep
<1>14. LettersOK'
  <2>1. Hides(i) /\ ~IsLetter(i)
    BY <1>2 DEF Hides, IsLetter
  <2>2. ASSUME "ScannerOR" \in policy, NEW r \in 1..(i - 1), AliasAt(r, i)
        PROVE  \E q \in 1..(i - 1) : Opens(q)
    <3>1. AliasAt(r, i - 1)
      <4>1. \A s \in r..(i - 1) : s \in r..i
        BY <1>4
      <4> QED
        BY <2>2, <4>1 DEF AliasAt
    <3>2. \/ \E q \in 1..(i - 1) : Opens(q)
          \/ \E k \in 1..Len(b) : b[k] = r /\ \A n \in 1..(k - 1) : BlankAt(b[n])
      BY <1>1, <1>4, <2>2, <3>1 DEF AliasOK
    <3>3. ASSUME NEW k \in 1..Len(b), b[k] = r, \A n \in 1..(k - 1) : BlankAt(b[n])
          PROVE  FALSE
      <4>1. r \in 1..Len(text)
        BY <1>4
      <4>2. text[r] = ".alias"
        BY <2>2 DEF AliasAt
      <4>3. BeginsWith(b, <<".alias">>)
        BY <1>1, <3>3, <4>1, <4>2, Begins
      <4> QED
        BY <1>2, <2>2, <4>3
    <3> QED
      BY <3>2, <3>3
  <2>3. \A p \in i..(i' - 1) : IsLetter(p) => Excused(p)
    BY <1>1, <1>3, <1>4, <2>1, <2>2, HiddenLemma
  <2>4. i <= i' /\ i' \in 1..(Len(text) + 1)
    BY <1>4, <1>5
  <2> QED
    BY <1>1, <1>3, <1>4, <1>9, <2>3, <2>4, LettersStep
<1>15. AliasOK'
  <2>1. QuotesNewlines
    <3>1. \A k \in 1..Len(b) : b[k] > 0 /\ text[b[k]] = "newline" => QuoteRead
      BY <1>1 DEF AliasOK
    <3> QED
      BY <1>9, <3>1 DEF QuotesNewlines
  <2>2. MeetsAlias
    BY <1>2 DEF MeetsAlias
  <2> QED
    BY <1>1, <1>3, <1>4, <1>5, <1>9, <2>1, <2>2, AliasStep
<1> QED
  BY <1>10, <1>11, <1>12, <1>13, <1>14, <1>15 DEF ScanInv

\* The end of the file ends the last statement, unless a string or comment is open.
LEMMA EndOfTextStep == ScanInv /\ EndOfText => ScanInv'
<1> SUFFICES ASSUME ScanInv, EndOfText
             PROVE  ScanInv'
  OBVIOUS
<1>1. TypeOK /\ LineOK /\ BufferOK /\ OutGood(out, start) /\ LettersOK /\ AliasOK
  BY DEF ScanInv
<1>2. /\ i = Len(text) + 1 /\ i' = i /\ line' = line
      /\ text' = text /\ policy' = policy
      /\ quote' = quote /\ escape' = escape /\ comment' = comment
  BY DEF EndOfText
<1>3. /\ Len(text) \in Nat /\ i \in Nat /\ i \in 1..(Len(text) + 1)
      /\ line \in Nat /\ start \in Nat /\ start <= line
  BY <1>1, LenProperties DEF TypeOK, LineOK
<1>4. /\ phase' \in {"done", "failed"}
      /\ \/ phase' # "done" /\ b' = b /\ out' = out /\ start' = start
         \/ ~quote /\ b' = <<>> /\ out' = EmittedAt(start) /\ start' = line
  BY DEF EndOfText, EmittedAt, Emitted
<1>5. /\ out' \in Seq(Entry) /\ OutGood(out', start') /\ start' \in Nat /\ start' <= line'
      /\ \A p \in 1..Len(text) :
            InStatements(p, out) \/ (InBuffer(p) /\ IsLetter(p)) =>
                InStatements(p, out') \/ InBuffer(p)'
      /\ b' \in Seq(Nat)
  <2>1. CASE b' = b /\ out' = out /\ start' = start
    BY <1>1, <1>2, <1>3, <2>1 DEF TypeOK, InBuffer
  <2>2. CASE b' = <<>> /\ out' = EmittedAt(start) /\ start' = line
    <3>1. /\ EmittedAt(start) \in Seq(Entry) /\ OutGood(EmittedAt(start), start)
          /\ \A p \in 1..Len(text) :
                InStatements(p, out) \/ (InBuffer(p) /\ IsLetter(p)) =>
                    InStatements(p, EmittedAt(start))
      BY <1>1, <1>3, EmitLemma
    <3>2. OutGood(EmittedAt(start), line)
      BY <1>3, <3>1, OutLater
    <3>3. b' \in Seq(Nat)
      BY <2>2
    <3> QED
      BY <1>2, <1>3, <2>2, <3>1, <3>2, <3>3
  <2> QED
    BY <1>4, <2>1, <2>2
<1>6. TypeOK'
  BY <1>1, <1>2, <1>3, <1>4, <1>5 DEF TypeOK
<1>7. LineOK'
  BY <1>2, <1>3, <1>5, LineStep
<1>8. BufferOK'
  <2>1. CASE b' = b /\ start' = start
    <3>1. \A p \in 1..Len(text) : Leads(p) /\ p < i => Leads(p)'
      BY <1>2, TextSame DEF Leads
    <3>2. i <= i' /\ i' \in Nat /\ ~(quote' /\ comment')
      BY <1>1, <1>2, <1>3 DEF BufferOK
    <3> QED
      BY <1>1, <1>2, <2>1, <3>1, <3>2, BufferStays
  <2>2. CASE b' = <<>> /\ ~quote
    BY <1>2, <2>2, BufferEmptied
  <2> QED
    BY <1>4, <2>1, <2>2
<1>9. OutGood(out, start)'
  <2>1. PICK o, x : o = out' /\ x = start'
    OBVIOUS
  <2>2. OutGood(o, x)
    BY <1>5, <2>1
  <2> QED
    BY <1>2, <2>1, <2>2, OutStep
<1>10. LettersOK'
  <2>1. \A p : IsLetter(p)' <=> IsLetter(p)
    BY <1>2 DEF IsLetter
  <2>2. ASSUME NEW p \in 1..(i - 1), IsLetter(p)
        PROVE  InStatements(p, out') \/ InBuffer(p)' \/ Excused(p)
    <3>1. p \in 1..Len(text)
      BY <1>2, <1>3
    <3>2. InStatements(p, out) \/ InBuffer(p) \/ Excused(p)
      BY <1>1, <2>2 DEF LettersOK
    <3> QED
      BY <1>5, <2>2, <3>1, <3>2
  <2>3. \A p \in 1..(i' - 1) : IsLetter(p)' => InStatements(p, out') \/ InBuffer(p)' \/ Excused(p)'
    BY <1>2, <2>1, <2>2, TextSame
  <2>4. comment' => \E q \in 1..(i' - 1) : Opens(q)'
    BY <1>1, <1>2, TextSame DEF LettersOK
  <2>5. phase' = "done" => i' = Len(text') + 1 /\ b' = <<>>
    BY <1>2, <1>4
  <2> QED
    BY <2>3, <2>4, <2>5 DEF LettersOK, InStatements
<1>11. AliasOK'
  <2>1. QuoteRead' <=> QuoteRead
    BY <1>2 DEF QuoteRead
  <2>2. quote' => QuoteRead'
    BY <1>1, <1>2, <2>1 DEF AliasOK
  <2>3. \A k \in 1..Len(b') : b'[k] > 0 /\ text'[b'[k]] = "newline" => QuoteRead'
    <3>1. b' = b \/ Len(b') = 0
      BY <1>4
    <3> QED
      BY <1>1, <1>2, <2>1, <3>1 DEF AliasOK
  <2>4. ~(i' <= Len(text'))
    BY <1>2, <1>3
  <2> QED
    BY <2>2, <2>3, <2>4 DEF AliasOK
<1> QED
  BY <1>6, <1>7, <1>8, <1>9, <1>10, <1>11 DEF ScanInv

\* When nothing is read, nothing changes.
LEMMA StutterStep == ScanInv /\ UNCHANGED vars => ScanInv'
<1> SUFFICES ASSUME ScanInv, UNCHANGED vars
             PROVE  ScanInv'
  OBVIOUS
<1>1. /\ text' = text /\ policy' = policy /\ phase' = phase /\ i' = i /\ b' = b /\ line' = line
      /\ start' = start /\ quote' = quote /\ escape' = escape /\ comment' = comment /\ out' = out
  BY DEF vars
<1>2. TypeOK'
  BY <1>1 DEF ScanInv, TypeOK
<1>3. LineOK'
  BY <1>1, TextSame DEF ScanInv, LineOK
<1>4. BufferOK'
  BY <1>1, TextSame DEF ScanInv, BufferOK, Whole, Leads
<1>5. OutGood(out, start)'
  BY <1>1, OutStep DEF ScanInv
<1>6. LettersOK'
  <2>1. \A p : IsLetter(p)' <=> IsLetter(p)
    BY <1>1 DEF IsLetter
  <2>2. \A p : InBuffer(p)' <=> InBuffer(p)
    BY <1>1 DEF InBuffer
  <2> QED
    BY <1>1, <2>1, <2>2, TextSame DEF ScanInv, LettersOK, InStatements
<1>7. AliasOK'
  <2>1. QuoteRead' <=> QuoteRead
    BY <1>1 DEF QuoteRead
  <2>2. \A r : AliasAt(r, i - 1)' <=> AliasAt(r, i - 1)
    BY <1>1 DEF AliasAt
  <2>3. \A n : BlankAt(b[n])' <=> BlankAt(b[n])
    BY <1>1 DEF BlankAt
  <2> QED
    BY <1>1, <2>1, <2>2, <2>3, TextSame DEF ScanInv, AliasOK
<1> QED
  BY <1>2, <1>3, <1>4, <1>5, <1>6, <1>7 DEF ScanInv

\* Before anything is read.
LEMMA ScanInit == Init => ScanInv
<1> SUFFICES ASSUME Init
             PROVE  ScanInv
  OBVIOUS
<1>1. /\ phase = "scan" /\ i = 1 /\ b = <<>> /\ line = 1 /\ start = 1
      /\ quote = FALSE /\ escape = FALSE /\ comment = FALSE /\ out = <<>>
  BY DEF Init
<1>2. text \in Seq(Chars)
  <2>1. PICK c \in Cases : \E n \in 0..c.length : text \in [1..n -> c.chars]
    BY DEF Init
  <2>2. PICK n \in 0..c.length : text \in [1..n -> c.chars]
    BY <2>1
  <2>3. n \in Nat /\ c.chars \subseteq Chars
    <3>1. c.chars \subseteq Chars /\ c.length \in Nat
      BY <2>1, ScannerAssumption
    <3> QED
      BY <2>2, <3>1
  <2>4. text \in [1..n -> Chars]
    BY <2>2, <2>3
  <2> QED
    BY <2>3, <2>4, SeqDef
<1>3. Len(text) \in Nat
  BY <1>2, LenProperties
<1>4. TypeOK
  <2>1. b \in Seq(Nat) /\ out \in Seq(Entry)
    BY <1>1
  <2>2. i \in 1..(Len(text) + 1)
    BY <1>1, <1>3
  <2> QED
    BY <1>1, <1>2, <2>1, <2>2 DEF TypeOK
<1>5. LineOK
  <2>1. {k \in 1..(1 - 1) : text[k] = "newline"} = {}
    OBVIOUS
  <2>2. LineOf(1) = 1
    BY <2>1, FS_EmptySet DEF LineOf
  <2> QED
    BY <1>1, <2>2 DEF LineOK
<1>6. BufferOK
  <2>1. Len(b) = 0
    BY <1>1
  <2> QED
    BY <1>1, <2>1 DEF BufferOK, Whole
<1>7. OutGood(out, start)
  <2>1. Len(out) = 0
    BY <1>1
  <2> QED
    BY <2>1 DEF OutGood
<1>8. LettersOK
  <2>1. 1..(i - 1) = {}
    BY <1>1
  <2> QED
    BY <1>1, <2>1 DEF LettersOK
<1>9. AliasOK
  <2>1. 1..(i - 1) = {} /\ Len(b) = 0
    BY <1>1
  <2> QED
    BY <1>1, <2>1 DEF AliasOK
<1> QED
  BY <1>4, <1>5, <1>6, <1>7, <1>8, <1>9 DEF ScanInv

\* Every step keeps the invariant.
LEMMA ScanStep == ScanInv /\ [Next]_vars => ScanInv'
  BY InCommentStep, InStringStep, BeginStringStep, BeginCommentStep, ContinuationStep,
     LineCommentStep, DropStarStep, EndOfLineStep, EndOfStatementStep, KeepStep, EndOfTextStep,
     StutterStep
     DEF Next

----------------------------------------------------------------------------
(* Strings *)

\* What StringEnds knows of a statement that it has read: whether it is in a string, and
\* behind a backslash, whether all strings are whole, and the last place.
Ends == [in : BOOLEAN, esc : BOOLEAN, ok : BOOLEAN, last : Nat]
NoString == [in |-> FALSE, esc |-> FALSE, ok |-> TRUE, last |-> 0]

Reads(t, state, p) ==
    CASE ~state.in -> [in |-> t[p] = "quote", esc |-> FALSE, ok |-> state.ok, last |-> p]
      [] OTHER -> [in |-> state.esc \/ t[p] # "quote",
                   esc |-> ~state.esc /\ t[p] = "backslash",
                   ok |-> state.ok /\ p = state.last + 1, last |-> p]
ReadOne(t, state, p) ==
    IF p = 0 THEN [state EXCEPT !.ok = @ /\ ~state.in] ELSE Reads(t, state, p)

\* StringEnds, of a file t.
EndsIn(t, s) ==
    LET it == CHOOSE f : f = [S \in SUBSET (DOMAIN s) |->
                  IF S = {} THEN NoString ELSE ReadOne(t, f[S \ {Max(S)}], s[Max(S)])]
    IN  it[DOMAIN s]

\* f[k] is what is known behind the first k places of s.
Knows(t, s, f) ==
    /\ f \in [0..Len(s) -> Ends]
    /\ f[0] = NoString
    /\ \A k \in 1..Len(s) : f[k] = ReadOne(t, f[k - 1], s[k])

\* A further place leaves what is known in its type.
LEMMA ReadsType ==
    ASSUME NEW t, NEW state \in Ends, NEW p \in Nat
    PROVE  ReadOne(t, state, p) \in Ends
<1>1. state.in \in BOOLEAN /\ state.esc \in BOOLEAN /\ state.ok \in BOOLEAN /\ state.last \in Nat
  BY DEF Ends
<1>2. CASE p = 0
  <2>1. [state EXCEPT !.ok = @ /\ ~state.in] \in Ends
    BY DEF Ends
  <2> QED
    BY <1>2, <2>1 DEF ReadOne
<1>3. CASE p # 0 /\ ~state.in
  <2>1. ReadOne(t, state, p) = [in |-> t[p] = "quote", esc |-> FALSE, ok |-> state.ok, last |-> p]
    BY <1>3 DEF ReadOne, Reads
  <2> QED
    BY <1>1, <2>1 DEF Ends
<1>4. CASE p # 0 /\ state.in
  <2>1. ReadOne(t, state, p) = [in |-> state.esc \/ t[p] # "quote",
                                 esc |-> ~state.esc /\ t[p] = "backslash",
                                 ok |-> state.ok /\ p = state.last + 1, last |-> p]
    BY <1>4 DEF ReadOne, Reads
  <2> QED
    BY <1>1, <2>1 DEF Ends
<1> QED
  BY <1>2, <1>3, <1>4

\* FoldLeft goes from the first place of a statement to its last one.
LEMMA EndsLemma ==
    ASSUME NEW t, NEW s \in Seq(Nat)
    PROVE  \E f : Knows(t, s, f) /\ EndsIn(t, s) = f[Len(s)]
<1>1. PICK n \in Nat : n = Len(s) /\ DOMAIN s = 1..n /\ \A k \in 1..n : s[k] \in Nat
  BY LenProperties, ElementOfSeq
<1> DEFINE F == [z \in (1..n) \X Ends |-> ReadOne(t, z[2], s[z[1]])]
           Is(f) == f = [S \in SUBSET (1..n) |->
                            IF S = {} THEN NoString ELSE ReadOne(t, f[S \ {Max(S)}], s[Max(S)])]
<1>2. NoString \in Ends
  BY DEF NoString, Ends
<1>3. \A k \in 1..n : \A v \in Ends : F[<<k, v>>] = ReadOne(t, v, s[k]) /\ F[<<k, v>>] \in Ends
  BY <1>1, ReadsType
<1> HIDE DEF F
<1>4. PICK it \in [SUBSET (1..n) -> Ends] : Folds(it, F, NoString, n)
  BY <1>2, <1>3, FoldsExist
<1>5. Is(it)
  <2>1. ASSUME NEW S \in SUBSET (1..n)
        PROVE  it[S] = IF S = {} THEN NoString ELSE ReadOne(t, it[S \ {Max(S)}], s[Max(S)])
    <3>1. it[S] = IF S = {} THEN NoString ELSE F[<<Max(S), it[S \ {Max(S)}]>>]
      BY <1>4 DEF Folds
    <3>2. ASSUME S # {}
          PROVE  F[<<Max(S), it[S \ {Max(S)}]>>] = ReadOne(t, it[S \ {Max(S)}], s[Max(S)])
      <4>1. Max(S) \in 1..n
        BY <3>2, MaxLemma
      <4>2. it[S \ {Max(S)}] \in Ends
        OBVIOUS
      <4> QED
        BY <1>3, <4>1, <4>2
    <3> QED
      BY <3>1, <3>2
  <2>2. it = [S \in SUBSET (1..n) |-> it[S]]
    OBVIOUS
  <2> QED
    BY <2>1, <2>2
<1>6. PICK g : g = CHOOSE f : Is(f)
  OBVIOUS
<1>7. Is(g)
  BY <1>5, <1>6
<1>8. EndsIn(t, s) = g[1..n]
  BY <1>1, <1>6 DEF EndsIn
<1>9. g[1..0] = NoString
  <2>1. 1..0 = {} /\ {} \in SUBSET (1..n)
    OBVIOUS
  <2> QED
    BY <1>7, <2>1
<1>10. ASSUME NEW k \in 1..n
       PROVE  g[1..k] = ReadOne(t, g[1..(k - 1)], s[k])
  <2>1. k \in Nat \ {0} /\ 1..k \in SUBSET (1..n)
    OBVIOUS
  <2>2. 1..k # {} /\ Max(1..k) = k /\ (1..k) \ {Max(1..k)} = 1..(k - 1)
    BY <2>1, MaxOfPlaces
  <2>3. g[1..k] = IF 1..k = {} THEN NoString ELSE ReadOne(t, g[(1..k) \ {Max(1..k)}], s[Max(1..k)])
    BY <1>7, <2>1
  <2> QED
    BY <2>2, <2>3
<1> HIDE DEF Is
<1>11. \A k \in 0..n : g[1..k] \in Ends
  <2> DEFINE T == {k \in Nat : g[1..k] \in Ends}
  <2>1. ASSUME NEW k \in Nat, k + 1 \in 1..n, g[1..k] \in Ends
        PROVE  g[1..(k + 1)] \in Ends
    <3>1. (k + 1) - 1 = k
      OBVIOUS
    <3>2. g[1..(k + 1)] = ReadOne(t, g[1..k], s[k + 1])
      BY <1>10, <2>1, <3>1
    <3> QED
      BY <1>1, <2>1, <3>2, ReadsType
  <2>2. n > 0 => 1 \in T
    <3>1. n > 0 => 0 + 1 \in 1..n /\ 0 + 1 = 1
      OBVIOUS
    <3>2. n > 0 => g[1..(0 + 1)] \in Ends
      BY <1>2, <1>9, <2>1, <3>1
    <3> QED
      BY <3>1, <3>2
  <2>3. ASSUME NEW k \in 1..(n - 1), k \in T
        PROVE  k + 1 \in T
    <3>1. k \in Nat /\ k + 1 \in 1..n /\ k + 1 \in Nat
      OBVIOUS
    <3> QED
      BY <2>1, <2>3, <3>1
  <2> HIDE DEF T
  <2>4. \A k \in 1..n : k \in T
    BY <2>2, <2>3, UpTo
  <2>5. \A k \in 0..n : k = 0 \/ k \in 1..n
    OBVIOUS
  <2> QED
    BY <1>2, <1>9, <2>4, <2>5 DEF T
<1> DEFINE f == [k \in 0..n |-> g[1..k]]
<1>12. Knows(t, s, f)
  <2>1. f \in [0..n -> Ends] /\ f[0] = NoString
    BY <1>9, <1>11
  <2>2. ASSUME NEW k \in 1..n
        PROVE  f[k] = ReadOne(t, f[k - 1], s[k])
    <3>1. k \in 0..n /\ k - 1 \in 0..n
      OBVIOUS
    <3> QED
      BY <1>10, <3>1
  <2> HIDE DEF f
  <2> QED
    BY <1>1, <2>1, <2>2 DEF Knows
<1>13. f[n] = g[1..n]
  OBVIOUS
<1> QED
  BY <1>1, <1>8, <1>12, <1>13

\* There is one such function only.
LEMMA KnowsSame ==
    ASSUME NEW t, NEW s \in Seq(Nat), NEW r \in Seq(Nat), NEW f, NEW g, Knows(t, s, f), Knows(t, r, g),
           Len(r) <= Len(s), \A k \in 1..Len(r) : s[k] = r[k]
    PROVE  \A k \in 0..Len(r) : f[k] = g[k]
<1> DEFINE T == {k \in Nat : f[k] = g[k]}
<1>1. Len(r) \in Nat /\ Len(s) \in Nat /\ f[0] = g[0]
  BY LenProperties DEF Knows
<1>2. ASSUME NEW k \in Nat, k + 1 \in 1..Len(r), f[k] = g[k]
      PROVE  f[k + 1] = g[k + 1]
  <2>1. (k + 1) - 1 = k /\ k + 1 \in 1..Len(s)
    BY <1>1, <1>2
  <2>2. f[k + 1] = ReadOne(t, f[k], s[k + 1]) /\ g[k + 1] = ReadOne(t, g[k], r[k + 1])
    BY <1>2, <2>1 DEF Knows
  <2> QED
    BY <1>2, <2>2
<1>3. Len(r) > 0 => 1 \in T
  <2>1. Len(r) > 0 => 0 + 1 \in 1..Len(r) /\ 0 + 1 = 1
    BY <1>1
  <2>2. Len(r) > 0 => f[0 + 1] = g[0 + 1]
    BY <1>1, <1>2, <2>1
  <2> QED
    BY <2>1, <2>2
<1>4. ASSUME NEW k \in 1..(Len(r) - 1), k \in T
      PROVE  k + 1 \in T
  <2>1. k \in Nat /\ k + 1 \in 1..Len(r) /\ k + 1 \in Nat
    BY <1>1
  <2> QED
    BY <1>2, <1>4, <2>1
<1> HIDE DEF T
<1>5. \A k \in 1..Len(r) : k \in T
  BY <1>1, <1>3, <1>4, UpTo
<1>6. \A k \in 0..Len(r) : k = 0 \/ k \in 1..Len(r)
  BY <1>1
<1> QED
  BY <1>1, <1>5, <1>6 DEF T

\* What is known behind a further place.
LEMMA EndsAppended ==
    ASSUME NEW t, NEW s \in Seq(Nat), NEW p \in Nat
    PROVE  /\ EndsIn(t, s) \in Ends
           /\ EndsIn(t, Append(s, p)) = ReadOne(t, EndsIn(t, s), p)
<1>1. PICK r : r = Append(s, p)
  OBVIOUS
<1>2. PICK n \in Nat : n = Len(s)
  BY LenProperties
<1>3. r \in Seq(Nat) /\ Len(r) = n + 1 /\ r[n + 1] = p /\ \A k \in 1..n : r[k] = s[k]
  BY <1>1, <1>2, AppendProperties
<1>4. PICK f : Knows(t, r, f) /\ EndsIn(t, r) = f[n + 1]
  BY <1>3, EndsLemma
<1>5. PICK g : Knows(t, s, g) /\ EndsIn(t, s) = g[n]
  BY <1>2, EndsLemma
<1>6. n \in 0..Len(s) /\ f[n] = g[n]
  <2>1. Len(s) <= Len(r) /\ \A k \in 1..Len(s) : r[k] = s[k]
    BY <1>2, <1>3
  <2>2. \A k \in 0..Len(s) : f[k] = g[k]
    <3>1. Knows(t, r, f) /\ Knows(t, s, g) /\ r \in Seq(Nat)
      BY <1>3, <1>4, <1>5
    <3> QED
      BY <2>1, <3>1, KnowsSame
  <2> QED
    BY <1>2, <2>2
<1>7. f[n + 1] = ReadOne(t, f[n], p)
  <2>1. n + 1 \in 1..Len(r) /\ (n + 1) - 1 = n
    BY <1>3
  <2> QED
    BY <1>3, <1>4, <2>1 DEF Knows
<1>8. g[n] \in Ends
  BY <1>5, <1>6 DEF Knows
<1> QED
  BY <1>1, <1>4, <1>5, <1>6, <1>7, <1>8

\* Before the first place nothing is.
LEMMA EndsEmpty ==
    ASSUME NEW t
    PROVE  EndsIn(t, <<>>) = NoString
<1>1. <<>> \in Seq(Nat) /\ Len(<<>>) = 0
  BY EmptySeq
<1>2. PICK f : Knows(t, <<>>, f) /\ EndsIn(t, <<>>) = f[Len(<<>>)]
  BY <1>1, EndsLemma
<1> QED
  BY <1>1, <1>2 DEF Knows

\* What blanks around a statement leave out: the string that is open.
LEMMA BlankReads ==
    ASSUME NEW state \in Ends, NEW p \in Nat, BlankAt(p)
    PROVE  ReadOne(text, state, p).in = state.in
<1>1. CASE p = 0
  <2>1. ReadOne(text, state, p) = [state EXCEPT !.ok = @ /\ ~state.in]
    BY <1>1 DEF ReadOne
  <2> QED
    BY <2>1 DEF Ends
<1>2. CASE p # 0
  <2>1. text[p] = " " /\ text[p] # "quote" /\ state.in \in BOOLEAN
    BY <1>2 DEF BlankAt, Ends
  <2>2. CASE state.in
    <3>1. ReadOne(text, state, p).in = (state.esc \/ text[p] # "quote")
      BY <1>2, <2>2 DEF ReadOne, Reads
    <3> QED
      BY <2>1, <2>2, <3>1
  <2>3. CASE ~state.in
    <3>1. ReadOne(text, state, p).in = (text[p] = "quote")
      BY <1>2, <2>3 DEF ReadOne, Reads
    <3> QED
      BY <2>1, <2>3, <3>1
  <2> QED
    BY <2>2, <2>3
<1> QED
  BY <1>1, <1>2

\* What was not whole does not become so.
LEMMA ReadsWhole ==
    ASSUME NEW t, NEW state \in Ends, NEW p, ReadOne(t, state, p).ok
    PROVE  state.ok
<1>1. CASE p = 0
  BY <1>1 DEF ReadOne, Ends
<1>2. CASE p # 0 /\ state.in
  BY <1>2 DEF ReadOne, Reads
<1>3. CASE p # 0 /\ ~state.in
  BY <1>3 DEF ReadOne, Reads
<1> QED
  BY <1>1, <1>2, <1>3

\* Outside of a string, a character counts by itself.
LEMMA ReadsAnew ==
    ASSUME NEW t, NEW state \in Ends, ~state.in, state.ok, NEW p, p # 0
    PROVE  ReadOne(t, state, p) = ReadOne(t, NoString, p)
<1>1. ReadOne(t, state, p) = [in |-> t[p] = "quote", esc |-> FALSE, ok |-> state.ok, last |-> p]
  BY DEF ReadOne, Reads
<1>2. ReadOne(t, NoString, p) = [in |-> t[p] = "quote", esc |-> FALSE, ok |-> TRUE, last |-> p]
  BY DEF ReadOne, Reads, NoString
<1>3. state.ok = TRUE
  BY DEF Ends
<1> QED
  BY <1>1, <1>2, <1>3

\* In the statement s all strings are whole and closed.
WholeStrings(t, s) == EndsIn(t, s).ok /\ ~EndsIn(t, s).in

\* They stay so when blanks are trimmed.
LEMMA TrimmedStrings ==
    ASSUME NEW s \in Seq(Nat), WholeStrings(text, s), Trimmed(s) # <<>>
    PROVE  WholeStrings(text, Trimmed(s))
<1>1. PICK lo \in 1..Len(s), hi \in 1..Len(s) :
          /\ lo <= hi
          /\ Trimmed(s) \in Seq(Nat) /\ Len(Trimmed(s)) = hi - lo + 1
          /\ \A n \in 1..Len(Trimmed(s)) : Trimmed(s)[n] = s[lo + n - 1]
          /\ ~BlankAt(s[lo])
          /\ \A n \in 1..Len(s) : ~BlankAt(s[n]) => lo <= n /\ n <= hi
  BY TrimmedLemma
<1>2. PICK r : r = Trimmed(s)
  OBVIOUS
<1>3. PICK n \in Nat : n = Len(s) /\ \A k \in 1..n : s[k] \in Nat
  BY LenProperties, ElementOfSeq
<1>4. PICK f : Knows(text, s, f) /\ EndsIn(text, s) = f[n]
  <2>1. \E f : Knows(text, s, f) /\ EndsIn(text, s) = f[Len(s)]
    BY EndsLemma
  <2> QED
    BY <1>3, <2>1
<1>5. PICK m \in Nat : m = hi - lo + 1 /\ r \in Seq(Nat) /\ Len(r) = m /\ m > 0
  <2>1. hi - lo + 1 \in Nat /\ hi - lo + 1 > 0
    BY <1>1, <1>3
  <2>2. r \in Seq(Nat) /\ Len(r) = hi - lo + 1
    BY <1>1, <1>2
  <2> QED
    BY <2>1, <2>2
<1>6. PICK g : Knows(text, r, g) /\ EndsIn(text, r) = g[m]
  BY <1>5, EndsLemma
<1>7. /\ \A k \in 0..n : f[k] \in Ends
      /\ f[0] = NoString
      /\ \A k \in 1..n : f[k] = ReadOne(text, f[k - 1], s[k])
  BY <1>3, <1>4 DEF Knows
<1>8. \A k \in 0..n : f[k].ok
  <2> DEFINE T == {k \in Nat : k <= n => f[n - k].ok}
  <2>1. 0 \in T
    <3>1. n - 0 = n
      OBVIOUS
    <3>2. f[n].ok /\ ~f[n].in
      BY <1>4 DEF WholeStrings
    <3> QED
      BY <3>1, <3>2
  <2>2. ASSUME NEW k \in Nat, k \in T
        PROVE  k + 1 \in T
    <3> SUFFICES ASSUME k + 1 <= n
                 PROVE  f[n - (k + 1)].ok
      OBVIOUS
    <3>1. PICK l : l = n - k
      OBVIOUS
    <3>2. l \in 1..n /\ l - 1 \in 0..n /\ n - (k + 1) = l - 1 /\ f[l].ok
      BY <2>2, <3>1
    <3>3. f[l] = ReadOne(text, f[l - 1], s[l]) /\ f[l - 1] \in Ends
      BY <1>7, <3>2
    <3> QED
      BY <3>2, <3>3, ReadsWhole
  <2>3. 1 \in T
    <3>1. 0 + 1 \in T
      BY <2>1, <2>2
    <3> QED
      BY <3>1
  <2>4. \A k \in 1..(n - 1) : k \in T => k + 1 \in T
    BY <2>2
  <2> HIDE DEF T
  <2>5. \A k \in 1..n : k \in T
    BY <2>3, <2>4, UpTo
  <2>6. ASSUME NEW k \in 0..n
        PROVE  f[k].ok
    <3>1. PICK l : l = n - k
      OBVIOUS
    <3>2. l \in 0..n /\ n - l = k /\ (l = 0 \/ l \in 1..n)
      BY <3>1
    <3>3. l \in T
      BY <2>1, <2>5, <3>2
    <3> QED
      BY <3>2, <3>3 DEF T
  <2> QED
    BY <2>6
<1>9. \A k \in 1..n : k < lo \/ k > hi => f[k].in = f[k - 1].in
  <2> SUFFICES ASSUME NEW k \in 1..n, k < lo \/ k > hi
               PROVE  f[k].in = f[k - 1].in
    OBVIOUS
  <2>1. BlankAt(s[k]) /\ s[k] \in Nat /\ k - 1 \in 0..n
    BY <1>1, <1>3
  <2> QED
    BY <1>7, <2>1, BlankReads
<1>10. ~f[lo - 1].in
  <2> DEFINE T == {k \in Nat : ~f[k].in}
  <2>1. 0 \in T
    BY <1>7 DEF NoString
  <2>2. ASSUME NEW k \in Nat, k + 1 <= lo - 1, k \in T
        PROVE  k + 1 \in T
    <3>1. k + 1 \in 1..n /\ k + 1 < lo /\ (k + 1) - 1 = k
      BY <1>3, <2>2
    <3>2. f[k + 1].in = f[k].in
      BY <1>9, <3>1
    <3> QED
      BY <2>2, <3>2
  <2>3. lo - 1 \in Nat /\ lo - 1 \in 0..(lo - 1)
    OBVIOUS
  <2>4. lo - 1 > 0 => 1 \in T
    <3>1. lo - 1 > 0 => 0 + 1 <= lo - 1 /\ 0 + 1 = 1
      OBVIOUS
    <3> QED
      BY <2>1, <2>2, <3>1
  <2>5. \A k \in 1..((lo - 1) - 1) : k \in T => k + 1 \in T
    BY <2>2
  <2> HIDE DEF T
  <2>6. \A k \in 1..(lo - 1) : k \in T
    BY <2>3, <2>4, <2>5, UpTo
  <2>7. lo - 1 = 0 \/ lo - 1 \in 1..(lo - 1)
    BY <2>3
  <2>8. lo - 1 \in T
    BY <2>1, <2>6, <2>7
  <2> QED
    BY <2>8 DEF T
<1>11. ~f[hi].in
  <2> DEFINE T == {k \in Nat : k <= n - hi => ~f[n - k].in}
  <2>1. 0 \in T
    <3>1. n - 0 = n
      OBVIOUS
    <3>2. f[n].ok /\ ~f[n].in
      BY <1>4 DEF WholeStrings
    <3> QED
      BY <3>1, <3>2
  <2>2. ASSUME NEW k \in Nat, k \in T
        PROVE  k + 1 \in T
    <3> SUFFICES ASSUME k + 1 <= n - hi
                 PROVE  ~f[n - (k + 1)].in
      OBVIOUS
    <3>1. PICK l : l = n - k
      OBVIOUS
    <3>2. l \in 1..n /\ l > hi /\ n - (k + 1) = l - 1 /\ ~f[l].in
      BY <1>3, <2>2, <3>1
    <3>3. f[l].in = f[l - 1].in
      BY <1>9, <3>2
    <3> QED
      BY <3>2, <3>3
  <2>3. 1 \in T
    <3>1. 0 + 1 \in T
      BY <2>1, <2>2
    <3> QED
      BY <3>1
  <2>4. n - hi \in Nat /\ n - (n - hi) = hi /\ (n - hi = 0 \/ n - hi \in 1..(n - hi))
    BY <1>3
  <2>5. \A k \in 1..((n - hi) - 1) : k \in T => k + 1 \in T
    BY <2>2
  <2> HIDE DEF T
  <2>6. \A k \in 1..(n - hi) : k \in T
    BY <2>3, <2>4, <2>5, UpTo
  <2>7. n - hi \in T
    BY <2>1, <2>4, <2>6
  <2> QED
    BY <2>4, <2>7 DEF T
<1>12. /\ g[0] = NoString
       /\ \A k \in 1..m : g[k] = ReadOne(text, g[k - 1], r[k]) /\ r[k] = s[lo + k - 1]
  BY <1>1, <1>2, <1>5, <1>6 DEF Knows
<1>13. g[1] = f[lo]
  <2>1. 1 \in 1..m /\ 1 - 1 = 0 /\ lo + 1 - 1 = lo
    BY <1>5
  <2>2. g[1] = ReadOne(text, NoString, s[lo])
    BY <1>12, <2>1
  <2>3. lo \in 1..n /\ lo - 1 \in 0..n
    BY <1>3
  <2>4. s[lo] # 0
    BY <1>1 DEF BlankAt
  <2>5. f[lo] = ReadOne(text, f[lo - 1], s[lo]) /\ f[lo - 1] \in Ends /\ f[lo - 1].ok
    BY <1>7, <1>8, <2>3
  <2> QED
    BY <1>10, <2>2, <2>4, <2>5, ReadsAnew
<1> DEFINE U == {k \in Nat : g[k] = f[lo + k - 1]}
<1>14. 1 \in U
  <2>1. lo + 1 - 1 = lo
    OBVIOUS
  <2> QED
    BY <1>13, <2>1
<1>15. ASSUME NEW k \in 1..(m - 1), k \in U
       PROVE  k + 1 \in U
  <2>1. k + 1 \in 1..m /\ (k + 1) - 1 = k /\ k + 1 \in Nat
    BY <1>5
  <2>2. PICK l : l = lo + (k + 1) - 1
    OBVIOUS
  <2>3. l \in 1..n /\ l - 1 = lo + k - 1
    BY <1>3, <1>5, <2>1, <2>2
  <2>4. g[k + 1] = ReadOne(text, g[k], s[l])
    BY <1>12, <2>1, <2>2
  <2>5. f[l] = ReadOne(text, f[l - 1], s[l])
    BY <1>7, <2>3
  <2> QED
    BY <1>15, <2>1, <2>2, <2>3, <2>4, <2>5
<1> HIDE DEF U
<1>16. \A k \in 1..m : k \in U
  BY <1>14, <1>15, UpTo
<1>17. m \in U /\ lo + m - 1 = hi /\ hi \in 0..n
  BY <1>3, <1>5, <1>16
<1>18. g[m] = f[hi]
  BY <1>17 DEF U
<1> QED
  BY <1>2, <1>6, <1>8, <1>11, <1>17, <1>18 DEF WholeStrings

\* The string that the scanner is in is the one that what was read has open.
StringOK ==
    LET end == EndsIn(text, b)
    IN  /\ end.ok
        /\ end.in = quote
        /\ quote => end.esc = escape /\ end.last = i - 1
        /\ escape => quote

OutWhole(o) == \A k \in 1..Len(o) : WholeStrings(text, o[k].text)

StringInv == ScanInv /\ StringOK /\ OutWhole(out)

\* A further statement with whole strings.
LEMMA AppendWhole ==
    ASSUME NEW o \in Seq(Entry), OutWhole(o), NEW e \in Entry, WholeStrings(text, e.text)
    PROVE  OutWhole(Append(o, e))
<1>1. PICK a, m : a = Append(o, e) /\ m = Len(o)
  OBVIOUS
<1>2. m \in Nat /\ Len(a) = m + 1 /\ a[m + 1] = e /\ \A k \in 1..m : a[k] = o[k]
  BY <1>1, LenProperties, AppendProperties
<1>3. ASSUME NEW k \in 1..Len(a)
      PROVE  WholeStrings(text, a[k].text)
  <2>1. k \in 1..m \/ k = m + 1
    BY <1>2
  <2>2. \A l \in 1..m : WholeStrings(text, o[l].text)
    BY <1>1 DEF OutWhole
  <2>3. CASE k \in 1..m
    <3>1. a[k] = o[k]
      BY <1>2, <2>3
    <3> QED
      BY <2>2, <2>3, <3>1
  <2>4. CASE k = m + 1
    <3>1. a[k] = e
      BY <1>2, <2>4
    <3> QED
      BY <3>1
  <2> QED
    BY <2>1, <2>3, <2>4
<1> QED
  BY <1>1, <1>3 DEF OutWhole

\* Outside of a string, what was read is whole, and so is the statement made of it.
LEMMA EmittedWhole ==
    ASSUME TypeOK, StringOK, OutWhole(out), ~quote, NEW x \in Nat
    PROVE  EmittedAt(x) \in Seq(Entry) /\ OutWhole(EmittedAt(x))
<1>1. b \in Seq(Nat) /\ out \in Seq(Entry)
  BY DEF TypeOK
<1>2. CASE Trimmed(b) = <<>>
  BY <1>1, <1>2 DEF EmittedAt
<1>3. CASE Trimmed(b) # <<>>
  <2>1. WholeStrings(text, b)
    BY DEF StringOK, WholeStrings
  <2>2. WholeStrings(text, Trimmed(b)) /\ Trimmed(b) \in Seq(Nat)
    BY <1>1, <1>3, <2>1, TrimmedStrings, TrimmedLemma
  <2>3. PICK e : e = [text |-> Trimmed(b), pos |-> x]
    OBVIOUS
  <2>4. e \in Entry /\ e.text = Trimmed(b)
    BY <2>2, <2>3 DEF Entry
  <2>5. Append(out, e) \in Seq(Entry) /\ OutWhole(Append(out, e))
    BY <1>1, <2>2, <2>4, AppendWhole, AppendProperties
  <2> QED
    BY <1>3, <2>3, <2>5 DEF EmittedAt
<1> QED
  BY <1>2, <1>3

\* A brace is a statement without strings.
LEMMA BraceWhole ==
    ASSUME NEW p \in 1..Len(text), text[p] # "quote", Len(text) \in Nat
    PROVE  WholeStrings(text, <<p>>) /\ <<p>> \in Seq(Nat)
<1>1. p \in Nat /\ p # 0 /\ <<>> \in Seq(Nat)
  OBVIOUS
<1>2. Append(<<>>, p) = <<p>> /\ <<p>> \in Seq(Nat)
  BY <1>1
<1>3. EndsIn(text, Append(<<>>, p)) = ReadOne(text, NoString, p)
  BY <1>1, EndsAppended, EndsEmpty
<1>4. ReadOne(text, NoString, p) = [in |-> text[p] = "quote", esc |-> FALSE, ok |-> TRUE, last |-> p]
  BY <1>1 DEF ReadOne, Reads, NoString
<1>5. (text[p] = "quote") = FALSE
  OBVIOUS
<1>6. PICK end : end = [in |-> FALSE, esc |-> FALSE, ok |-> TRUE, last |-> p]
  OBVIOUS
<1>7. end.in = FALSE /\ end.ok = TRUE
  BY <1>6
<1>8. EndsIn(text, <<p>>) = end
  BY <1>2, <1>3, <1>4, <1>5, <1>6
<1>9. WholeStrings(text, <<p>>)
  BY <1>7, <1>8 DEF WholeStrings
<1> QED
  BY <1>2, <1>9

\* The statements stay whole while none is added.
LEMMA OutStays ==
    ASSUME text' = text, OutWhole(out), out' = out
    PROVE  OutWhole(out)'
<1>1. \A k \in 1..Len(out) : WholeStrings(text', out[k].text)
  BY DEF OutWhole
<1>2. \A k \in 1..Len(out') : WholeStrings(text', out'[k].text)
  BY <1>1
<1> QED
  BY <1>2 DEF OutWhole

\* What was read stays as it is.
LEMMA StringsWait ==
    ASSUME StringOK, text' = text, b' = b, quote' = quote, escape' = escape, quote => i' = i
    PROVE  StringOK'
<1>1. EndsIn(text, b)' = EndsIn(text, b)
  OBVIOUS
<1> QED
  BY <1>1 DEF StringOK

\* What was read ends, outside of a string.
LEMMA StringsEnd ==
    ASSUME StringOK, text' = text, b' = <<>>, ~quote, ~quote', escape' = escape, quote' \in BOOLEAN
    PROVE  StringOK'
<1>1. EndsIn(text', b') = NoString
  BY EndsEmpty
<1>2. EndsIn(text', b').ok /\ EndsIn(text', b').in = FALSE
  BY <1>1 DEF NoString
<1> QED
  BY <1>2 DEF StringOK

\* A place is added to what was read.
LEMMA StringsGrow ==
    ASSUME TypeOK, StringOK, text' = text, NEW p \in Nat, b' = Append(b, p)
    PROVE  /\ EndsIn(text, b) \in Ends
           /\ EndsIn(text', b') = ReadOne(text, EndsIn(text, b), p)
<1>1. b \in Seq(Nat)
  BY DEF TypeOK
<1>2. EndsIn(text, b) \in Ends /\ EndsIn(text, Append(b, p)) = ReadOne(text, EndsIn(text, b), p)
  BY <1>1, EndsAppended
<1> QED
  BY <1>2

\* Outside of strings: a character that is kept opens a string or not.
LEMMA StringsOutside ==
    ASSUME TypeOK, StringOK, text' = text, ~quote, i \in Nat, i # 0, b' = Append(b, i),
           quote' = (text[i] = "quote"), escape' = escape, i' = i + 1
    PROVE  StringOK'
<1>1. PICK end : end = EndsIn(text, b)
  OBVIOUS
<1>2. end \in Ends /\ EndsIn(text', b') = ReadOne(text, end, i)
  BY <1>1, StringsGrow
<1>3. ~end.in /\ end.ok /\ ~escape /\ escape \in BOOLEAN
  BY <1>1 DEF StringOK, TypeOK
<1>4. ReadOne(text, end, i) = [in |-> text[i] = "quote", esc |-> FALSE, ok |-> end.ok, last |-> i]
  BY <1>3 DEF ReadOne, Reads
<1>5. PICK new : new = EndsIn(text', b')
  OBVIOUS
<1>6. new.ok /\ new.in = quote' /\ new.esc = escape' /\ new.last = i' - 1
  <2>1. new = [in |-> text[i] = "quote", esc |-> FALSE, ok |-> end.ok, last |-> i]
    BY <1>2, <1>4, <1>5
  <2>2. new.in = (text[i] = "quote") /\ new.esc = FALSE /\ new.ok = end.ok /\ new.last = i
    BY <2>1
  <2>3. escape = FALSE
    BY <1>3
  <2>4. i = i' - 1
    OBVIOUS
  <2>5. new.in = quote'
    BY <2>2
  <2>6. new.esc = escape'
    BY <2>2, <2>3
  <2> QED
    BY <1>3, <2>2, <2>4, <2>5, <2>6
<1> QED
  BY <1>3, <1>5, <1>6 DEF StringOK

----------------------------------------------------------------------------
(* The steps, for strings *)

\* In a string every character is kept.
LEMMA InStringStrings == StringInv /\ InString => StringOK'
<1> SUFFICES ASSUME StringInv, InString
             PROVE  StringOK'
  OBVIOUS
<1>1. TypeOK /\ StringOK /\ quote /\ i \in Nat /\ i # 0
  BY LenProperties DEF StringInv, ScanInv, InString, TypeOK
<1>2. /\ b' = Append(b, i) /\ text' = text /\ i' = i + 1
      /\ escape' = (~escape /\ text[i] = "backslash")
      /\ quote' = (escape \/ text[i] # "quote")
  BY DEF InString, Char
<1>3. PICK end : end = EndsIn(text, b)
  OBVIOUS
<1>4. end \in Ends /\ EndsIn(text', b') = ReadOne(text, end, i)
  BY <1>1, <1>2, <1>3, StringsGrow
<1>5. end.in /\ end.ok /\ end.esc = escape /\ end.last = i - 1
  BY <1>1, <1>3 DEF StringOK
<1>6. ReadOne(text, end, i) = [in |-> end.esc \/ text[i] # "quote",
                                esc |-> ~end.esc /\ text[i] = "backslash",
                                ok |-> end.ok /\ i = end.last + 1, last |-> i]
  BY <1>1, <1>5 DEF ReadOne, Reads
<1>7. i = end.last + 1 /\ i' - 1 = i
  BY <1>1, <1>2, <1>5
<1>8. PICK new : new = EndsIn(text', b')
  OBVIOUS
<1>9. new.ok /\ new.in = quote' /\ new.esc = escape' /\ new.last = i' - 1
  <2>1. new = [in |-> end.esc \/ text[i] # "quote", esc |-> ~end.esc /\ text[i] = "backslash",
               ok |-> end.ok /\ i = end.last + 1, last |-> i]
    BY <1>4, <1>6, <1>8
  <2>2. new.in = (end.esc \/ text[i] # "quote")
    BY <2>1
  <2>3. new.esc = (~end.esc /\ text[i] = "backslash")
    BY <2>1
  <2>4. new.ok = (end.ok /\ i = end.last + 1) /\ new.last = i
    BY <2>1
  <2>5. new.in = quote'
    BY <1>2, <1>5, <2>2
  <2>6. new.esc = escape'
    BY <1>2, <1>5, <2>3
  <2>7. new.ok
    BY <1>5, <1>7, <2>4
  <2> QED
    BY <1>7, <2>4, <2>5, <2>6, <2>7
<1>10. escape' => quote'
  BY <1>2
<1> QED
  BY <1>8, <1>9, <1>10 DEF StringOK

\* A string begins where none is open.
LEMMA BeginStringStrings == StringInv /\ BeginString => StringOK'
<1> SUFFICES ASSUME StringInv, BeginString
             PROVE  StringOK'
  OBVIOUS
<1>1. TypeOK /\ StringOK /\ ~quote /\ i \in Nat /\ i # 0
  BY LenProperties DEF StringInv, ScanInv, BeginString, Outside, TypeOK
<1>2. /\ b' = Append(b, i) /\ text' = text /\ i' = i + 1 /\ escape' = escape
      /\ quote' = (text[i] = "quote")
  BY DEF BeginString, Char
<1> QED
  BY <1>1, <1>2, StringsOutside

\* What is kept outside of strings opens none.
LEMMA KeepStrings == StringInv /\ Keep => StringOK'
<1> SUFFICES ASSUME StringInv, Keep
             PROVE  StringOK'
  OBVIOUS
<1>1. TypeOK /\ StringOK /\ ~quote /\ quote \in BOOLEAN /\ i \in Nat /\ i # 0
  <2>1. TypeOK /\ StringOK
    BY DEF StringInv, ScanInv
  <2>2. ~quote
    BY DEF Keep, Outside
  <2>3. i \in Nat /\ i # 0 /\ quote \in BOOLEAN
    BY <2>1, LenProperties DEF TypeOK
  <2> QED
    BY <2>1, <2>2, <2>3
<1>2. /\ b' = Append(b, i) /\ text' = text /\ i' = i + 1 /\ escape' = escape
      /\ quote' = (text[i] = "quote")
  BY <1>1 DEF Keep, Char
<1> QED
  BY <1>1, <1>2, StringsOutside

\* The blank of a continuation is in no string.
LEMMA ContinuationStrings == StringInv /\ Continuation => StringOK'
<1> SUFFICES ASSUME StringInv, Continuation
             PROVE  StringOK'
  OBVIOUS
<1>1. TypeOK /\ StringOK /\ ~quote /\ quote \in BOOLEAN
  BY DEF StringInv, ScanInv, Continuation, Outside, TypeOK
<1>2. b' = Append(b, 0) /\ text' = text /\ escape' = escape /\ quote' = quote
  BY DEF Continuation
<1>3. PICK end : end = EndsIn(text, b)
  OBVIOUS
<1>4. end \in Ends /\ EndsIn(text', b') = ReadOne(text, end, 0)
  <2>1. 0 \in Nat
    OBVIOUS
  <2> QED
    BY <1>1, <1>2, <1>3, <2>1, StringsGrow
<1>5. ~end.in /\ end.ok /\ end.in = quote /\ ~escape
  BY <1>1, <1>3 DEF StringOK
<1>6. PICK new : new = EndsIn(text', b')
  OBVIOUS
<1>7. new = [end EXCEPT !.ok = @ /\ ~end.in]
  BY <1>4, <1>6 DEF ReadOne
<1>8. new.ok /\ new.in = end.in
  BY <1>4, <1>5, <1>7 DEF Ends
<1>9. new.in = quote'
  BY <1>2, <1>5, <1>8
<1> QED
  BY <1>1, <1>2, <1>5, <1>6, <1>8, <1>9 DEF StringOK

\* The actions that make statements of what was read.
LEMMA EndingStrings ==
    StringInv /\ (LineComment \/ EndOfLine \/ EndOfStatement) => StringOK' /\ OutWhole(out)'
<1> SUFFICES ASSUME StringInv, LineComment \/ EndOfLine \/ EndOfStatement
             PROVE  StringOK' /\ OutWhole(out)'
  OBVIOUS
<1>1. /\ TypeOK /\ LineOK /\ StringOK /\ OutWhole(out) /\ ~quote /\ quote \in BOOLEAN
      /\ i \in 1..Len(text) /\ Len(text) \in Nat /\ start \in Nat /\ line \in Nat
  <2>1. TypeOK /\ LineOK /\ StringOK /\ OutWhole(out)
    BY DEF StringInv, ScanInv
  <2>2. Outside
    BY DEF LineComment, EndOfLine, EndOfStatement
  <2>3. ~quote /\ i <= Len(text)
    BY <2>2 DEF Outside, Reading
  <2>4. quote \in BOOLEAN /\ Len(text) \in Nat /\ i \in 1..(Len(text) + 1)
        /\ start \in Nat /\ line \in Nat
    BY <2>1, LenProperties DEF TypeOK
  <2> QED
    BY <2>1, <2>3, <2>4
<1>2. b' = <<>> /\ text' = text /\ escape' = escape /\ quote' = quote
  BY DEF LineComment, EndOfLine, EndOfStatement
<1>3. StringOK'
  BY <1>1, <1>2, StringsEnd
<1>4. ASSUME NEW x \in Nat
      PROVE  EmittedAt(x) \in Seq(Entry) /\ OutWhole(EmittedAt(x))
  BY <1>1, EmittedWhole
<1>5. Emitted = EmittedAt(start)
  BY DEF Emitted, EmittedAt
<1>6. OutWhole(out')
  <2>1. CASE LineComment
    <3>1. out' = EmittedAt(StartHere)
      BY <2>1 DEF LineComment, EmittedAt
    <3>2. StartHere \in Nat
      BY <1>1, StartLemma
    <3> QED
      BY <1>4, <3>1, <3>2
  <2>2. CASE EndOfLine
    <3>1. out' = EmittedAt(start)
      BY <1>5, <2>2 DEF EndOfLine
    <3> QED
      BY <1>1, <1>4, <3>1
  <2>3. CASE EndOfStatement
    <3>1. CASE Char = ";"
      <4>1. out' = EmittedAt(start)
        BY <1>5, <2>3, <3>1 DEF EndOfStatement
      <4> QED
        BY <1>1, <1>4, <4>1
    <3>2. CASE Char = "{"
      <4>1. PICK o : o = EmittedAt(start) /\ o \in Seq(Entry) /\ OutWhole(o)
        BY <1>1, <1>4
      <4>2. PICK e : e = [text |-> <<i>>, pos |-> line]
        OBVIOUS
      <4>3. out' = Append(o, e)
        <5>1. Char # ";"
          BY <3>2
        <5> QED
          BY <1>5, <2>3, <4>1, <4>2, <5>1 DEF EndOfStatement
      <4>4. text[i] # "quote"
        BY <3>2 DEF Char
      <4>5. WholeStrings(text, <<i>>) /\ <<i>> \in Seq(Nat)
        BY <1>1, <4>4, BraceWhole
      <4>6. e \in Entry /\ e.text = <<i>>
        BY <1>1, <4>2, <4>5 DEF Entry
      <4>7. OutWhole(Append(o, e))
        BY <4>1, <4>5, <4>6, AppendWhole
      <4> QED
        BY <4>3, <4>7
    <3> QED
      BY <2>3, <3>1, <3>2 DEF EndOfStatement
  <2> QED
    BY <2>1, <2>2, <2>3
<1>7. OutWhole(out)'
  <2>1. \A k \in 1..Len(out') : WholeStrings(text', out'[k].text)
    BY <1>2, <1>6 DEF OutWhole
  <2> QED
    BY <2>1 DEF OutWhole
<1> QED
  BY <1>3, <1>7

\* The last statement is made outside of strings only.
LEMMA EndOfTextStrings == StringInv /\ EndOfText => StringOK' /\ OutWhole(out)'
<1> SUFFICES ASSUME StringInv, EndOfText
             PROVE  StringOK' /\ OutWhole(out)'
  OBVIOUS
<1>1. TypeOK /\ StringOK /\ OutWhole(out) /\ quote \in BOOLEAN /\ start \in Nat
  BY DEF StringInv, ScanInv, TypeOK
<1>2. text' = text /\ i' = i /\ escape' = escape /\ quote' = quote
  BY DEF EndOfText
<1>3. CASE quote \/ comment
  <2>1. b' = b /\ out' = out
    BY <1>3 DEF EndOfText
  <2> QED
    BY <1>1, <1>2, <2>1, StringsWait, OutStays
<1>4. CASE ~(quote \/ comment)
  <2>1. b' = <<>> /\ out' = EmittedAt(start) /\ ~quote
    BY <1>4 DEF EndOfText, Emitted, EmittedAt
  <2>2. StringOK'
    BY <1>1, <1>2, <2>1, StringsEnd
  <2>3. OutWhole(out')
    BY <1>1, <2>1, EmittedWhole
  <2>4. \A k \in 1..Len(out') : WholeStrings(text', out'[k].text)
    BY <1>2, <2>3 DEF OutWhole
  <2> QED
    BY <2>2, <2>4 DEF OutWhole
<1> QED
  BY <1>3, <1>4

\* No step breaks a string.
LEMMA StringsStep == StringInv /\ [Next]_vars => StringOK' /\ OutWhole(out)'
<1> SUFFICES ASSUME StringInv, [Next]_vars
             PROVE  StringOK' /\ OutWhole(out)'
  OBVIOUS
<1>1. TypeOK /\ BufferOK /\ StringOK /\ OutWhole(out)
  BY DEF StringInv, ScanInv
<1>2. CASE InComment \/ BeginComment \/ DropStar
  <2>1. text' = text /\ b' = b /\ quote' = quote /\ escape' = escape /\ out' = out /\ ~quote
    BY <1>1, <1>2 DEF InComment, BeginComment, DropStar, Outside, BufferOK
  <2> QED
    BY <1>1, <2>1, StringsWait, OutStays
<1>3. CASE InString \/ BeginString \/ Keep \/ Continuation
  <2>1. text' = text /\ out' = out
    BY <1>3 DEF InString, BeginString, Keep, Continuation
  <2> QED
    BY <1>1, <1>3, <2>1, OutStays, InStringStrings, BeginStringStrings, KeepStrings, ContinuationStrings
<1>4. CASE UNCHANGED vars
  <2>1. text' = text /\ b' = b /\ quote' = quote /\ escape' = escape /\ out' = out /\ i' = i
    BY <1>4 DEF vars
  <2> QED
    BY <1>1, <2>1, StringsWait, OutStays
<1> QED
  BY <1>2, <1>3, <1>4, EndingStrings, EndOfTextStrings DEF Next

----------------------------------------------------------------------------
(* The theorems *)

\* Whatever the file and the corrections, the scanner keeps its invariant.
THEOREM ScanInvariant == Spec => []ScanInv
<1>1. Init => ScanInv
  BY ScanInit
<1>2. ScanInv /\ [Next]_vars => ScanInv'
  BY ScanStep
<1> QED
  BY <1>1, <1>2, PTL DEF Spec

\* The variables of scanPolicy keep to their types: a place is in the file or just
\* behind it, and a statement is a list of places with a line.
THEOREM TypeCorrect == Spec => []TypeOK
<1>1. ScanInv => TypeOK
  BY DEF ScanInv
<1> QED
  BY <1>1, ScanInvariant, PTL

\* The lines of the statements of a file never decrease, and none is behind the line
\* of the statement's first character.
THEOREM PositionsOrdered == Spec => []PositionsAreOrdered
<1>1. ScanInv => PositionsAreOrdered
  <2> SUFFICES ASSUME ScanInv, NEW k \in DOMAIN out
               PROVE  /\ k > 1 => out[k - 1].pos <= out[k].pos
                      /\ out[k].pos <= LineOf(out[k].text[1])
    BY DEF PositionsAreOrdered
  <2>1. out \in Seq(Entry) /\ OutGood(out, start)
    BY DEF ScanInv, TypeOK
  <2>2. k \in 1..Len(out)
    BY <2>1
  <2> QED
    BY <2>1, <2>2 DEF OutGood, Sound
<1> QED
  BY <1>1, ScanInvariant, PTL

\* A line that ends outside of strings and comments ends the statement: two characters
\* that stand together in a statement are of one line, or of a string, or have a
\* continuation or a block comment between them.
THEOREM StatementsEndWithLines == Spec => []LinesEndStatements
<1>1. ScanInv => LinesEndStatements
  <2> SUFFICES ASSUME ScanInv, NEW k \in DOMAIN out, NEW n \in 1..(Len(out[k].text) - 1),
                      NEW p, NEW q, p = out[k].text[n], q = out[k].text[n + 1],
                      p # 0, q # 0, ~SameLine(p, q)
               PROVE  \/ q = p + 1 /\ text[p] = "newline"
                      \/ \E r \in (p + 1)..(q - 1) : Opens(r)
    BY DEF LinesEndStatements
  <2>1. out \in Seq(Entry) /\ OutGood(out, start)
    BY DEF ScanInv, TypeOK
  <2>2. k \in 1..Len(out)
    BY <2>1
  <2>3. Whole(out[k].text) /\ \A m \in 1..Len(out[k].text) : out[k].text[m] <= Len(text)
    BY <2>1, <2>2 DEF OutGood, Sound
  <2>4. PICK t : t = out[k].text
    OBVIOUS
  <2>5. t \in Seq(Nat) /\ Len(t) \in Nat /\ Len(text) \in Nat
    <3>1. out[k] \in Entry
      BY <2>1, <2>2, ElementOfSeq
    <3>2. t \in Seq(Nat)
      BY <2>4, <3>1 DEF Entry
    <3> QED
      BY <3>2, LenProperties DEF ScanInv, TypeOK
  <2>6. n \in 1..Len(t) /\ n + 1 \in 1..Len(t) /\ n \in 1..(Len(t) - 1)
    BY <2>4, <2>5
  <2>7. p \in Nat /\ q \in Nat /\ p <= Len(text) /\ q <= Len(text)
    BY <2>3, <2>4, <2>5, <2>6, ElementOfSeq
  <2>8. p \in 1..Len(text) /\ q \in 1..Len(text)
    BY <2>5, <2>7
  <2>9. Joins(p, q)
    BY <2>3, <2>4, <2>6, <2>8 DEF Whole
  <2> QED
    BY <2>9 DEF Joins
<1> QED
  BY <1>1, ScanInvariant, PTL

\* Once a file is read, each of its letters is in a statement, or stands behind what
\* takes the rest of its line away, or behind a block comment.
THEOREM LettersAreKept == Spec => []NoLetterIsLost
<1>1. ScanInv => NoLetterIsLost
  <2> SUFFICES ASSUME ScanInv, phase = "done", NEW p \in DOMAIN text, IsLetter(p), p \notin Kept
               PROVE  Excused(p)
    BY DEF NoLetterIsLost, IsLetter, Excused, AliasAt
  <2>1. TypeOK /\ LettersOK
    BY DEF ScanInv
  <2>2. p \in 1..(i - 1) /\ b = <<>>
    BY <2>1, LenProperties DEF TypeOK, LettersOK
  <2>3. ~InBuffer(p)
    BY <2>2 DEF InBuffer
  <2>4. ASSUME NEW k \in 1..Len(out), NEW n \in 1..Len(out[k].text), out[k].text[n] = p
        PROVE  FALSE
    <3>1. out \in Seq(Entry) /\ out[k] \in Entry
      BY <2>1, ElementOfSeq DEF TypeOK
    <3>2. k \in DOMAIN out /\ out[k].text \in Seq(Nat)
      BY <3>1 DEF Entry
    <3>3. p \in ToSet(out[k].text)
      BY <2>4, <3>2 DEF ToSet
    <3> QED
      BY <3>2, <3>3 DEF Kept
  <2>5. ~InStatements(p, out)
    BY <2>4 DEF InStatements
  <2> QED
    BY <2>1, <2>2, <2>3, <2>5 DEF LettersOK
<1> QED
  BY <1>1, ScanInvariant, PTL

\* In every statement a string is the string of the file, from its first to its last
\* quote, with nothing left out and nothing put in, and is closed.
THEOREM StringsAreWhole == Spec => []StringsStayWhole
<1>1. Init => StringInv
  <2> SUFFICES ASSUME Init
               PROVE  StringInv
    OBVIOUS
  <2>1. b = <<>> /\ quote = FALSE /\ escape = FALSE /\ out = <<>>
    BY DEF Init
  <2>2. EndsIn(text, b) = NoString
    BY <2>1, EndsEmpty
  <2>3. EndsIn(text, b).ok /\ EndsIn(text, b).in = FALSE
    BY <2>2 DEF NoString
  <2>4. StringOK
    BY <2>1, <2>3 DEF StringOK
  <2>5. Len(out) = 0
    BY <2>1
  <2> QED
    BY <2>4, <2>5, ScanInit DEF StringInv, OutWhole
<1>2. StringInv /\ [Next]_vars => StringInv'
  BY ScanStep, StringsStep DEF StringInv
<1>3. StringInv => StringsStayWhole
  <2> SUFFICES ASSUME StringInv, NEW k \in DOMAIN out
               PROVE  StringEnds(out[k].text).ok /\ ~StringEnds(out[k].text).in
    BY DEF StringsStayWhole
  <2>1. k \in 1..Len(out)
    BY LenProperties DEF StringInv, ScanInv, TypeOK
  <2>2. EndsIn(text, out[k].text).ok /\ ~EndsIn(text, out[k].text).in
    BY <2>1 DEF StringInv, OutWhole, WholeStrings
  <2>3. PICK s : s = out[k].text
    OBVIOUS
  <2>4. StringEnds(s) = EndsIn(text, s)
    BY DEF StringEnds, FoldLeft, MapThenFoldSet, EndsIn, ReadOne, Reads, NoString
  <2> QED
    BY <2>2, <2>3, <2>4
<1> QED
  BY <1>1, <1>2, <1>3, PTL DEF Spec

=============================================================================
