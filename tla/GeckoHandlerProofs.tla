------------------------ MODULE GeckoHandlerProofs ------------------------
(***************************************************************************)
(* Theorems about GeckoHandler, for all scripts, addresses and sizes: the  *)
(* code handler goes from statement to statement, and never into data, and *)
(* writes what the source says.                                            *)
(***************************************************************************)
EXTENDS GeckoHandler, Lists

----------------------------------------------------------------------------
(* Commands in a list of words *)

Heads == {"ba", "po", "reset", "if", "endif", "00", "02", "04", "06", "16", "c2", "other"}
Byte == [src : Nat, at : Nat]
Word == [op : Heads \cup {"number", "bytes"}, n : Int, bytes : Seq(Byte)]

\* The words the handler takes for the command at p of w.
Length(w, p) ==
    IF w[p].op \in {"06", "16"} THEN 2 + 2 * ((w[p + 1].n + 7) \div 8)
    ELSE IF w[p].op = "c2" THEN 2 + 2 * w[p + 1].n
    ELSE 2

\* The commands of a statement, from s up to e, are at the places ps: from each of
\* them the handler gets to another one, or to the end.
Laid(w, s, e, ps) ==
    /\ s \in Nat \ {0} /\ e \in Nat /\ ps \in SUBSET Nat
    /\ \A p \in ps :
           /\ s <= p /\ p + 2 <= e
           /\ w[p].op \in Heads
           /\ Length(w, p) \in Nat
           /\ p + Length(w, p) \in ps \cup {e}
           /\ p \notin {s, s + 2} => w[p].op = "reset"

----------------------------------------------------------------------------
(* The inductive invariant *)

FarWrite(st) == IsWrite(st) /\ IsFar(st)

\* A far write has a command in front of its code and a reset behind it.
Commands(st, s, e) == IF FarWrite(st) THEN {s, s + 2, e - 2} ELSE {s}

End(k) == IF k = Len(starts) THEN Len(words) + 1 ELSE starts[k + 1]
CommandsOf(k) == Commands(statements[k], starts[k], End(k))

TypeOK ==
    /\ phase \in {"encode", "run", "done", "failed"}
    /\ statements \in Seq(Statement)
    /\ words \in Seq(Word)
    /\ starts \in Seq(Nat)
    /\ Len(starts) = Len(statements)
    /\ ip \in Nat

\* The statements follow each other from the first word to the last.
LayoutOK ==
    /\ starts = <<>> => words = <<>>
    /\ starts # <<>> => starts[1] = 1
    /\ \A k, l \in 1..Len(starts) : k < l => starts[k] < starts[l]
    /\ \A k \in 1..Len(starts) : starts[k] <= Len(words)
    /\ \A k \in 1..Len(starts) : Laid(words, starts[k], End(k), CommandsOf(k))

\* The handler is at a command, or at the end.
PlaceOK ==
    /\ phase \in {"encode", "failed"} => ip = 1
    /\ phase \in {"run", "done"} =>
           \/ ip = Len(words) + 1
           \/ \E k \in 1..Len(starts) : ip \in CommandsOf(k)

HandlerInv == TypeOK /\ LayoutOK /\ PlaceOK

----------------------------------------------------------------------------
(* Lemmas about words *)

\* What two lists have in common from s up to e is laid out alike.
LEMMA LaidAlike ==
    ASSUME NEW w, NEW v, NEW s, NEW e, NEW d \in Nat, NEW ps, NEW qs, Laid(w, s, e, ps),
           qs = {p + d : p \in ps}, \A p \in s..(e - 1) : v[p + d] = w[p]
    PROVE  Laid(v, s + d, e + d, qs)
<1>1. s \in Nat /\ s # 0 /\ e \in Nat /\ ps \in SUBSET Nat
  BY DEF Laid
<1>2. ASSUME NEW p \in ps
      PROVE  /\ s + d <= p + d /\ (p + d) + 2 <= e + d
             /\ v[p + d].op \in Heads
             /\ Length(v, p + d) \in Nat
             /\ (p + d) + Length(v, p + d) \in qs \cup {e + d}
             /\ p + d \notin {s + d, (s + d) + 2} => v[p + d].op = "reset"
  <2>1. /\ s <= p /\ p + 2 <= e
        /\ w[p].op \in Heads
        /\ Length(w, p) \in Nat
        /\ p + Length(w, p) \in ps \cup {e}
        /\ p \notin {s, s + 2} => w[p].op = "reset"
    BY DEF Laid
  <2>2. p \in Nat
    BY <1>1
  <2>3. p \in s..(e - 1) /\ p + 1 \in s..(e - 1)
    BY <1>1, <2>1, <2>2
  <2>4. v[p + d] = w[p]
    BY <2>3
  <2>5. v[(p + 1) + d] = w[p + 1] /\ (p + 1) + d = (p + d) + 1
    BY <2>2, <2>3
  <2>6. Length(v, p + d) = Length(w, p)
    BY <2>4, <2>5 DEF Length
  <2>7. PICK n \in Nat : n = Length(w, p)
    BY <2>1
  <2>8. (p + d) + n = (p + n) + d
    BY <2>2, <2>7
  <2>9. (p + d) + n \in qs \cup {e + d}
    BY <2>1, <2>7, <2>8
  <2> QED
    BY <1>1, <2>1, <2>2, <2>4, <2>6, <2>7, <2>9
<1>3. s + d \in Nat \ {0} /\ e + d \in Nat /\ qs \in SUBSET Nat
  BY <1>1
<1> QED
  BY <1>2, <1>3 DEF Laid

\* What is laid out stays so when words follow.
LEMMA LaidBefore ==
    ASSUME NEW w \in Seq(Word), NEW v \in Seq(Word), NEW s, NEW e, NEW ps,
           Laid(w, s, e, ps), e <= Len(w) + 1
    PROVE  Laid(w \o v, s, e, ps)
<1>1. s \in Nat /\ s # 0 /\ e \in Nat /\ ps \in SUBSET Nat
  BY DEF Laid
<1>2. Len(w) \in Nat
  BY LenProperties
<1>3. \A p \in s..(e - 1) : (w \o v)[p + 0] = w[p]
  <2> SUFFICES ASSUME NEW p \in s..(e - 1)
               PROVE  (w \o v)[p + 0] = w[p]
    OBVIOUS
  <2>1. p + 0 = p /\ p \in 1..Len(w)
    BY <1>1, <1>2
  <2> QED
    BY <2>1, ConcatProperties
<1>4. ps = {p + 0 : p \in ps}
  <2>1. \A p \in ps : p + 0 = p
    BY <1>1
  <2> QED
    BY <2>1
<1>5. Laid(w \o v, s + 0, e + 0, ps)
  BY <1>3, <1>4, LaidAlike
<1>6. s + 0 = s /\ e + 0 = e
  BY <1>1
<1> QED
  BY <1>5, <1>6

\* What is laid out is so behind other words.
LEMMA LaidBehind ==
    ASSUME NEW w \in Seq(Word), NEW v \in Seq(Word), NEW ps, NEW qs,
           Laid(v, 1, Len(v) + 1, ps), qs = {p + Len(w) : p \in ps}
    PROVE  Laid(w \o v, Len(w) + 1, Len(w) + Len(v) + 1, qs)
<1>1. Len(w) \in Nat /\ Len(v) \in Nat
  BY LenProperties
<1>2. \A p \in 1..((Len(v) + 1) - 1) : (w \o v)[p + Len(w)] = v[p]
  <2> SUFFICES ASSUME NEW p \in 1..Len(v)
               PROVE  (w \o v)[p + Len(w)] = v[p]
    BY <1>1
  <2>1. /\ p + Len(w) \in Len(w) + 1 .. Len(w) + Len(v)
        /\ (p + Len(w)) - Len(w) = p
        /\ p + Len(w) \in 1..(Len(w) + Len(v))
        /\ ~(p + Len(w) <= Len(w))
    BY <1>1
  <2> QED
    BY <2>1, ConcatProperties
<1>3. Laid(w \o v, 1 + Len(w), (Len(v) + 1) + Len(w), qs)
  BY <1>1, <1>2, LaidAlike
<1>4. 1 + Len(w) = Len(w) + 1 /\ (Len(v) + 1) + Len(w) = Len(w) + Len(v) + 1
  BY <1>1
<1> QED
  BY <1>3, <1>4

----------------------------------------------------------------------------
(* Lemmas about the words of data *)

\* Four bytes make one word.
LEMMA InWordsLemma ==
    ASSUME NEW bs \in Seq(Byte)
    PROVE  /\ InWords(bs) \in Seq(Word)
           /\ Len(InWords(bs)) = Len(bs) \div 4
<1>1. Len(bs) \in Nat
  BY LenProperties
<1>2. PICK n \in Nat : n = Len(bs) \div 4 /\ 4 * n <= Len(bs)
  BY <1>1
<1>3. ASSUME NEW k \in 1..n
      PROVE  Bytes(SubSeq(bs, 4 * k - 3, 4 * k)) \in Word
  <2>1. PICK a, b : a = 4 * k - 3 /\ b = 4 * k /\ a \in 1..(Len(bs) + 1) /\ b \in 0..Len(bs)
    BY <1>1, <1>2
  <2>2. SubSeq(bs, a, b) \in Seq(Byte)
    BY <2>1, SubSeqProperties
  <2> QED
    BY <2>1, <2>2 DEF Bytes, Word
<1>4. InWords(bs) = [k \in 1..n |-> Bytes(SubSeq(bs, 4 * k - 3, 4 * k))]
  BY <1>2 DEF InWords
<1>5. InWords(bs) \in [1..n -> Word]
  BY <1>3, <1>4
<1>6. InWords(bs) \in Seq(Word)
  BY <1>5, SeqDef
<1>7. Len(InWords(bs)) = n
  BY <1>5, <1>6, LenProperties
<1> QED
  BY <1>2, <1>6, <1>7

\* Padding is as long as it is said to be.
LEMMA ZerosLemma ==
    ASSUME NEW n \in Nat
    PROVE  Zeros(n) \in Seq(Byte) /\ Len(Zeros(n)) = n
BY DEF Zeros, Zero, Byte

\* The data of a statement are as many bytes as it has.
LEMMA DataLemma ==
    ASSUME NEW st, st.size \in Nat, Len(statements) \in Nat
    PROVE  Data(st) \in Seq(Byte) /\ Len(Data(st)) = st.size
<1>1. PICK n \in Nat : n = st.size
  OBVIOUS
<1>2. PICK m \in Nat : m = Len(statements) + 1
  OBVIOUS
<1>3. Data(st) = [k \in 1..n |-> [src |-> m, at |-> k]]
  BY <1>1, <1>2 DEF Data
<1>4. \A k \in 1..n : [src |-> m, at |-> k] \in Byte
  BY DEF Byte
<1>5. Data(st) \in [1..n -> Byte]
  BY <1>3, <1>4
<1>6. Data(st) \in Seq(Byte)
  BY <1>5, SeqDef
<1> QED
  BY <1>1, <1>5, <1>6, LenProperties

----------------------------------------------------------------------------
(* Lemmas about codes *)

\* Words with and without a command are words.
LEMMA WordLemma ==
    ASSUME NEW op \in Heads, NEW n \in Int
    PROVE  HeadWord(op, n) \in Word /\ Number(n) \in Word
BY EmptySeq DEF HeadWord, Number, Word

\* A command of two words.
LEMMA PairLaid ==
    ASSUME NEW op \in Heads \ {"06", "16", "c2"}, NEW m \in Int, NEW n \in Int
    PROVE  LET w == <<HeadWord(op, m), Number(n)>> IN
           /\ w \in Seq(Word) /\ Len(w) = 2 /\ w[1].op = op
           /\ Laid(w, 1, Len(w) + 1, {1})
<1>1. PICK w : w = <<HeadWord(op, m), Number(n)>>
  OBVIOUS
<1>2. /\ HeadWord(op, m) \in Word /\ Number(n) \in Word
      /\ HeadWord(op, m).op = op
  BY WordLemma DEF HeadWord
<1>3. w \in Seq(Word) /\ Len(w) = 2 /\ w[1].op = op
  BY <1>1, <1>2
<1>4. Length(w, 1) = 2
  BY <1>3 DEF Length
<1>5. Laid(w, 1, 3, {1})
  BY <1>3, <1>4 DEF Laid
<1> QED
  BY <1>1, <1>3, <1>5

\* A code whose length its head says.
LEMMA CodeLaid ==
    ASSUME NEW w \in Seq(Word), Len(w) >= 2, w[1].op \in Heads, Length(w, 1) = Len(w)
    PROVE  Laid(w, 1, Len(w) + 1, {1})
<1>1. PICK n \in Nat : n = Len(w)
  BY LenProperties
<1>2. Laid(w, 1, n + 1, {1})
  BY <1>1 DEF Laid
<1> QED
  BY <1>1, <1>2

\* A code of a far write, with what surrounds it.
LEMMA FarLaid ==
    ASSUME NEW x \in Seq(Word), Len(x) = 2, Laid(x, 1, Len(x) + 1, {1}),
           NEW c \in Seq(Word), Laid(c, 1, Len(c) + 1, {1}),
           NEW r \in Seq(Word), Len(r) = 2, Laid(r, 1, Len(r) + 1, {1}), r[1].op = "reset"
    PROVE  LET w == (x \o c) \o r IN
           w \in Seq(Word) /\ Laid(w, 1, Len(w) + 1, {1, 3, Len(w) - 1})
<1>1. PICK y : y = x \o c
  OBVIOUS
<1>2. PICK w : w = y \o r
  OBVIOUS
<1>3. Len(c) \in Nat /\ Len(c) >= 2
  <2>1. Len(c) \in Nat
    BY LenProperties
  <2>2. 1 + 2 <= Len(c) + 1
    BY DEF Laid
  <2> QED
    BY <2>1, <2>2
<1>4. y \in Seq(Word) /\ Len(y) = 2 + Len(c)
  <2>1. x \o c \in Seq(Word) /\ Len(x \o c) = Len(x) + Len(c)
    BY ConcatProperties
  <2> QED
    BY <1>1, <2>1
<1>5. w \in Seq(Word) /\ Len(w) = Len(y) + 2
  <2>1. y \o r \in Seq(Word) /\ Len(y \o r) = Len(y) + Len(r)
    BY <1>4, ConcatProperties
  <2> QED
    BY <1>2, <2>1
<1>6. Laid(w, 1, 3, {1})
  <2>1. Laid(x, 1, 3, {1}) /\ 3 <= Len(x) + 1
    OBVIOUS
  <2>2. Laid(y, 1, 3, {1}) /\ 3 <= Len(y) + 1
    BY <2>1, <1>1, <1>3, <1>4, LaidBefore
  <2> QED
    BY <2>2, <1>2, <1>4, LaidBefore
<1>7. PICK e \in Nat : e = Len(c) + 3
  BY <1>3
<1>8. Laid(w, 3, e, {3})
  <2>1. {3} = {p + Len(x) : p \in {1}}
    OBVIOUS
  <2>2. Laid(y, Len(x) + 1, Len(x) + Len(c) + 1, {3})
    BY <1>1, <2>1, LaidBehind
  <2>3. Len(x) + 1 = 3 /\ Len(x) + Len(c) + 1 = e /\ e <= Len(y) + 1
    BY <1>3, <1>4, <1>7
  <2>4. Laid(y, 3, e, {3})
    BY <2>2, <2>3
  <2> QED
    BY <2>3, <2>4, <1>2, <1>4, LaidBefore
<1>9. Laid(w, e, e + 2, {e}) /\ w[e].op = "reset"
  <2>1. {e} = {p + Len(y) : p \in {1}}
    BY <1>3, <1>4, <1>7
  <2>2. Laid(w, Len(y) + 1, Len(y) + Len(r) + 1, {e})
    BY <1>2, <1>4, <2>1, LaidBehind
  <2>3. Len(y) + 1 = e /\ Len(y) + Len(r) + 1 = e + 2
    BY <1>3, <1>4, <1>7
  <2>4. w[e] = r[1]
    <3>1. e \in 1..(Len(y) + Len(r)) /\ ~(e <= Len(y)) /\ e - Len(y) = 1
      BY <1>3, <1>4, <1>7
    <3>2. (y \o r)[e] = IF e <= Len(y) THEN y[e] ELSE r[e - Len(y)]
      BY <3>1, <1>4, ConcatProperties
    <3> QED
      BY <3>1, <3>2, <1>2
  <2> QED
    BY <2>2, <2>3, <2>4
<1>10. /\ w[1].op \in Heads /\ Length(w, 1) \in Nat /\ 1 + Length(w, 1) \in {1, 3}
       /\ w[3].op \in Heads /\ Length(w, 3) \in Nat /\ 3 + Length(w, 3) \in {3, e}
       /\ w[e].op \in Heads /\ Length(w, e) \in Nat /\ e + Length(w, e) \in {e, e + 2}
  BY <1>6, <1>8, <1>9 DEF Laid
<1>11. Laid(w, 1, e + 2, {1, 3, e})
  <2>1. PICK ps : ps = {1, 3, e}
    OBVIOUS
  <2>2. ASSUME NEW p \in ps
        PROVE  /\ 1 <= p /\ p + 2 <= e + 2
               /\ w[p].op \in Heads
               /\ Length(w, p) \in Nat
               /\ p + Length(w, p) \in ps \cup {e + 2}
               /\ p \notin {1, 1 + 2} => w[p].op = "reset"
    <3>1. CASE p = 1
      BY <3>1, <2>1, <1>3, <1>7, <1>10
    <3>2. CASE p = 3
      BY <3>2, <2>1, <1>3, <1>7, <1>10
    <3>3. CASE p = e
      BY <3>3, <2>1, <1>3, <1>7, <1>9, <1>10
    <3> QED
      BY <2>1, <3>1, <3>2, <3>3
  <2>3. ps \in SUBSET Nat /\ e + 2 \in Nat
    BY <2>1
  <2>4. Laid(w, 1, e + 2, ps)
    BY <2>2, <2>3 DEF Laid
  <2> QED
    BY <2>1, <2>4
<1>12. e + 2 = Len(w) + 1 /\ e = Len(w) - 1
  BY <1>3, <1>4, <1>5, <1>7
<1> QED
  BY <1>1, <1>2, <1>5, <1>11, <1>12

\* How lists of words are joined does not matter.
LEMMA JoinsAlike ==
    ASSUME NEW x \in Seq(Word), NEW y \in Seq(Word), NEW z \in Seq(Word)
    PROVE  (x \o y) \o z = x \o (y \o z)
<1>1. PICK S : S = Word
  OBVIOUS
<1>2. x \in Seq(S) /\ y \in Seq(S) /\ z \in Seq(S)
  BY <1>1
<1> QED
  BY <1>2, ConcatAssociative

\* The framing of a write or a HOOK: words in front of its head and behind its data.
LEMMA FramedCode ==
    ASSUME NEW x \in Seq(Word), NEW m \in Seq(Word), NEW d \in Seq(Word), NEW r \in Seq(Word),
           Laid(m \o d, 1, Len(m \o d) + 1, {1}), NEW st, IsWrite(st),
           IF IsFar(st) THEN /\ Len(x) = 2 /\ Laid(x, 1, Len(x) + 1, {1})
                             /\ Len(r) = 2 /\ Laid(r, 1, Len(r) + 1, {1}) /\ r[1].op = "reset"
                        ELSE x = <<>> /\ r = <<>>
    PROVE  LET w == ((x \o m) \o d) \o r IN
           w \in Seq(Word) /\ Laid(w, 1, Len(w) + 1, Commands(st, 1, Len(w) + 1))
<1>1. PICK c \in Seq(Word) : c = m \o d
  BY ConcatProperties
<1>2. PICK w : w = (x \o c) \o r
  OBVIOUS
<1>3. ((x \o m) \o d) \o r = w
  <2>1. (x \o m) \o d = x \o (m \o d)
    BY JoinsAlike
  <2> QED
    BY <1>1, <1>2, <2>1
<1>4. CASE IsFar(st)
  <2>1. w \in Seq(Word) /\ Laid(w, 1, Len(w) + 1, {1, 3, Len(w) - 1})
    BY <1>1, <1>2, <1>4, FarLaid
  <2>2. Len(w) \in Nat
    BY <2>1, LenProperties
  <2>3. Commands(st, 1, Len(w) + 1) = {1, 3, Len(w) - 1}
    BY <1>4, <2>2 DEF Commands, FarWrite
  <2> QED
    BY <1>3, <2>1, <2>3
<1>5. CASE ~IsFar(st)
  <2>1. x \o c = c /\ c \o r = c
    BY <1>5, ConcatEmptySeq
  <2>2. w = c
    BY <1>2, <1>5, <2>1
  <2>3. Commands(st, 1, Len(w) + 1) = {1}
    BY <1>5 DEF Commands, FarWrite
  <2> QED
    BY <2>2, <2>3, <1>1, <1>3
<1> QED
  BY <1>4, <1>5

----------------------------------------------------------------------------
(* Lemmas about encodings *)

\* A list of words that the handler goes through from beginning to end.
Fits(st, w) == w \in Seq(Word) /\ Laid(w, 1, Len(w) + 1, Commands(st, 1, Len(w) + 1))

\* The numbers of a statement.
LEMMA StatementLemma ==
    ASSUME NEW st \in Statement
    PROVE  /\ st.address \in Int /\ st.size \in Nat
           /\ st.address % Low \in Int /\ Segment(st.address) \in Int
           /\ st \in Setting => st.address % Base \in Int
<1>1. /\ Low \in Nat \ {0} /\ Base \in Nat /\ Space \in Nat
      /\ Base % Low = 0
      /\ Addresses \subseteq 0..(Space - 1) /\ Registers \subseteq 0..(Space - 1)
      /\ Arrays \subseteq Nat
  BY HandlerAssumption
<1>2. st.address \in Addresses \cup Registers \cup {0, 1}
  BY DEF Statement, Write, Hook, Setting, Condition, Other
<1>3. st.size \in Arrays \cup {0, 1, 2, 4, 8}
  BY DEF Statement, Write, Hook, Setting, Condition, Other
<1>4. st.address \in Int /\ st.size \in Nat
  <2>1. Addresses \cup Registers \cup {0, 1} \subseteq Int
    BY <1>1
  <2>2. Arrays \cup {0, 1, 2, 4, 8} \subseteq Nat
    BY <1>1
  <2> QED
    BY <1>2, <1>3, <2>1, <2>2
<1>5. st.address % Low \in Int
  BY <1>1, <1>4
<1>6. ASSUME st \in Setting
      PROVE  st.address % Base \in Int
  <2>1. st.address \in 0..(Space - 1)
    BY <1>1, <1>6 DEF Setting
  <2>2. Space = 2 * Base
    BY HandlerAssumption
  <2>3. Base \in Nat \ {0}
    BY <1>1, <2>1, <2>2
  <2> QED
    BY <1>4, <2>3
<1> QED
  BY <1>1, <1>4, <1>5, <1>6 DEF Segment

\* The words of a string are as many as its size says.
LEMMA StringLength ==
    ASSUME NEW n \in Nat
    PROVE  /\ Padding(n) \in Nat
           /\ (n + Padding(n)) \div 4 = 2 * ((n + 7) \div 8)
           /\ n + Padding(n) = 4 * (2 * ((n + 7) \div 8))
<1>1. PICK q \in Nat, r \in 0..7 : n = 8 * q + r /\ r = n % 8
  <2>1. n \div 8 \in Nat /\ n % 8 \in 0..7 /\ n = 8 * (n \div 8) + (n % 8)
    OBVIOUS
  <2> QED
    BY <2>1
<1>2. Padding(n) = (8 - r) % 8
  BY <1>1 DEF Padding
<1>3. CASE r = 0
  <2>1. Padding(n) = 0
    BY <1>2, <1>3
  <2> QED
    BY <2>1, <1>1, <1>3
<1>4. CASE r \in 1..7
  <2>1. Padding(n) = 8 - r
    BY <1>2, <1>4
  <2> QED
    BY <2>1, <1>1, <1>4
<1> QED
  BY <1>1, <1>3, <1>4

\* The code of a write, with its payload, is one command, and ends with its last line.
LEMMA PayloadLemma ==
    ASSUME NEW st \in Write, Len(statements) \in Nat
    PROVE  LET c == <<HeadWord(Code(st), Operand(st))>> \o Payload(st) IN
           /\ <<HeadWord(Code(st), Operand(st))>> \in Seq(Word)
           /\ Payload(st) \in Seq(Word)
           /\ c \in Seq(Word)
           /\ Laid(c, 1, Len(c) + 1, {1})
<1>1. /\ st.size \in Nat /\ st.address % Low \in Int
  BY StatementLemma DEF Statement
<1>2. PICK op \in Heads : /\ op = Code(st)
                          /\ IF IsString(st) THEN op \in {"06", "16"} ELSE op \in {"00", "02", "04"}
  BY DEF Code, IsString, Heads, Write
<1>3. PICK a \in Int : a = Operand(st)
  BY <1>1 DEF Operand
<1>4. PICK h \in Word : h = HeadWord(Code(st), Operand(st)) /\ h.op = op
  BY <1>2, <1>3, WordLemma DEF HeadWord
<1>5. /\ Data(st) \in Seq(Byte) /\ Len(Data(st)) = st.size
  BY <1>1, DataLemma
<1>6. ASSUME NEW d \in Seq(Word), d = Payload(st), Len(d) \in Nat, Len(d) >= 1,
             IF IsString(st) THEN d[1].n = st.size /\ Len(d) = 1 + 2 * ((st.size + 7) \div 8)
                             ELSE Len(d) = 1
      PROVE  <<h>> \o d \in Seq(Word) /\ Laid(<<h>> \o d, 1, Len(<<h>> \o d) + 1, {1})
  <2>1. <<h>> \in Seq(Word) /\ Len(<<h>>) = 1 /\ <<h>>[1] = h
    OBVIOUS
  <2>2. PICK c \in Seq(Word) : c = <<h>> \o d /\ Len(c) = 1 + Len(d)
    <3>1. <<h>> \o d \in Seq(Word) /\ Len(<<h>> \o d) = Len(<<h>>) + Len(d)
      BY <2>1, ConcatProperties
    <3> QED
      BY <2>1, <3>1
  <2>3. c[1] = h
    <3>1. 1 \in 1..(Len(<<h>>) + Len(d)) /\ 1 <= Len(<<h>>)
      BY <1>6, <2>1
    <3>2. (<<h>> \o d)[1] = IF 1 <= Len(<<h>>) THEN <<h>>[1] ELSE d[1 - Len(<<h>>)]
      BY <2>1, <3>1, ConcatProperties
    <3> QED
      BY <2>1, <2>2, <3>1, <3>2
  <2>4. c[2] = d[1]
    <3>1. 2 \in 1..(Len(<<h>>) + Len(d)) /\ ~(2 <= Len(<<h>>)) /\ 2 - Len(<<h>>) = 1
      BY <1>6, <2>1
    <3>2. (<<h>> \o d)[2] = IF 2 <= Len(<<h>>) THEN <<h>>[2] ELSE d[2 - Len(<<h>>)]
      BY <2>1, <3>1, ConcatProperties
    <3> QED
      BY <2>2, <3>1, <3>2
  <2>5. Length(c, 1) = Len(c)
    <3>1. CASE IsString(st)
      <4>1. c[1].op \in {"06", "16"} /\ c[1 + 1].n = st.size
        BY <3>1, <1>2, <1>4, <1>6, <2>3, <2>4
      <4>2. Len(c) = 2 + 2 * ((st.size + 7) \div 8)
        BY <3>1, <1>1, <1>6, <2>2
      <4> QED
        BY <4>1, <4>2 DEF Length
    <3>2. CASE ~IsString(st)
      <4>1. c[1].op \in {"00", "02", "04"}
        BY <3>2, <1>2, <1>4, <2>3
      <4>2. Len(c) = 2
        <5>1. Len(d) = 1
          BY <3>2, <1>6
        <5> QED
          BY <5>1, <2>2
      <4> QED
        BY <4>1, <4>2 DEF Length
    <3> QED
      BY <3>1, <3>2
  <2>6. c[1].op \in Heads /\ Len(c) >= 2
    BY <1>4, <1>6, <2>2, <2>3
  <2>7. Laid(c, 1, Len(c) + 1, {1})
    BY <2>5, <2>6, CodeLaid
  <2> QED
    BY <2>2, <2>7
<1>7. CASE IsString(st)
  <2>1. /\ Padding(st.size) \in Nat
        /\ (st.size + Padding(st.size)) \div 4 = 2 * ((st.size + 7) \div 8)
    BY <1>1, StringLength
  <2>2. PICK z \in Seq(Byte) : z = Zeros(Padding(st.size)) /\ Len(z) = Padding(st.size)
    BY <2>1, ZerosLemma
  <2>3. PICK bs \in Seq(Byte) : bs = Data(st) \o z /\ Len(bs) = st.size + Padding(st.size)
    <3>1. Data(st) \o z \in Seq(Byte) /\ Len(Data(st) \o z) = Len(Data(st)) + Len(z)
      BY <1>5, ConcatProperties
    <3> QED
      BY <3>1, <1>5, <2>2
  <2>4. PICK w \in Seq(Word) : w = InWords(bs) /\ Len(w) = 2 * ((st.size + 7) \div 8)
    BY <2>1, <2>3, InWordsLemma
  <2>5. PICK m \in Word : m = Number(st.size) /\ m.n = st.size
    <3>1. "06" \in Heads /\ st.size \in Int
      BY <1>1 DEF Heads
    <3>2. Number(st.size) \in Word
      BY <3>1, WordLemma
    <3> QED
      BY <3>2 DEF Number
  <2>6. <<m>> \in Seq(Word) /\ Len(<<m>>) = 1 /\ <<m>>[1] = m
    OBVIOUS
  <2>7. Payload(st) = <<m>> \o w
    BY <1>7, <2>2, <2>3, <2>4, <2>5 DEF Payload
  <2>8. Len(w) \in Nat
    BY LenProperties
  <2>9. <<m>> \o w \in Seq(Word) /\ Len(<<m>> \o w) = 1 + Len(w) /\ (<<m>> \o w)[1] = m
    <3>1. 1 \in 1..(Len(<<m>>) + Len(w)) /\ 1 <= Len(<<m>>)
      BY <2>6, <2>8
    <3>2. (<<m>> \o w)[1] = IF 1 <= Len(<<m>>) THEN <<m>>[1] ELSE w[1 - Len(<<m>>)]
      BY <2>6, <3>1, ConcatProperties
    <3>3. <<m>> \o w \in Seq(Word) /\ Len(<<m>> \o w) = Len(<<m>>) + Len(w)
      BY <2>6, ConcatProperties
    <3> QED
      BY <2>6, <3>1, <3>2, <3>3
  <2>10. PICK d \in Seq(Word) : d = Payload(st) /\ Len(d) = 1 + Len(w) /\ d[1] = m
    BY <2>7, <2>9
  <2>11. d[1].n = st.size /\ Len(d) = 1 + 2 * ((st.size + 7) \div 8) /\ Len(d) \in Nat /\ Len(d) >= 1
    BY <2>4, <2>5, <2>8, <2>10
  <2>12. <<h>> \o d \in Seq(Word) /\ Laid(<<h>> \o d, 1, Len(<<h>> \o d) + 1, {1})
    BY <1>6, <1>7, <2>10, <2>11
  <2> QED
    BY <1>4, <2>10, <2>12
<1>8. CASE ~IsString(st)
  <2>1. st.size \in {1, 2, 4}
    BY <1>8 DEF IsString
  <2>2. PICK z \in Seq(Byte) : z = Zeros(4 - st.size) /\ Len(z) = 4 - st.size
    <3>1. 4 - st.size \in Nat
      BY <2>1
    <3> QED
      BY <3>1, ZerosLemma
  <2>3. PICK bs \in Seq(Byte) : bs = z \o Data(st) /\ Len(bs) = 4
    <3>1. z \o Data(st) \in Seq(Byte) /\ Len(z \o Data(st)) = Len(z) + Len(Data(st))
      BY <1>5, ConcatProperties
    <3>2. Len(z) + Len(Data(st)) = 4
      BY <1>5, <2>1, <2>2
    <3> QED
      BY <3>1, <3>2
  <2>4. PICK d \in Seq(Word) : d = Payload(st) /\ Len(d) = 1
    <3>1. InWords(bs) \in Seq(Word) /\ Len(InWords(bs)) = Len(bs) \div 4
      BY InWordsLemma
    <3>2. Len(bs) \div 4 = 1
      BY <2>3
    <3> QED
      BY <3>1, <3>2, <1>8, <2>2, <2>3 DEF Payload
  <2>5. <<h>> \o d \in Seq(Word) /\ Laid(<<h>> \o d, 1, Len(<<h>> \o d) + 1, {1})
    <3>1. Len(d) \in Nat /\ Len(d) >= 1
      BY <2>4
    <3> QED
      BY <1>6, <1>8, <2>4, <3>1
  <2> QED
    BY <1>4, <2>4, <2>5
<1> QED
  BY <1>7, <1>8

\* What precedes a far write, and what follows it.
Frames(st, x, r) ==
    /\ x \in Seq(Word) /\ r \in Seq(Word)
    /\ IF IsFar(st) THEN /\ Len(x) = 2 /\ Laid(x, 1, Len(x) + 1, {1})
                         /\ Len(r) = 2 /\ Laid(r, 1, Len(r) + 1, {1}) /\ r[1].op = "reset"
                    ELSE x = <<>> /\ r = <<>>

\* A reset is one command.
LEMMA ResetLaid ==
    /\ ResetWords \in Seq(Word) /\ Len(ResetWords) = 2
    /\ Laid(ResetWords, 1, Len(ResetWords) + 1, {1}) /\ ResetWords[1].op = "reset"
<1>1. "reset" \in Heads \ {"06", "16", "c2"}
  BY DEF Heads
<1> QED
  BY <1>1, PairLaid DEF ResetWords

\* A command in front of far code and the reset behind it frame it.
LEMMA FramesLemma ==
    ASSUME NEW st, NEW op \in {"ba", "po"}, NEW n \in Int
    PROVE  Frames(st, IF IsFar(st) THEN <<HeadWord(op, 0), Number(n)>> ELSE <<>>,
                      IF IsFar(st) THEN ResetWords ELSE <<>>)
<1>1. op \in Heads \ {"06", "16", "c2"}
  BY DEF Heads
<1>2. PICK x : x = <<HeadWord(op, 0), Number(n)>>
  OBVIOUS
<1>3. x \in Seq(Word) /\ Len(x) = 2 /\ Laid(x, 1, Len(x) + 1, {1})
  BY <1>1, <1>2, PairLaid
<1>4. CASE IsFar(st)
  BY <1>2, <1>3, <1>4, ResetLaid DEF Frames
<1>5. CASE ~IsFar(st)
  BY <1>5, EmptySeq DEF Frames
<1> QED
  BY <1>4, <1>5

\* The words of a write are the commands that it is said to consist of.
LEMMA WriteFits ==
    ASSUME NEW st \in Write, Len(statements) \in Nat
    PROVE  Fits(st, WriteWords(st))
<1>1. st.address \in Int /\ Segment(st.address) \in Int
  BY StatementLemma DEF Statement
<1>2. PICK x, r : /\ x = Prefix(st) /\ r = (IF IsFar(st) THEN ResetWords ELSE <<>>)
                  /\ Frames(st, x, r)
  <2>1. CASE IsString(st)
    BY <2>1, <1>1, FramesLemma DEF Prefix
  <2>2. CASE ~IsString(st) /\ "MEM2Writes" \in policy
    BY <2>2, <1>1, FramesLemma DEF Prefix
  <2>3. CASE ~IsString(st) /\ "MEM2Writes" \notin policy
    BY <2>3, <1>1, FramesLemma DEF Prefix
  <2> QED
    BY <2>1, <2>2, <2>3
<1>3. PICK m, d : m = <<HeadWord(Code(st), Operand(st))>> /\ d = Payload(st)
  OBVIOUS
<1>4. m \in Seq(Word) /\ d \in Seq(Word) /\ Laid(m \o d, 1, Len(m \o d) + 1, {1})
  BY <1>3, PayloadLemma
<1>5. IsWrite(st)
  BY DEF Write, IsWrite
<1>6. PICK w : w = ((x \o m) \o d) \o r
  OBVIOUS
<1>7. w \in Seq(Word) /\ Laid(w, 1, Len(w) + 1, Commands(st, 1, Len(w) + 1))
  BY <1>2, <1>4, <1>5, <1>6, FramedCode DEF Frames
<1>8. WriteWords(st) = w
  BY <1>2, <1>3, <1>6 DEF WriteWords
<1> QED
  BY <1>7, <1>8 DEF Fits

\* So are those of a hook.
LEMMA HookFits ==
    ASSUME NEW st \in Hook, Len(statements) \in Nat
    PROVE  Fits(st, HookWords(st))
<1>1. st.address \in Int /\ Segment(st.address) \in Int /\ st.address % Low \in Int
  BY StatementLemma DEF Statement
<1>2. PICK x : /\ x = IF ~IsFar(st) THEN <<>>
                      ELSE IF "MEM2Hooks" \in policy
                           THEN <<HeadWord("ba", 0), Number(Segment(st.address))>>
                           ELSE <<HeadWord("po", 0), Number(st.address)>>
               /\ Frames(st, x, IF IsFar(st) THEN ResetWords ELSE <<>>)
  <2>1. CASE "MEM2Hooks" \in policy
    BY <2>1, <1>1, FramesLemma
  <2>2. CASE "MEM2Hooks" \notin policy
    BY <2>2, <1>1, FramesLemma
  <2> QED
    BY <2>1, <2>2
<1>3. PICK r : r = (IF IsFar(st) THEN ResetWords ELSE <<>>) /\ Frames(st, x, r)
  BY <1>2
<1>4. PICK a \in Int : a = IF IsFar(st) /\ "MEM2Hooks" \notin policy THEN 0 ELSE st.address % Low
  BY <1>1
<1>5. "c2" \in Heads
  BY DEF Heads
<1>6. PICK m : m = <<HeadWord("c2", a), Number(1)>>
  OBVIOUS
<1>7. m \in Seq(Word) /\ Len(m) = 2 /\ m[1].op = "c2" /\ m[2].n = 1
  <2>1. HeadWord("c2", a) \in Word /\ Number(1) \in Word
    BY <1>5, WordLemma
  <2>2. HeadWord("c2", a).op = "c2" /\ Number(1).n = 1
    BY DEF HeadWord, Number
  <2> QED
    BY <1>6, <2>1, <2>2
<1>8. PICK d \in Seq(Word) : d = InWords(Data(st) \o Zeros(4)) /\ Len(d) = 2
  <2>1. st.size \in Nat /\ st.size = 4
    BY DEF Hook
  <2>2. PICK dd \in Seq(Byte) : dd = Data(st) /\ Len(dd) = 4
    BY <2>1, DataLemma
  <2>3. PICK z \in Seq(Byte) : z = Zeros(4) /\ Len(z) = 4
    BY ZerosLemma
  <2>4. PICK bs \in Seq(Byte) : bs = Data(st) \o Zeros(4) /\ Len(bs) = 8
    <3>1. dd \o z \in Seq(Byte) /\ Len(dd \o z) = Len(dd) + Len(z)
      BY ConcatProperties
    <3>2. Len(dd) = 4 /\ Len(z) = 4
      BY <2>2, <2>3
    <3>3. PICK m1, n1 : m1 = Len(dd) /\ n1 = Len(z)
      OBVIOUS
    <3>4. m1 = 4 /\ n1 = 4
      BY <3>2, <3>3
    <3>5. m1 + n1 = 8
      BY <3>4
    <3>6. Len(dd) + Len(z) = 8
      BY <3>3, <3>5
    <3> QED
      BY <3>1, <3>6, <2>2, <2>3
  <2>5. InWords(bs) \in Seq(Word) /\ Len(InWords(bs)) = Len(bs) \div 4
    BY InWordsLemma
  <2>6. Len(bs) \div 4 = 2
    BY <2>4
  <2> QED
    BY <2>4, <2>5, <2>6
<1>9. PICK c \in Seq(Word) : c = m \o d /\ Len(c) = 4 /\ c[1] = m[1] /\ c[2] = m[2]
  <2>1. /\ m \o d \in Seq(Word) /\ Len(m \o d) = Len(m) + Len(d)
        /\ \A k \in 1..(Len(m) + Len(d)) : (m \o d)[k] = IF k <= Len(m) THEN m[k] ELSE d[k - Len(m)]
    BY <1>7, ConcatProperties
  <2>2. Len(m) + Len(d) = 4 /\ 1 \in 1..4 /\ 2 \in 1..4 /\ 1 <= Len(m) /\ 2 <= Len(m)
    <3>1. Len(m) = 2 /\ Len(d) = 2
      BY <1>7, <1>8
    <3> QED
      BY <3>1
  <2> QED
    BY <2>1, <2>2
<1>10. Laid(c, 1, Len(c) + 1, {1})
  <2>1. c[1].op = "c2" /\ c[1 + 1].n = 1
    BY <1>7, <1>9
  <2>2. Length(c, 1) = 4
    BY <2>1 DEF Length
  <2>3. c[1].op \in Heads
    BY <2>1, <1>5
  <2>4. Len(c) = 4 /\ Len(c) >= 2
    BY <1>9
  <2> QED
    BY <2>2, <2>3, <2>4, CodeLaid
<1>11. IsWrite(st)
  BY DEF Hook, IsWrite
<1>12. PICK w : w = ((x \o m) \o d) \o r
  OBVIOUS
<1>13. w \in Seq(Word) /\ Laid(w, 1, Len(w) + 1, Commands(st, 1, Len(w) + 1))
  <2>1. Laid(m \o d, 1, Len(m \o d) + 1, {1})
    BY <1>9, <1>10
  <2> QED
    BY <1>3, <1>7, <1>8, <1>11, <1>12, <2>1, FramedCode DEF Frames
<1>14. HookWords(st) = w
  BY <1>2, <1>3, <1>4, <1>6, <1>8, <1>12 DEF HookWords
<1> QED
  BY <1>13, <1>14 DEF Fits

\* A statement that is one command of two words.
LEMMA PairFits ==
    ASSUME NEW st, ~IsWrite(st), NEW op \in Heads \ {"06", "16", "c2"}, NEW m \in Int, NEW n \in Int
    PROVE  Fits(st, <<HeadWord(op, m), Number(n)>>)
<1>1. PICK w : w = <<HeadWord(op, m), Number(n)>>
  OBVIOUS
<1>2. w \in Seq(Word) /\ Laid(w, 1, Len(w) + 1, {1})
  BY <1>1, PairLaid
<1>3. Commands(st, 1, Len(w) + 1) = {1}
  BY DEF Commands, FarWrite
<1> QED
  BY <1>1, <1>2, <1>3 DEF Fits

\* However a statement is encoded, the handler goes through it from beginning to end.
LEMMA EncodingFits ==
    ASSUME NEW st \in Statement, Len(statements) \in Nat
    PROVE  Fits(st, Encoding(st))
<1>1. /\ st.address \in Int /\ Base \in Int
      /\ st \in Setting => st.address % Base \in Int
  BY StatementLemma, HandlerAssumption
<1>2. CASE st \in Write
  <2>1. Encoding(st) = WriteWords(st)
    <3>1. /\ st \notin Setting /\ st \notin Hook
          /\ st.kind \notin {"reset", "endif", "endif reset", "if", "other"}
      BY <1>2 DEF Write, Setting, Hook
    <3> QED
      BY <1>2, <3>1 DEF Encoding
  <2> QED
    BY <1>2, <2>1, WriteFits
<1>3. CASE st \in Hook
  <2>1. Encoding(st) = HookWords(st)
    <3>1. /\ st \notin Setting /\ st \notin Write
          /\ st.kind \notin {"reset", "endif", "endif reset", "if", "other"}
      BY <1>3 DEF Write, Setting, Hook
    <3> QED
      BY <1>3, <3>1 DEF Encoding
  <2> QED
    BY <1>3, <2>1, HookFits
<1>4. CASE st \in Setting
  <2>1. Encoding(st) = SettingWords(st)
    <3>1. /\ st \notin Hook /\ st \notin Write
          /\ st.kind \notin {"reset", "endif", "endif reset", "if", "other"}
      BY <1>4 DEF Write, Setting, Hook
    <3> QED
      BY <1>4, <3>1 DEF Encoding
  <2>2. st.kind \in Heads \ {"06", "16", "c2"} /\ ~IsWrite(st)
    BY <1>4 DEF Setting, Heads, IsWrite
  <2>3. PICK n \in Int : n = IF "DirectiveBit31" \in policy THEN st.address ELSE st.address % Base
    BY <1>1, <1>4
  <2>4. Fits(st, <<HeadWord(st.kind, 0), Number(n)>>)
    BY <2>2, PairFits
  <2> QED
    BY <2>1, <2>3, <2>4 DEF SettingWords
<1>5. CASE st \in Condition \cup Other
  <2>1. /\ st \notin Hook /\ st \notin Write /\ st \notin Setting /\ ~IsWrite(st)
        /\ st.kind \in {"reset", "endif", "endif reset", "if", "other"}
    BY <1>5 DEF Write, Setting, Hook, Condition, Other, IsWrite
  <2>2. {"reset", "endif", "if", "other"} \subseteq Heads \ {"06", "16", "c2"}
    BY DEF Heads
  <2>3. /\ Fits(st, <<HeadWord("reset", 0), Number(0)>>)
        /\ Fits(st, <<HeadWord("endif", 1), Number(0)>>)
        /\ Fits(st, <<HeadWord("endif", 1), Number(Base)>>)
        /\ Fits(st, <<HeadWord("if", st.address), Number(0)>>)
        /\ Fits(st, <<HeadWord("other", 0), Number(0)>>)
    <3>1. ~IsWrite(st) /\ 0 \in Int /\ 1 \in Int /\ Base \in Int /\ st.address \in Int
      <4>1. ~IsWrite(st)
        BY <2>1
      <4>2. Base \in Int /\ st.address \in Int
        BY <1>1
      <4> QED
        BY <4>1, <4>2
    <3>2. Fits(st, <<HeadWord("reset", 0), Number(0)>>)
      BY <3>1, <2>2, PairFits
    <3>3. /\ Fits(st, <<HeadWord("endif", 1), Number(0)>>)
          /\ Fits(st, <<HeadWord("endif", 1), Number(Base)>>)
      BY <3>1, <2>2, PairFits
    <3>4. Fits(st, <<HeadWord("if", st.address), Number(0)>>)
      BY <3>1, <2>2, PairFits
    <3>5. Fits(st, <<HeadWord("other", 0), Number(0)>>)
      BY <3>1, <2>2, PairFits
    <3> QED
      BY <3>2, <3>3, <3>4, <3>5
  <2>4. CASE st.kind = "reset"
    BY <2>1, <2>3, <2>4 DEF Encoding, ResetWords
  <2>5. CASE st.kind = "endif"
    BY <2>1, <2>3, <2>5 DEF Encoding
  <2>6. CASE st.kind = "endif reset"
    BY <2>1, <2>3, <2>6 DEF Encoding
  <2>7. CASE st.kind = "if"
    BY <2>1, <2>3, <2>7 DEF Encoding
  <2>8. CASE st.kind = "other"
    BY <2>1, <2>3, <2>8 DEF Encoding
  <2> QED
    BY <2>1, <2>4, <2>5, <2>6, <2>7, <2>8
<1> QED
  BY <1>2, <1>3, <1>4, <1>5 DEF Statement

----------------------------------------------------------------------------
(* The invariant is kept *)

\* Without words the handler is at the end.
LEMMA InitHolds ==
    ASSUME Init
    PROVE  HandlerInv
<1>1. /\ phase = "encode" /\ ip = 1
      /\ words = <<>> /\ starts = <<>> /\ statements = <<>>
  BY DEF Init
<1>2. Len(starts) = 0 /\ Len(statements) = 0
  BY <1>1
<1>3. TypeOK
  <2>1. words \in Seq(Word) /\ starts \in Seq(Nat) /\ statements \in Seq(Statement)
    BY <1>1, EmptySeq
  <2> QED
    BY <1>1, <1>2, <2>1 DEF TypeOK
<1>4. LayoutOK
  <2>1. 1..Len(starts) = {}
    BY <1>2
  <2> QED
    BY <1>1, <2>1 DEF LayoutOK
<1>5. PlaceOK
  BY <1>1 DEF PlaceOK
<1> QED
  BY <1>3, <1>4, <1>5 DEF HandlerInv

\* A further statement begins where the last one ends, and moves none of them.
LEMMA EncodeStep ==
    ASSUME HandlerInv, NEW st \in Statement, Encode(st)
    PROVE  HandlerInv'
<1>1. TypeOK /\ LayoutOK /\ PlaceOK
  BY DEF HandlerInv
<1>2. /\ words \in Seq(Word) /\ starts \in Seq(Nat) /\ statements \in Seq(Statement)
      /\ Len(words) \in Nat /\ Len(starts) \in Nat /\ Len(statements) \in Nat
      /\ Len(starts) = Len(statements)
  BY <1>1, LenProperties DEF TypeOK
<1>3. PICK enc : enc = Encoding(st)
  OBVIOUS
<1>4. enc \in Seq(Word) /\ Laid(enc, 1, Len(enc) + 1, Commands(st, 1, Len(enc) + 1))
  BY <1>2, <1>3, EncodingFits DEF Fits
<1>5. Len(enc) \in Nat /\ Len(enc) >= 2
  <2>1. Len(enc) \in Nat
    BY <1>4, LenProperties
  <2>2. 1 \in Commands(st, 1, Len(enc) + 1)
    BY DEF Commands
  <2>3. 1 + 2 <= Len(enc) + 1
    BY <1>4, <2>2 DEF Laid
  <2> QED
    BY <2>1, <2>3
<1>6. PICK w, n, m : w = words /\ n = Len(starts) /\ m = Len(words)
  OBVIOUS
<1>7. words' = w \o enc /\ words' \in Seq(Word) /\ Len(words') = m + Len(enc)
  <2>1. w \o enc \in Seq(Word) /\ Len(w \o enc) = Len(w) + Len(enc)
    BY <1>2, <1>4, <1>6, ConcatProperties
  <2> QED
    BY <2>1, <1>3, <1>6 DEF Encode
<1>8. /\ starts' \in Seq(Nat) /\ Len(starts') = n + 1
      /\ \A k \in 1..n : starts'[k] = starts[k]
      /\ starts'[n + 1] = m + 1
  <2>1. m + 1 \in Nat /\ starts' = Append(starts, m + 1)
    BY <1>2, <1>6 DEF Encode
  <2> QED
    BY <2>1, <1>2, <1>6, AppendProperties
<1>9. /\ statements' \in Seq(Statement) /\ Len(statements') = n + 1
      /\ \A k \in 1..n : statements'[k] = statements[k]
      /\ statements'[n + 1] = st
  <2>1. statements' = Append(statements, st)
    BY DEF Encode
  <2> QED
    BY <2>1, <1>2, <1>6, AppendProperties
<1>10. n \in Nat /\ m \in Nat
  BY <1>2, <1>6
<1>11. phase = "encode" /\ phase' = "encode" /\ ip' = ip
  BY DEF Encode, handler
<1>12. TypeOK'
  BY <1>1, <1>7, <1>8, <1>9, <1>11 DEF TypeOK
<1>13. ASSUME NEW k \in 1..n
       PROVE  /\ k \in 1..Len(starts)
              /\ starts[k] \in Nat
              /\ starts[k] <= m
              /\ End(k) \in Nat /\ End(k) <= m + 1
              /\ End(k)' = End(k)
              /\ CommandsOf(k)' = CommandsOf(k)
  <2>1. k \in 1..Len(starts) /\ starts[k] \in Nat /\ starts[k] <= m
    BY <1>1, <1>2, <1>6 DEF LayoutOK
  <2>2. CASE k = n
    <3>1. End(k) = m + 1
      BY <2>2, <1>6 DEF End
    <3>2. End(k)' = m + 1
      BY <2>2, <1>8, <1>10 DEF End
    <3> QED
      BY <2>1, <3>1, <3>2, <1>8, <1>9, <1>10 DEF CommandsOf
  <2>3. CASE k # n
    <3>1. k + 1 \in 1..n /\ k # Len(starts')
      BY <2>3, <1>8, <1>10
    <3>2. End(k) = starts[k + 1]
      BY <2>3, <1>6 DEF End
    <3>3. End(k)' = starts'[k + 1]
      BY <3>1 DEF End
    <3>4. starts[k + 1] \in Nat /\ starts[k + 1] <= m
      BY <3>1, <1>1, <1>2, <1>6 DEF LayoutOK
    <3> QED
      BY <2>1, <3>1, <3>2, <3>3, <3>4, <1>8, <1>9, <1>10 DEF CommandsOf
  <2> QED
    BY <2>2, <2>3
<1>14. LayoutOK'
  <2>1. starts'[1] = 1
    <3>1. CASE n = 0
      <4>1. starts = <<>>
        BY <3>1, <1>2, <1>6, EmptySeq
      <4>2. words = <<>>
        BY <4>1, <1>1 DEF LayoutOK
      <4>3. m = 0
        BY <4>2, <1>6
      <4> QED
        BY <3>1, <4>3, <1>8
    <3>2. CASE n # 0
      <4>1. 1 \in 1..n /\ starts # <<>>
        BY <3>2, <1>6, <1>10
      <4> QED
        BY <4>1, <1>1, <1>8 DEF LayoutOK
    <3> QED
      BY <3>1, <3>2
  <2>2. ASSUME NEW k \in 1..(n + 1), NEW l \in 1..(n + 1), k < l
        PROVE  starts'[k] < starts'[l]
    <3>1. k \in 1..n
      BY <2>2, <1>10
    <3>2. CASE l \in 1..n
      BY <2>2, <3>1, <3>2, <1>1, <1>6, <1>8 DEF LayoutOK
    <3>3. CASE l = n + 1
      <4>1. starts[k] \in Nat /\ starts[k] <= m
        BY <3>1, <1>13
      <4> QED
        BY <3>1, <3>3, <4>1, <1>8, <1>10
    <3> QED
      BY <3>2, <3>3, <1>10
  <2>3. ASSUME NEW k \in 1..(n + 1)
        PROVE  starts'[k] <= Len(words')
    <3>1. CASE k \in 1..n
      <4>1. starts[k] \in Nat /\ starts[k] <= m
        BY <3>1, <1>13
      <4> QED
        BY <3>1, <4>1, <1>5, <1>7, <1>8, <1>10
    <3>2. CASE k = n + 1
      BY <3>2, <1>5, <1>7, <1>8, <1>10
    <3> QED
      BY <3>1, <3>2, <1>10
  <2>4. ASSUME NEW k \in 1..(n + 1)
        PROVE  Laid(words, starts[k], End(k), CommandsOf(k))'
    <3>1. CASE k \in 1..n
      <4>1. PICK s, e, ps : s = starts[k] /\ e = End(k) /\ ps = CommandsOf(k)
        OBVIOUS
      <4>2. /\ e <= m + 1 /\ End(k)' = e /\ CommandsOf(k)' = ps /\ starts'[k] = s
            /\ k \in 1..Len(starts)
        BY <3>1, <4>1, <1>8, <1>13
      <4>3. Laid(w, s, e, ps)
        BY <4>1, <4>2, <1>1, <1>6 DEF LayoutOK
      <4>4. w \in Seq(Word) /\ e <= Len(w) + 1
        BY <4>2, <1>2, <1>6
      <4>5. Laid(w \o enc, s, e, ps)
        BY <4>3, <4>4, <1>4, LaidBefore
      <4> QED
        BY <4>2, <4>5, <1>7
    <3>2. CASE k = n + 1
      <4>1. PICK ps : ps = Commands(st, 1, Len(enc) + 1)
        OBVIOUS
      <4>2. PICK qs : qs = {p + Len(w) : p \in ps}
        OBVIOUS
      <4>3. Laid(w \o enc, Len(w) + 1, Len(w) + Len(enc) + 1, qs)
        <5>1. w \in Seq(Word) /\ enc \in Seq(Word) /\ Laid(enc, 1, Len(enc) + 1, ps)
          BY <4>1, <1>2, <1>4, <1>6
        <5> QED
          BY <4>2, <5>1, LaidBehind, Zenon
      <4>4. End(k)' = m + Len(enc) + 1 /\ starts'[k] = m + 1 /\ statements'[k] = st
        BY <3>2, <1>7, <1>8, <1>9 DEF End
      <4>5. Len(w) = m
        BY <1>6
      <4>6. qs = Commands(st, m + 1, m + Len(enc) + 1)
        <5>1. CASE FarWrite(st)
          <6>1. ps = {1, 3, Len(enc) - 1}
            BY <5>1, <4>1, <1>5 DEF Commands
          <6>2. qs = {1 + m, 3 + m, (Len(enc) - 1) + m}
            BY <6>1, <4>2, <4>5
          <6>3. Commands(st, m + 1, m + Len(enc) + 1) = {m + 1, m + 1 + 2, (m + Len(enc) + 1) - 2}
            <7>1. \A s, e : Commands(st, s, e) = {s, s + 2, e - 2}
              BY <5>1 DEF Commands
            <7> QED
              BY <7>1
          <6>4. 1 + m = m + 1 /\ 3 + m = m + 1 + 2 /\ (Len(enc) - 1) + m = (m + Len(enc) + 1) - 2
            BY <1>5, <1>10
          <6> QED
            BY <6>2, <6>3, <6>4
        <5>2. CASE ~FarWrite(st)
          <6>1. ps = {1}
            BY <5>2, <4>1 DEF Commands
          <6>2. qs = {1 + m}
            BY <6>1, <4>2, <4>5
          <6>3. Commands(st, m + 1, m + Len(enc) + 1) = {m + 1}
            BY <5>2 DEF Commands
          <6> QED
            BY <6>2, <6>3, <1>10
        <5> QED
          BY <5>1, <5>2
      <4>7. CommandsOf(k)' = qs
        BY <4>4, <4>6 DEF CommandsOf
      <4> QED
        BY <4>3, <4>4, <4>5, <4>7, <1>7
    <3> QED
      BY <3>1, <3>2, <1>10
  <2>5. starts' # <<>>
    BY <1>8, <1>10
  <2> QED
    BY <1>8, <2>1, <2>2, <2>3, <2>4, <2>5 DEF LayoutOK
<1>15. PlaceOK'
  BY <1>1, <1>11 DEF PlaceOK
<1> QED
  BY <1>12, <1>14, <1>15 DEF HandlerInv

\* A step of the handler over the words that it takes for the command it is at.
LEMMA HandlerStep ==
    ASSUME HandlerInv, Running, ip' = ip + Length(words, ip),
           UNCHANGED <<phase, statements, words, starts>>
    PROVE  HandlerInv'
<1>1. TypeOK /\ LayoutOK /\ PlaceOK
  BY DEF HandlerInv
<1>2. Len(words) \in Nat /\ Len(starts) \in Nat /\ ip \in Nat
  BY <1>1, LenProperties DEF TypeOK
<1>3. phase = "run" /\ ip < Len(words)
  BY DEF Running
<1>4. PICK k \in 1..Len(starts) : ip \in CommandsOf(k)
  BY <1>1, <1>2, <1>3 DEF PlaceOK
<1>5. Laid(words, starts[k], End(k), CommandsOf(k))
  BY <1>1 DEF LayoutOK
<1>6. ip' \in CommandsOf(k) \cup {End(k)}
  BY <1>4, <1>5 DEF Laid
<1>7. CommandsOf(k) \in SUBSET Nat /\ End(k) \in Nat
  BY <1>5 DEF Laid
<1>8. ip' = Len(words) + 1 \/ \E l \in 1..Len(starts) : ip' \in CommandsOf(l)
  <2>1. CASE ip' \in CommandsOf(k)
    BY <2>1
  <2>2. CASE ip' = End(k) /\ k = Len(starts)
    BY <2>2 DEF End
  <2>3. CASE ip' = End(k) /\ k # Len(starts)
    <3>1. k + 1 \in 1..Len(starts) /\ ip' = starts[k + 1]
      BY <2>3, <1>2 DEF End
    <3>2. starts[k + 1] \in CommandsOf(k + 1)
      BY DEF CommandsOf, Commands
    <3> QED
      BY <3>1, <3>2
  <2> QED
    BY <1>6, <2>1, <2>2, <2>3
<1>9. PICK x : x = ip'
  OBVIOUS
<1>10. x \in Nat /\ (x = Len(words) + 1 \/ \E l \in 1..Len(starts) : x \in CommandsOf(l))
  BY <1>6, <1>7, <1>8, <1>9
<1>11. TypeOK'
  BY <1>1, <1>9, <1>10 DEF TypeOK
<1>12. \A l : End(l)' = End(l) /\ CommandsOf(l)' = CommandsOf(l)
  BY DEF End, CommandsOf
<1>13. LayoutOK'
  BY <1>1, <1>12 DEF LayoutOK
<1>14. PlaceOK'
  BY <1>3, <1>9, <1>10, <1>12 DEF PlaceOK
<1> QED
  BY <1>11, <1>13, <1>14 DEF HandlerInv

\* Steps that change the phase only.
LEMMA PhaseStep ==
    ASSUME HandlerInv, UNCHANGED <<statements, words, starts, ip>>,
           \/ phase' = phase
           \/ phase = "encode" /\ phase' = "failed"
           \/ phase = "encode" /\ phase' = "run" /\ statements # <<>>
           \/ phase = "run" /\ phase' = "done"
    PROVE  HandlerInv'
<1>1. TypeOK /\ LayoutOK /\ PlaceOK
  BY DEF HandlerInv
<1>2. TypeOK'
  BY <1>1 DEF TypeOK
<1>3. \A l : End(l)' = End(l) /\ CommandsOf(l)' = CommandsOf(l)
  BY DEF End, CommandsOf
<1>4. LayoutOK'
  BY <1>1, <1>3 DEF LayoutOK
<1>5. PlaceOK'
  <2>1. CASE phase = "encode" /\ phase' = "run" /\ statements # <<>>
    <3>1. ip = 1
      BY <2>1, <1>1 DEF PlaceOK
    <3>2. Len(starts) \in Nat /\ Len(starts) # 0
      BY <2>1, <1>1, EmptySeq, LenProperties DEF TypeOK
    <3>3. 1 \in 1..Len(starts) /\ starts # <<>>
      BY <3>2
    <3>4. starts[1] = 1
      BY <3>3, <1>1 DEF LayoutOK
    <3>5. starts[1] \in CommandsOf(1)
      BY DEF CommandsOf, Commands
    <3>6. ip' \in CommandsOf(1)'
      BY <3>1, <3>4, <3>5, <1>3
    <3>7. 1 \in 1..Len(starts')
      BY <3>3
    <3> QED
      BY <2>1, <3>6, <3>7 DEF PlaceOK
  <2>2. CASE ~(phase = "encode" /\ phase' = "run")
    BY <2>2, <1>1, <1>3 DEF PlaceOK
  <2> QED
    BY <2>1, <2>2
<1> QED
  BY <1>2, <1>4, <1>5 DEF HandlerInv

\* Every step keeps the commands and the place of the handler among them.
LEMMA NextKeepsInv ==
    ASSUME HandlerInv, [Next]_vars
    PROVE  HandlerInv'
<1>1. CASE UNCHANGED vars
  BY <1>1, PhaseStep DEF vars
<1>2. ASSUME NEW st \in Statement, Encode(st)
      PROVE  HandlerInv'
  BY <1>2, EncodeStep
<1>3. ASSUME NEW st \in Statement, Reject(st)
      PROVE  HandlerInv'
  BY <1>3, PhaseStep DEF Reject, program, handler
<1>4. CASE Load
  BY <1>4, PhaseStep DEF Load, program, handler
<1>5. CASE SetRegister
  <2>1. ip' = ip + Length(words, ip)
    BY <1>5 DEF SetRegister, Length, Command
  <2> QED
    BY <2>1, <1>5, HandlerStep DEF SetRegister, program
<1>6. CASE ResetRegisters
  <2>1. ip' = ip + Length(words, ip)
    BY <1>6 DEF ResetRegisters, Length, Command
  <2> QED
    BY <2>1, <1>6, HandlerStep DEF ResetRegisters, program
<1>7. CASE BeginCondition
  <2>1. ip' = ip + Length(words, ip)
    BY <1>7 DEF BeginCondition, Length, Command
  <2> QED
    BY <2>1, <1>7, HandlerStep DEF BeginCondition, program
<1>8. CASE EndCondition
  <2>1. ip' = ip + Length(words, ip)
    BY <1>8 DEF EndCondition, Length, Command
  <2> QED
    BY <2>1, <1>8, HandlerStep DEF EndCondition, program
<1>9. CASE WriteScalar
  <2>1. Command.op \in {"00", "02", "04"} /\ ip' = ip + 2
    BY <1>9 DEF WriteScalar
  <2>2. ip' = ip + Length(words, ip)
    BY <2>1 DEF Length, Command
  <2> QED
    BY <2>2, <1>9, HandlerStep DEF WriteScalar, program
<1>10. CASE WriteString
  <2>1. Command.op \in {"06", "16"} /\ ip' = ip + 2 + 2 * ((Argument.n + 7) \div 8)
    BY <1>10 DEF WriteString
  <2>2. Length(words, ip) = 2 + 2 * ((Argument.n + 7) \div 8)
    BY <2>1 DEF Length, Command, Argument
  <2>3. ip \in Nat /\ (Argument.n + 7) \div 8 \in Int
    <3>1. ip \in Nat /\ words \in Seq(Word) /\ ip < Len(words)
      BY <1>10 DEF HandlerInv, TypeOK, WriteString, Running
    <3>2. ip + 1 \in 1..Len(words)
      BY <3>1, LenProperties
    <3>3. Argument \in Word
      BY <3>1, <3>2, ElementOfSeq DEF Argument
    <3>4. Argument.n \in Int
      BY <3>3 DEF Word
    <3> QED
      BY <3>1, <3>4
  <2>4. ip' = ip + Length(words, ip)
    BY <2>1, <2>2, <2>3
  <2> QED
    BY <2>4, <1>10, HandlerStep DEF WriteString, program
<1>11. CASE InsertHook
  <2>1. Command.op = "c2" /\ ip' = ip + 2 + 2 * Argument.n
    BY <1>11 DEF InsertHook
  <2>2. Length(words, ip) = 2 + 2 * Argument.n
    BY <2>1 DEF Length, Command, Argument
  <2>3. ip \in Nat /\ Argument.n \in Int
    <3>1. ip \in Nat /\ words \in Seq(Word) /\ ip < Len(words)
      BY <1>11 DEF HandlerInv, TypeOK, InsertHook, Running
    <3>2. ip + 1 \in 1..Len(words)
      BY <3>1, LenProperties
    <3>3. Argument \in Word
      BY <3>1, <3>2, ElementOfSeq DEF Argument
    <3> QED
      BY <3>1, <3>3 DEF Word
  <2>4. ip' = ip + Length(words, ip)
    BY <2>1, <2>2, <2>3
  <2> QED
    BY <2>4, <1>11, HandlerStep DEF InsertHook, program
<1>12. CASE Skip
  <2>1. ip' = ip + Length(words, ip)
    BY <1>12 DEF Skip, Length, Command
  <2> QED
    BY <2>1, <1>12, HandlerStep DEF Skip, program
<1>13. CASE Return
  BY <1>13, PhaseStep DEF Return, program, handler
<1> QED
  BY <1>1, <1>2, <1>3, <1>4, <1>5, <1>6, <1>7, <1>8, <1>9, <1>10, <1>11, <1>12, <1>13 DEF Next

----------------------------------------------------------------------------
(* What the words of a statement say *)

\* The corrections of addresses are all on.
Corrected == Flags \ {"AddressAlignment"} \subseteq policy

\* The data of the statement with number k.
DataOf(k, n) == [j \in 1..n |-> [src |-> k, at |-> j]]

Lines(n) == (n + 7) \div 8
BytesOf(w, p, n) == FlattenSeq([j \in 1..(2 * Lines(n)) |-> w[p + 1 + j].bytes])

\* The code of a write at p of w: its operand, and its data where the handler looks for
\* them.
CodeAt(w, p, st, k) ==
    /\ w[p].n = IF IsFar(st) /\ IsString(st) THEN 0 ELSE st.address % Low
    /\ st.kind = "hook" => /\ w[p].op = "c2" /\ w[p + 1].n = 1
                           /\ w[p + 2].bytes = DataOf(k, st.size)
    /\ st.kind # "hook" /\ IsString(st) =>
           /\ w[p].op = (IF IsFar(st) THEN "16" ELSE "06") /\ w[p + 1].n = st.size
           /\ SubSeq(BytesOf(w, p, st.size), 1, st.size) = DataOf(k, st.size)
    /\ st.kind # "hook" /\ ~IsString(st) =>
           /\ w[p].op = (CASE st.size = 1 -> "00" [] st.size = 2 -> "02" [] st.size = 4 -> "04")
           /\ w[p + 1].bytes = Zeros(4 - st.size) \o DataOf(k, st.size)

CodeLength(st) ==
    IF st.kind = "hook" THEN 4 ELSE IF IsString(st) THEN 2 + 2 * Lines(st.size) ELSE 2

\* What surrounds the code of a far write: the register that it is relative to, and a
\* reset.
Surrounded(w, s, e, st) ==
    /\ IF IsString(st) THEN w[s].op = "po" /\ w[s + 1].n = st.address
                       ELSE w[s].op = "ba" /\ w[s + 1].n = Segment(st.address)
    /\ w[e - 2].op = "reset"

\* The two words of a statement that is no write.
PairAt(w, p, st) ==
    /\ st.kind \in {"ba", "po"} => w[p].op = st.kind /\ w[p + 1].n = st.address
    /\ st.kind = "reset" => w[p].op = "reset"
    /\ st.kind = "if" => w[p].op = "if" /\ w[p].n = st.address
    /\ st.kind = "endif" => w[p].op = "endif" /\ w[p + 1].n = 0
    /\ st.kind = "endif reset" => w[p].op = "endif" /\ w[p + 1].n = Base
    /\ st.kind = "other" => w[p].op = "other"

\* The words of w from s up to e are those of statement k.
Says(w, s, e, st, k) ==
    /\ s \in Nat /\ e \in Nat
    /\ ~IsWrite(st) => e = s + 2 /\ PairAt(w, s, st)
    /\ IsWrite(st) /\ ~IsFar(st) => e = s + CodeLength(st) /\ CodeAt(w, s, st, k)
    /\ IsWrite(st) /\ IsFar(st) => /\ e = s + CodeLength(st) + 4 /\ CodeAt(w, s + 2, st, k)
                                   /\ Surrounded(w, s, e, st)

ContentsOK == Corrected => \A k \in 1..Len(starts) : Says(words, starts[k], End(k), statements[k], k)

----------------------------------------------------------------------------
(* What the handler has done *)

\* f[k] is what the reader knows behind statement k.
Effect == [src : Nat, at : Nat, address : Int]
Knowledge == [segment : Int, conditions : Seq(BOOLEAN), written : SUBSET Effect]
Reads(f) ==
    /\ f \in [0..Len(statements) -> Knowledge]
    /\ f[0] = Segments
    /\ \A k \in 1..Len(statements) : f[k] = Meaning(f[k - 1], k)

BeginOf(k) == IF k = Len(starts) + 1 THEN Len(words) + 1 ELSE starts[k]

\* The handler agrees with a reader, before a statement, and within a far write.
Agrees(s) == effects = s.written /\ status = s.conditions /\ Segment(ba) = s.segment
Entered(st, s) ==
    /\ effects = s.written /\ status = s.conditions
    /\ Executing => IF IsString(st) THEN po = st.address ELSE ba = Segment(st.address)

\* Wherever the handler is, it has done what the reader has read.
Follows(f) ==
    \/ \E k \in 1..(Len(starts) + 1) : ip = BeginOf(k) /\ Agrees(f[k - 1])
    \/ \E k \in 1..Len(starts) :
           /\ FarWrite(statements[k])
           /\ \/ ip = starts[k] + 2 /\ Entered(statements[k], f[k - 1])
              \/ ip = End(k) - 2 /\ effects = f[k].written

EffectsOK ==
    /\ phase \in {"encode", "failed"} => ba = Base /\ status = <<>> /\ effects = {}
    /\ phase \in {"run", "done"} /\ Corrected => \A f : Reads(f) => Follows(f)
    /\ phase = "done" => ip > Len(words)

EffectsInv == HandlerInv /\ ContentsOK /\ EffectsOK

\* How long the code of a write is.
LEMMA CodeLengthLemma ==
    ASSUME NEW st, st.size \in Nat
    PROVE  /\ CodeLength(st) \in Nat /\ CodeLength(st) >= 2
           /\ st.kind = "hook" => CodeLength(st) = 4
           /\ st.kind # "hook" /\ IsString(st) => CodeLength(st) = 2 + 2 * Lines(st.size)
           /\ st.kind # "hook" /\ ~IsString(st) => CodeLength(st) = 2
           /\ Lines(st.size) \in Nat
<1>1. PICK n \in Nat : n = st.size
  OBVIOUS
<1>2. (n + 7) \div 8 \in Nat
  OBVIOUS
<1>3. Lines(st.size) \in Nat
  BY <1>1, <1>2 DEF Lines
<1> QED
  BY <1>3 DEF CodeLength

\* A code that two lists have in common.
LEMMA CodeAlike ==
    ASSUME NEW w, NEW v, NEW p \in Nat, NEW d \in Nat, NEW st, NEW k, st.size \in Nat,
           CodeAt(w, p, st, k), \A q \in p..((p + CodeLength(st)) - 1) : v[q + d] = w[q]
    PROVE  CodeAt(v, p + d, st, k)
<1>1. PICK l \in Nat : l = CodeLength(st) /\ l >= 2
  BY CodeLengthLemma
<1>2. /\ p \in p..((p + l) - 1) /\ p + 1 \in p..((p + l) - 1)
      /\ (p + d) + 1 = (p + 1) + d
  BY <1>1
<1>3. v[p + d] = w[p] /\ v[(p + d) + 1] = w[p + 1]
  BY <1>1, <1>2
<1>4. st.kind = "hook" => v[(p + d) + 2] = w[p + 2]
  <2>1. st.kind = "hook" => p + 2 \in p..((p + l) - 1) /\ (p + d) + 2 = (p + 2) + d
    BY <1>1, CodeLengthLemma
  <2> QED
    BY <1>1, <2>1
<1>5. st.kind # "hook" /\ IsString(st) => BytesOf(v, p + d, st.size) = BytesOf(w, p, st.size)
  <2> SUFFICES ASSUME st.kind # "hook", IsString(st)
               PROVE  BytesOf(v, p + d, st.size) = BytesOf(w, p, st.size)
    OBVIOUS
  <2>1. PICK m \in Nat : m = Lines(st.size) /\ l = 2 + 2 * m
    BY <1>1, CodeLengthLemma
  <2>2. \A j \in 1..(2 * m) : p + 1 + j \in p..((p + l) - 1)
    BY <2>1
  <2>3. \A j \in 1..(2 * m) : v[(p + 1 + j) + d] = w[p + 1 + j]
    BY <1>1, <2>2
  <2>4. \A j \in 1..(2 * m) : (p + d) + 1 + j = (p + 1 + j) + d
    OBVIOUS
  <2>5. \A j \in 1..(2 * m) : v[(p + d) + 1 + j].bytes = w[p + 1 + j].bytes
    BY <2>3, <2>4
  <2>6. [j \in 1..(2 * m) |-> v[(p + d) + 1 + j].bytes] = [j \in 1..(2 * m) |-> w[p + 1 + j].bytes]
    BY <2>5
  <2> QED
    BY <2>1, <2>6 DEF BytesOf
<1>6. w[p].n = IF IsFar(st) /\ IsString(st) THEN 0 ELSE st.address % Low
  BY DEF CodeAt
<1>7. st.kind = "hook" => w[p].op = "c2" /\ w[p + 1].n = 1 /\ w[p + 2].bytes = DataOf(k, st.size)
  BY DEF CodeAt
<1>8. st.kind # "hook" /\ IsString(st) =>
          /\ w[p].op = (IF IsFar(st) THEN "16" ELSE "06") /\ w[p + 1].n = st.size
          /\ SubSeq(BytesOf(w, p, st.size), 1, st.size) = DataOf(k, st.size)
  BY DEF CodeAt
<1>9. st.kind # "hook" /\ ~IsString(st) =>
          /\ w[p].op = (CASE st.size = 1 -> "00" [] st.size = 2 -> "02" [] st.size = 4 -> "04")
          /\ w[p + 1].bytes = Zeros(4 - st.size) \o DataOf(k, st.size)
  BY DEF CodeAt
<1> QED
  BY <1>3, <1>4, <1>5, <1>6, <1>7, <1>8, <1>9 DEF CodeAt

\* What two lists have in common says the same.
LEMMA SaysAlike ==
    ASSUME NEW w, NEW v, NEW s \in Nat, NEW e \in Nat, NEW d \in Nat, NEW st, NEW k, st.size \in Nat,
           Says(w, s, e, st, k), \A q \in s..(e - 1) : v[q + d] = w[q]
    PROVE  Says(v, s + d, e + d, st, k)
<1>1. PICK l \in Nat : l = CodeLength(st) /\ l >= 2
  BY CodeLengthLemma
<1>2. s + d \in Nat /\ e + d \in Nat
  OBVIOUS
<1>3. CASE ~IsWrite(st)
  <2>1. e = s + 2 /\ PairAt(w, s, st)
    BY <1>3 DEF Says
  <2>2. s \in s..(e - 1) /\ s + 1 \in s..(e - 1) /\ (s + 1) + d = (s + d) + 1 /\ e + d = (s + d) + 2
    BY <2>1
  <2>3. v[s + d] = w[s] /\ v[(s + d) + 1] = w[s + 1]
    BY <2>2
  <2>4. PairAt(v, s + d, st)
    BY <2>1, <2>3 DEF PairAt
  <2> QED
    BY <1>2, <1>3, <2>2, <2>4 DEF Says
<1>4. CASE IsWrite(st) /\ ~IsFar(st)
  <2>1. e = s + l /\ CodeAt(w, s, st, k)
    BY <1>1, <1>4 DEF Says
  <2>2. \A q \in s..((s + l) - 1) : v[q + d] = w[q]
    BY <2>1
  <2>3. CodeAt(v, s + d, st, k)
    BY <1>1, <2>1, <2>2, CodeAlike
  <2>4. e + d = (s + d) + l
    BY <2>1
  <2> QED
    BY <1>1, <1>2, <1>4, <2>3, <2>4 DEF Says
<1>5. CASE IsWrite(st) /\ IsFar(st)
  <2>1. e = s + l + 4 /\ CodeAt(w, s + 2, st, k) /\ Surrounded(w, s, e, st)
    BY <1>1, <1>5 DEF Says
  <2>2. PICK p \in Nat : p = s + 2 /\ p + d = (s + d) + 2
    OBVIOUS
  <2>3. \A q \in p..((p + CodeLength(st)) - 1) : v[q + d] = w[q]
    <3>1. \A q \in p..((p + l) - 1) : q \in s..(e - 1)
      BY <2>1, <2>2
    <3> QED
      BY <1>1, <3>1
  <2>4. CodeAt(w, p, st, k)
    BY <2>1, <2>2
  <2>5. CodeAt(v, (s + d) + 2, st, k)
    <3>1. CodeAt(v, p + d, st, k)
      BY <2>3, <2>4, CodeAlike
    <3> QED
      BY <2>2, <3>1
  <2>6. e + d = (s + d) + l + 4
    BY <2>1
  <2>7. /\ s \in s..(e - 1) /\ s + 1 \in s..(e - 1) /\ e - 2 \in s..(e - 1)
        /\ (s + 1) + d = (s + d) + 1 /\ (e - 2) + d = (e + d) - 2
    BY <1>1, <2>1
  <2>8. v[s + d] = w[s] /\ v[(s + d) + 1] = w[s + 1] /\ v[(e + d) - 2] = w[e - 2]
    BY <2>7
  <2>9. Surrounded(v, s + d, e + d, st)
    BY <2>1, <2>8 DEF Surrounded
  <2> QED
    BY <1>1, <1>2, <1>5, <2>5, <2>6, <2>9 DEF Says
<1> QED
  BY <1>3, <1>4, <1>5

\* Words that follow change nothing.
LEMMA SaysBefore ==
    ASSUME NEW w \in Seq(Word), NEW v \in Seq(Word), NEW s \in Nat \ {0}, NEW e \in Nat, NEW st, NEW k,
           st.size \in Nat, Says(w, s, e, st, k), e <= Len(w) + 1
    PROVE  Says(w \o v, s, e, st, k)
<1>1. Len(w) \in Nat
  BY LenProperties
<1>2. ASSUME NEW q \in s..(e - 1)
      PROVE  (w \o v)[q + 0] = w[q]
  <2>1. q + 0 = q /\ q \in 1..Len(w)
    BY <1>1
  <2> QED
    BY <2>1, ConcatProperties
<1>3. Says(w \o v, s + 0, e + 0, st, k)
  BY <1>2, SaysAlike
<1>4. s + 0 = s /\ e + 0 = e
  OBVIOUS
<1> QED
  BY <1>3, <1>4

\* Nor do words in front.
LEMMA SaysBehind ==
    ASSUME NEW w \in Seq(Word), NEW v \in Seq(Word), NEW st, NEW k, st.size \in Nat,
           Says(v, 1, Len(v) + 1, st, k)
    PROVE  Says(w \o v, Len(w) + 1, Len(w) + Len(v) + 1, st, k)
<1>1. Len(w) \in Nat /\ Len(v) \in Nat
  BY LenProperties
<1>2. ASSUME NEW q \in 1..((Len(v) + 1) - 1)
      PROVE  (w \o v)[q + Len(w)] = v[q]
  <2>1. /\ (q + Len(w)) - Len(w) = q
        /\ q + Len(w) \in 1..(Len(w) + Len(v))
        /\ ~(q + Len(w) <= Len(w))
    BY <1>1
  <2> QED
    BY <2>1, ConcatProperties
<1>3. Len(v) + 1 \in Nat /\ 1 \in Nat
  BY <1>1
<1>4. Says(w \o v, 1 + Len(w), (Len(v) + 1) + Len(w), st, k)
  BY <1>1, <1>2, <1>3, SaysAlike
<1>5. 1 + Len(w) = Len(w) + 1 /\ (Len(v) + 1) + Len(w) = Len(w) + Len(v) + 1
  BY <1>1
<1> QED
  BY <1>4, <1>5

----------------------------------------------------------------------------
(* What encodings say *)

\* Bytes that were cut into words of four are there again when the words are joined.
LEMMA JoinedWords ==
    ASSUME NEW bs \in Seq(Byte), NEW m \in Nat, Len(bs) = 4 * m, NEW ss,
           ss = [j \in 1..m |-> SubSeq(bs, 4 * j - 3, 4 * j)], m > 0
    PROVE  /\ FlattenSeq(ss) \in Seq(Byte) /\ Len(FlattenSeq(ss)) >= 4 * m
           /\ \A q \in 1..(4 * m) : FlattenSeq(ss)[q] = bs[q]
<1>1. \A q \in 1..(4 * m) : bs[q] \in Byte
  BY ElementOfSeq
<1>2. ASSUME NEW j \in 1..m
      PROVE  /\ ss[j] \in Seq(Byte) /\ Len(ss[j]) = 4
             /\ \A i \in 1..4 : ss[j][i] = bs[4 * (j - 1) + i]
  <2>1. PICK a \in Int, e \in Int : /\ a = 4 * j - 3 /\ e = 4 * j /\ e - a + 1 = 4 /\ a <= e
                                    /\ a >= 1 /\ e <= 4 * m
    OBVIOUS
  <2>2. \A i \in a..e : bs[i] \in Byte
    BY <1>1, <2>1
  <2>3. /\ SubSeq(bs, a, e) \in Seq(Byte)
        /\ Len(SubSeq(bs, a, e)) = IF a <= e THEN e - a + 1 ELSE 0
        /\ \A i \in 1..(e - a + 1) : SubSeq(bs, a, e)[i] = bs[a + i - 1]
    BY <2>2, SubSeqProperties
  <2>4. ss[j] = SubSeq(bs, a, e)
    BY <2>1
  <2>5. \A i \in 1..4 : a + i - 1 = 4 * (j - 1) + i
    BY <2>1
  <2>6. \A i \in 1..4 : SubSeq(bs, a, e)[i] = bs[a + i - 1]
    BY <2>1, <2>3
  <2> QED
    BY <2>1, <2>3, <2>4, <2>5, <2>6
<1>3. ss \in Seq(Seq(Byte)) /\ Len(ss) = m
  <2>1. ss \in [1..m -> Seq(Byte)]
    BY <1>2
  <2>2. ss \in Seq(Seq(Byte))
    BY <2>1, SeqDef
  <2> QED
    BY <2>1, <2>2, LenProperties
<1>4. PICK at : FlatAt(Byte, ss, FlattenSeq(ss), at)
  BY <1>3, FlattenLemma
<1>5. PICK flat : flat = FlattenSeq(ss)
  OBVIOUS
<1>6. /\ at \in [1..m -> Nat] /\ at[1] = 0
      /\ \A j \in 1..(m - 1) : at[j + 1] = at[j] + Len(ss[j])
      /\ flat \in Seq(Byte)
      /\ \A j \in 1..m : at[j] + Len(ss[j]) <= Len(flat)
      /\ \A j \in 1..m : \A i \in 1..Len(ss[j]) : flat[at[j] + i] = ss[j][i]
  BY <1>3, <1>4, <1>5 DEF FlatAt
<1>7. \A j \in 1..m : at[j] = 4 * (j - 1)
  <2> DEFINE T == {j \in Nat : at[j] = 4 * (j - 1)}
  <2>1. 1 \in T
    BY <1>6
  <2>2. ASSUME NEW j \in 1..(m - 1), j \in T
        PROVE  j + 1 \in T
    <3>1. at[j + 1] = at[j] + 4
      <4>1. j \in 1..m
        OBVIOUS
      <4>2. at[j + 1] = at[j] + Len(ss[j]) /\ Len(ss[j]) = 4
        BY <1>2, <1>6, <4>1
      <4> QED
        BY <4>2
    <3>2. at[j + 1] = 4 * ((j + 1) - 1)
      BY <2>2, <3>1
    <3> QED
      BY <3>2
  <2> HIDE DEF T
  <2>3. \A j \in 1..m : j \in T
    BY <2>1, <2>2, UpTo
  <2> QED
    BY <2>3 DEF T
<1>8. Len(flat) >= 4 * m
  <2>1. m \in 1..m
    OBVIOUS
  <2>2. at[m] + 4 <= Len(flat) /\ at[m] = 4 * (m - 1) /\ Len(flat) \in Nat
    BY <1>2, <1>6, <1>7, <2>1, LenProperties
  <2> QED
    BY <2>2
<1>9. ASSUME NEW q \in 1..(4 * m)
      PROVE  flat[q] = bs[q]
  <2>1. PICK j \in 1..m, i \in 1..4 : q = 4 * (j - 1) + i
    <3>1. PICK a \in Nat : a = (q - 1) \div 4 /\ 4 * a <= q - 1 /\ q - 1 < 4 * a + 4
      OBVIOUS
    <3>2. a + 1 \in 1..m /\ q - 4 * a \in 1..4
      BY <3>1
    <3>3. q = 4 * ((a + 1) - 1) + (q - 4 * a)
      BY <3>1
    <3> QED
      BY <3>2, <3>3
  <2>2. flat[at[j] + i] = ss[j][i] /\ at[j] = 4 * (j - 1)
    BY <1>2, <1>6, <1>7
  <2>3. ss[j][i] = bs[4 * (j - 1) + i]
    BY <1>2
  <2> QED
    BY <2>1, <2>2, <2>3
<1> QED
  BY <1>5, <1>6, <1>8, <1>9

\* The data of a statement carry its number.
LEMMA DataOfLemma ==
    ASSUME NEW k \in Nat, NEW n \in Nat
    PROVE  /\ DataOf(k, n) \in Seq(Byte) /\ Len(DataOf(k, n)) = n
           /\ \A j \in 1..n : DataOf(k, n)[j] = [src |-> k, at |-> j]
<1>1. \A j \in 1..n : [src |-> k, at |-> j] \in Byte
  BY DEF Byte
<1>2. DataOf(k, n) \in [1..n -> Byte]
  BY <1>1 DEF DataOf
<1>3. DataOf(k, n) \in Seq(Byte)
  BY <1>2, SeqDef
<1>4. Len(DataOf(k, n)) = n
  BY <1>2, <1>3, LenProperties
<1> QED
  BY <1>3, <1>4 DEF DataOf

\* n bytes of data and z of padding are m words.
Fills(n, z, m) == n + z = 4 * m

\* The words behind p of c are the bytes bs.
CutAt(c, p, bs, m) == \A j \in 1..m : c[p + 1 + j].bytes = SubSeq(bs, 4 * j - 3, 4 * j)

\* The bytes bs begin with the data of statement k, and are m words.
IsPadded(bs, k, n, m) ==
    /\ bs \in Seq(Byte) /\ Len(bs) = 4 * m
    /\ InWords(bs) \in Seq(Word) /\ Len(InWords(bs)) = m
    /\ \A q \in 1..n : bs[q] = DataOf(k, n)[q]
    /\ \A j \in 1..m : InWords(bs)[j].bytes = SubSeq(bs, 4 * j - 3, 4 * j)

\* The words of data in front of padding.
LEMMA PaddedWords ==
    ASSUME NEW k \in Nat, NEW n \in Nat, NEW z \in Nat, NEW m \in Nat, Fills(n, z, m)
    PROVE  IsPadded(DataOf(k, n) \o Zeros(z), k, n, m)
<1>1. PICK bs : bs = DataOf(k, n) \o Zeros(z)
  OBVIOUS
<1>2. /\ DataOf(k, n) \in Seq(Byte) /\ Len(DataOf(k, n)) = n
      /\ Zeros(z) \in Seq(Byte) /\ Len(Zeros(z)) = z
  BY DataOfLemma, ZerosLemma
<1>3. /\ bs \in Seq(Byte) /\ Len(bs) = n + z
      /\ \A q \in 1..(n + z) : bs[q] = IF q <= n THEN DataOf(k, n)[q] ELSE Zeros(z)[q - n]
  <2>1. PICK a \in Seq(Byte), b \in Seq(Byte) : a = DataOf(k, n) /\ b = Zeros(z)
    BY <1>2
  <2>2. /\ a \o b \in Seq(Byte) /\ Len(a \o b) = Len(a) + Len(b)
        /\ \A q \in 1..(Len(a) + Len(b)) : (a \o b)[q] = IF q <= Len(a) THEN a[q] ELSE b[q - Len(a)]
    BY ConcatProperties
  <2>3. Len(a) = n /\ Len(b) = z /\ bs = a \o b
    BY <1>1, <1>2, <2>1
  <2> QED
    BY <2>1, <2>2, <2>3
<1>4. \A q \in 1..n : bs[q] = DataOf(k, n)[q]
  BY <1>3
<1>5. Len(bs) \div 4 = m /\ Len(bs) = 4 * m
  BY <1>3 DEF Fills
<1>6. InWords(bs) \in Seq(Word) /\ Len(InWords(bs)) = m
  BY <1>3, <1>5, InWordsLemma
<1>7. InWords(bs) = [j \in 1..m |-> Bytes(SubSeq(bs, 4 * j - 3, 4 * j))]
  BY <1>5 DEF InWords
<1>8. \A j \in 1..m : InWords(bs)[j].bytes = SubSeq(bs, 4 * j - 3, 4 * j)
  BY <1>7 DEF Bytes
<1> QED
  BY <1>1, <1>3, <1>4, <1>5, <1>6, <1>8 DEF IsPadded

\* The words behind p of c are the data of statement k in whole lines, and what the
\* handler takes of them.
LinesAt(c, p, k, n) == CutAt(c, p, DataOf(k, n) \o Zeros(Padding(n)), 2 * Lines(n))
TakenAt(c, p, k, n) == SubSeq(BytesOf(c, p, n), 1, n) = DataOf(k, n)

\* The data of a string are what its words say, up to its size.
LEMMA StringData ==
    ASSUME NEW c, NEW p \in Nat, NEW k \in Nat, NEW n \in Nat, LinesAt(c, p, k, n)
    PROVE  TakenAt(c, p, k, n)
<1>1. PICK m \in Nat : m = 2 * Lines(n) /\ n + Padding(n) = 4 * m /\ Padding(n) \in Nat
  <2>1. Padding(n) \in Nat /\ n + Padding(n) = 4 * (2 * ((n + 7) \div 8))
    BY StringLength
  <2>2. 2 * ((n + 7) \div 8) \in Nat
    OBVIOUS
  <2> QED
    BY <2>1, <2>2 DEF Lines
<1>2. PICK bs : bs = DataOf(k, n) \o Zeros(Padding(n))
  OBVIOUS
<1>3. bs \in Seq(Byte) /\ Len(bs) = 4 * m /\ \A q \in 1..n : bs[q] = DataOf(k, n)[q]
  <2>1. PICK z \in Nat : z = Padding(n) /\ Fills(n, z, m)
    BY <1>1 DEF Fills
  <2>2. IsPadded(DataOf(k, n) \o Zeros(z), k, n, m)
    BY <2>1, PaddedWords
  <2>3. bs = DataOf(k, n) \o Zeros(z)
    BY <1>2, <2>1
  <2> QED
    BY <2>2, <2>3 DEF IsPadded
<1>4. PICK ss : ss = [j \in 1..m |-> SubSeq(bs, 4 * j - 3, 4 * j)]
  OBVIOUS
<1>5. BytesOf(c, p, n) = FlattenSeq(ss)
  <2>1. \A j \in 1..m : c[p + 1 + j].bytes = SubSeq(bs, 4 * j - 3, 4 * j)
    BY <1>1, <1>2 DEF LinesAt, CutAt
  <2>2. [j \in 1..m |-> c[p + 1 + j].bytes] = ss
    BY <2>1, <1>4
  <2> QED
    BY <1>1, <2>2 DEF BytesOf
<1>6. DataOf(k, n) \in Seq(Byte) /\ Len(DataOf(k, n)) = n
  BY DataOfLemma
<1>7. ASSUME n = 0
      PROVE  SubSeq(BytesOf(c, p, n), 1, n) = DataOf(k, n)
  <2>1. SubSeq(BytesOf(c, p, n), 1, n) = <<>>
    BY <1>7, SubSeqEmpty
  <2>2. DataOf(k, n) = <<>>
    BY <1>6, <1>7, EmptySeq
  <2> QED
    BY <2>1, <2>2
<1>8. ASSUME n > 0
      PROVE  SubSeq(BytesOf(c, p, n), 1, n) = DataOf(k, n)
  <2>1. m > 0 /\ n <= 4 * m
    BY <1>1, <1>8
  <2>2. PICK flat : /\ flat = FlattenSeq(ss) /\ flat \in Seq(Byte) /\ Len(flat) >= 4 * m
                    /\ \A q \in 1..(4 * m) : flat[q] = bs[q]
    <3>1. bs \in Seq(Byte) /\ Len(bs) = 4 * m /\ m > 0
      BY <1>3, <2>1
    <3>2. /\ FlattenSeq(ss) \in Seq(Byte) /\ Len(FlattenSeq(ss)) >= 4 * m
          /\ \A q \in 1..(4 * m) : FlattenSeq(ss)[q] = bs[q]
      BY <1>4, <3>1, JoinedWords
    <3> QED
      BY <3>2
  <2>3. \A q \in 1..n : flat[q] = DataOf(k, n)[q] /\ flat[q] \in Byte
    <3>1. \A q \in 1..n : q \in 1..(4 * m) /\ q \in 1..Len(DataOf(k, n))
      BY <1>6, <2>1
    <3>2. \A q \in 1..n : DataOf(k, n)[q] \in Byte
      BY <1>6, <3>1, ElementOfSeq
    <3> QED
      BY <1>3, <2>2, <3>1, <3>2
  <2>4. PICK s : s = SubSeq(flat, 1, n)
    OBVIOUS
  <2>5. s \in Seq(Byte) /\ Len(s) = n /\ \A q \in 1..n : s[q] = flat[q]
    <3>1. /\ SubSeq(flat, 1, n) \in Seq(Byte)
          /\ Len(SubSeq(flat, 1, n)) = IF 1 <= n THEN n - 1 + 1 ELSE 0
          /\ \A i \in 1..(n - 1 + 1) : SubSeq(flat, 1, n)[i] = flat[1 + i - 1]
      BY <2>3, SubSeqProperties
    <3>2. n - 1 + 1 = n /\ 1 <= n /\ \A i \in 1..n : 1 + i - 1 = i
      BY <1>8
    <3> QED
      BY <2>4, <3>1, <3>2
  <2>6. s = DataOf(k, n)
    <3>1. \A q \in 1..n : s[q] = DataOf(k, n)[q]
      BY <2>3, <2>5
    <3> QED
      BY <1>6, <2>5, <3>1, SeqEqual
  <2> QED
    BY <1>5, <2>2, <2>4, <2>6
<1>9. n = 0 \/ n > 0
  OBVIOUS
<1> QED
  BY <1>7, <1>8, <1>9 DEF TakenAt

\* The words of two lists that are joined.
LEMMA JoinedLists ==
    ASSUME NEW a \in Seq(Word), NEW b \in Seq(Word)
    PROVE  /\ a \o b \in Seq(Word) /\ Len(a \o b) = Len(a) + Len(b)
           /\ Len(a) \in Nat /\ Len(b) \in Nat
           /\ \A j \in 1..Len(a) : (a \o b)[j] = a[j]
           /\ \A j \in 1..Len(b) : (a \o b)[Len(a) + j] = b[j]
<1>1. Len(a) \in Nat /\ Len(b) \in Nat
  BY LenProperties
<1>2. /\ a \o b \in Seq(Word) /\ Len(a \o b) = Len(a) + Len(b)
      /\ \A j \in 1..(Len(a) + Len(b)) : (a \o b)[j] = IF j <= Len(a) THEN a[j] ELSE b[j - Len(a)]
  BY ConcatProperties
<1>3. \A j \in 1..Len(a) : (a \o b)[j] = a[j]
  BY <1>1, <1>2
<1>4. ASSUME NEW j \in 1..Len(b)
      PROVE  (a \o b)[Len(a) + j] = b[j]
  <2>1. /\ Len(a) + j \in 1..(Len(a) + Len(b)) /\ ~(Len(a) + j <= Len(a))
        /\ (Len(a) + j) - Len(a) = j
    BY <1>1
  <2> QED
    BY <1>2, <2>1
<1> QED
  BY <1>1, <1>2, <1>3, <1>4

\* The code of a string.
LEMMA StringCode ==
    ASSUME NEW st \in Write, IsString(st), Len(statements) \in Nat,
           NEW k, k = Len(statements) + 1
    PROVE  LET c == <<HeadWord(Code(st), Operand(st))>> \o Payload(st) IN
           Len(c) = CodeLength(st) /\ CodeAt(c, 1, st, k)
<1>1. PICK n \in Nat, m \in Nat : n = st.size /\ m = 2 * Lines(n) /\ n + Padding(n) = 4 * m /\ Padding(n) \in Nat
  <2>1. st.size \in Nat
    BY StatementLemma DEF Statement
  <2>2. PICK n \in Nat : n = st.size
    BY <2>1
  <2>3. Padding(n) \in Nat /\ n + Padding(n) = 4 * (2 * ((n + 7) \div 8))
    BY StringLength
  <2>4. 2 * ((n + 7) \div 8) \in Nat
    OBVIOUS
  <2> QED
    BY <2>2, <2>3, <2>4 DEF Lines
<1>2. PICK h : h = HeadWord(Code(st), Operand(st))
  OBVIOUS
<1>3. PICK d : d = Payload(st)
  OBVIOUS
<1>4. <<h>> \in Seq(Word) /\ d \in Seq(Word)
  BY <1>2, <1>3, PayloadLemma
<1>5. PICK bs : bs = DataOf(k, n) \o Zeros(Padding(n))
  OBVIOUS
<1>6. k \in Nat
  OBVIOUS
<1>7. PICK w \in Seq(Word) : /\ w = InWords(bs) /\ Len(w) = m
                             /\ \A j \in 1..m : w[j].bytes = SubSeq(bs, 4 * j - 3, 4 * j)
  <2>1. PICK z \in Nat : z = Padding(n) /\ Fills(n, z, m)
    BY <1>1 DEF Fills
  <2>2. bs = DataOf(k, n) \o Zeros(z)
    BY <1>5, <2>1
  <2>3. IsPadded(DataOf(k, n) \o Zeros(z), k, n, m)
    BY <1>6, <2>1, PaddedWords
  <2> QED
    BY <2>2, <2>3 DEF IsPadded
<1>8. PICK o \in Word : o = Number(n) /\ o.n = n
  <2>1. "06" \in Heads /\ n \in Int
    BY DEF Heads
  <2>2. Number(n) \in Word
    BY <2>1, WordLemma
  <2> QED
    BY <2>2 DEF Number
<1>9. d = <<o>> \o w
  <2>1. Data(st) = DataOf(k, n)
    BY <1>1 DEF Data, DataOf
  <2>2. Payload(st) = <<Number(st.size)>> \o InWords(Data(st) \o Zeros(Padding(st.size)))
    BY DEF Payload
  <2> QED
    BY <1>1, <1>3, <1>5, <1>7, <1>8, <2>1, <2>2
<1>10. <<h>> \in Seq(Word) /\ Len(<<h>>) = 1 /\ <<h>>[1] = h /\ <<o>> \in Seq(Word) /\ Len(<<o>>) = 1 /\ <<o>>[1] = o
  BY <1>4
<1>11. /\ Len(d) = 1 + m /\ d[1] = o
       /\ \A j \in 1..m : d[1 + j] = w[j]
  <2>1. /\ Len(<<o>> \o w) = 1 + Len(w)
        /\ \A j \in 1..1 : (<<o>> \o w)[j] = <<o>>[j]
        /\ \A j \in 1..Len(w) : (<<o>> \o w)[1 + j] = w[j]
    BY <1>10, JoinedLists
  <2> QED
    BY <1>7, <1>9, <1>10, <2>1
<1>12. PICK c : c = <<h>> \o d
  OBVIOUS
<1>13. /\ Len(c) = 1 + Len(d) /\ c[1] = h
       /\ \A j \in 1..Len(d) : c[1 + j] = d[j]
  <2>1. /\ Len(<<h>> \o d) = 1 + Len(d)
        /\ \A j \in 1..1 : (<<h>> \o d)[j] = <<h>>[j]
        /\ \A j \in 1..Len(d) : (<<h>> \o d)[1 + j] = d[j]
    BY <1>4, <1>10, JoinedLists
  <2> QED
    BY <1>10, <1>12, <2>1
<1>14. c[2] = o
  <2>1. 1 \in 1..Len(d) /\ 1 + 1 = 2
    BY <1>11
  <2>2. c[1 + 1] = d[1]
    BY <1>13, <2>1
  <2> QED
    BY <1>11, <2>2
<1>15. ASSUME NEW j \in 1..m
       PROVE  c[1 + 1 + j] = w[j]
  <2>1. 1 + j \in 1..Len(d) /\ 1 + (1 + j) = 1 + 1 + j
    BY <1>11
  <2>2. c[1 + (1 + j)] = d[1 + j]
    BY <1>13, <2>1
  <2> QED
    BY <1>11, <2>1, <2>2
<1>16. SubSeq(BytesOf(c, 1, n), 1, n) = DataOf(k, n)
  <2>1. PICK p \in Nat : p = 1
    OBVIOUS
  <2>2. \A j \in 1..m : c[p + 1 + j].bytes = SubSeq(bs, 4 * j - 3, 4 * j)
    BY <1>7, <1>15, <2>1
  <2>3. CutAt(c, p, bs, m)
    BY <2>2 DEF CutAt
  <2>4. LinesAt(c, p, k, n)
    BY <1>1, <1>5, <2>3 DEF LinesAt
  <2>5. TakenAt(c, p, k, n)
    BY <1>6, <2>4, StringData
  <2> QED
    BY <2>1, <2>5 DEF TakenAt
<1>17. st.kind # "hook"
  BY DEF Write
<1>18. Len(c) = CodeLength(st)
  <2>1. CodeLength(st) = 2 + m
    BY <1>1, <1>17 DEF CodeLength
  <2> QED
    BY <1>11, <1>13, <2>1
<1>19. h.op = (IF IsFar(st) THEN "16" ELSE "06")
  BY <1>2 DEF HeadWord, Code
<1>20. h.n = IF IsFar(st) /\ IsString(st) THEN 0 ELSE st.address % Low
  BY <1>2 DEF HeadWord, Operand
<1>21. c[1 + 1].n = st.size
  BY <1>1, <1>8, <1>14
<1>22. CodeAt(c, 1, st, k)
  BY <1>1, <1>13, <1>16, <1>17, <1>19, <1>20, <1>21 DEF CodeAt
<1> QED
  BY <1>2, <1>3, <1>12, <1>18, <1>22

\* The code of a scalar or an instruction.
LEMMA ScalarCode ==
    ASSUME NEW st \in Write, ~IsString(st), Len(statements) \in Nat, "MEM2Writes" \in policy,
           NEW k, k = Len(statements) + 1
    PROVE  LET c == <<HeadWord(Code(st), Operand(st))>> \o Payload(st) IN
           Len(c) = CodeLength(st) /\ CodeAt(c, 1, st, k)
<1>1. PICK n \in {1, 2, 4} : n = st.size
  BY DEF IsString
<1>2. PICK h : h = HeadWord(Code(st), Operand(st))
  OBVIOUS
<1>3. PICK d : d = Payload(st)
  OBVIOUS
<1>4. <<h>> \in Seq(Word) /\ d \in Seq(Word)
  BY <1>2, <1>3, PayloadLemma
<1>5. k \in Nat /\ n \in Nat /\ 4 - n \in Nat
  BY <1>1
<1>6. PICK a \in Seq(Byte), b \in Seq(Byte) : a = Zeros(4 - n) /\ b = DataOf(k, n) /\ Len(a) = 4 - n /\ Len(b) = n
  <2>1. PICK z \in Nat : z = 4 - n
    BY <1>5
  <2>2. Zeros(z) \in Seq(Byte) /\ Len(Zeros(z)) = z
    BY ZerosLemma
  <2>3. DataOf(k, n) \in Seq(Byte) /\ Len(DataOf(k, n)) = n
    BY <1>5, DataOfLemma
  <2> QED
    BY <2>1, <2>2, <2>3
<1>7. PICK bs \in Seq(Byte) : bs = a \o b /\ Len(bs) = 4
  <2>1. a \o b \in Seq(Byte) /\ Len(a \o b) = Len(a) + Len(b)
    BY ConcatProperties
  <2>2. Len(a) + Len(b) = 4
    BY <1>1, <1>6
  <2> QED
    BY <2>1, <2>2
<1>8. d = InWords(bs)
  <2>1. Data(st) = DataOf(k, n)
    BY <1>1 DEF Data, DataOf
  <2> QED
    BY <1>1, <1>3, <1>6, <1>7, <2>1 DEF Payload
<1>9. Len(d) = 1 /\ d[1].bytes = bs
  <2>1. d = [j \in 1..1 |-> Bytes(SubSeq(bs, 4 * j - 3, 4 * j))]
    <3>1. 4 \div 4 = 1
      OBVIOUS
    <3> QED
      BY <1>7, <1>8, <3>1 DEF InWords
  <2>2. Len(d) = 1
    <3>1. Len(d) = Len(bs) \div 4
      BY <1>8, InWordsLemma
    <3> QED
      BY <1>7, <3>1
  <2>3. d[1].bytes = SubSeq(bs, 4 * 1 - 3, 4 * 1)
    BY <2>1 DEF Bytes
  <2>4. SubSeq(bs, 1, Len(bs)) = bs
    BY SubSeqFull
  <2>5. 4 * 1 - 3 = 1 /\ 4 * 1 = Len(bs)
    BY <1>7
  <2> QED
    BY <2>2, <2>3, <2>4, <2>5
<1>10. <<h>> \in Seq(Word) /\ Len(<<h>>) = 1 /\ <<h>>[1] = h
  BY <1>4
<1>11. PICK c : c = <<h>> \o d
  OBVIOUS
<1>12. Len(c) = 2 /\ c[1] = h /\ c[1 + 1] = d[1]
  <2>1. /\ Len(<<h>> \o d) = 1 + Len(d)
        /\ \A j \in 1..1 : (<<h>> \o d)[j] = <<h>>[j]
        /\ \A j \in 1..Len(d) : (<<h>> \o d)[1 + j] = d[j]
    BY <1>4, <1>10, JoinedLists
  <2>2. 1 \in 1..Len(d) /\ 1 \in 1..1
    BY <1>9
  <2> QED
    BY <1>9, <1>10, <1>11, <2>1, <2>2
<1>13. st.kind # "hook"
  BY DEF Write
<1>14. Len(c) = CodeLength(st)
  BY <1>12, <1>13 DEF CodeLength
<1>15. h.op = (CASE st.size = 1 -> "00" [] st.size = 2 -> "02" [] st.size = 4 -> "04")
  BY <1>2 DEF HeadWord, Code
<1>16. h.n = IF IsFar(st) /\ IsString(st) THEN 0 ELSE st.address % Low
  BY <1>2 DEF HeadWord, Operand
<1>17. c[1 + 1].bytes = Zeros(4 - st.size) \o DataOf(k, st.size)
  BY <1>1, <1>6, <1>7, <1>9, <1>12
<1>18. CodeAt(c, 1, st, k)
  BY <1>12, <1>13, <1>15, <1>16, <1>17 DEF CodeAt
<1> QED
  BY <1>2, <1>3, <1>11, <1>14, <1>18

\* A code with what surrounds it.
LEMMA FramedSays ==
    ASSUME NEW st, IsWrite(st), st.size \in Nat, NEW k,
           NEW x \in Seq(Word), NEW c \in Seq(Word), NEW r \in Seq(Word),
           Len(c) = CodeLength(st), CodeAt(c, 1, st, k),
           IF IsFar(st) THEN /\ Len(x) = 2 /\ Len(r) = 2 /\ r[1].op = "reset"
                             /\ IF IsString(st) THEN x[1].op = "po" /\ x[2].n = st.address
                                                ELSE x[1].op = "ba" /\ x[2].n = Segment(st.address)
                        ELSE x = <<>> /\ r = <<>>
    PROVE  LET w == (x \o c) \o r IN Says(w, 1, Len(w) + 1, st, k)
<1>1. PICK l \in Nat : l = CodeLength(st) /\ l = Len(c)
  BY CodeLengthLemma
<1>2. PICK y : y = x \o c
  OBVIOUS
<1>3. PICK w : w = y \o r
  OBVIOUS
<1>4. CASE ~IsFar(st)
  <2>1. x \o c = c /\ c \o r = c
    BY <1>4, ConcatEmptySeq
  <2>2. w = c
    BY <1>2, <1>3, <1>4, <2>1
  <2>3. Len(w) + 1 = 1 + l /\ 1 \in Nat /\ Len(w) + 1 \in Nat
    BY <1>1, <2>2
  <2>4. Says(w, 1, Len(w) + 1, st, k)
    BY <1>1, <1>4, <2>2, <2>3 DEF Says
  <2> QED
    BY <1>2, <1>3, <2>4
<1>5. CASE IsFar(st)
  <2>1. /\ Len(x) = 2 /\ Len(r) = 2 /\ r[1].op = "reset"
        /\ IF IsString(st) THEN x[1].op = "po" /\ x[2].n = st.address
                           ELSE x[1].op = "ba" /\ x[2].n = Segment(st.address)
    BY <1>5
  <2>2. /\ y \in Seq(Word) /\ Len(y) = 2 + l
        /\ \A j \in 1..2 : y[j] = x[j]
        /\ \A j \in 1..l : y[2 + j] = c[j]
    <3>1. /\ x \o c \in Seq(Word) /\ Len(x \o c) = Len(x) + Len(c)
          /\ \A j \in 1..Len(x) : (x \o c)[j] = x[j]
          /\ \A j \in 1..Len(c) : (x \o c)[Len(x) + j] = c[j]
      BY JoinedLists
    <3> QED
      BY <1>1, <1>2, <2>1, <3>1
  <2>3. PICK m \in Nat : m = 2 + l
    OBVIOUS
  <2>4. /\ Len(w) = m + 2
        /\ \A j \in 1..m : w[j] = y[j]
        /\ \A j \in 1..2 : w[m + j] = r[j]
    <3>1. m = Len(y)
      BY <2>2, <2>3
    <3>2. /\ Len(y \o r) = Len(y) + Len(r)
          /\ \A j \in 1..Len(y) : (y \o r)[j] = y[j]
          /\ \A j \in 1..Len(r) : (y \o r)[Len(y) + j] = r[j]
      BY <2>2, JoinedLists
    <3> QED
      BY <1>3, <2>1, <3>1, <3>2
  <2>5. w[1] = x[1] /\ w[1 + 1] = x[2]
    <3>1. 1 \in 1..m /\ 1 + 1 \in 1..m
      BY <2>3
    <3>2. w[1] = y[1] /\ w[1 + 1] = y[1 + 1]
      BY <2>4, <3>1
    <3> QED
      BY <2>2, <3>2
  <2>6. PICK e \in Nat : e = Len(w) + 1 /\ e = 1 + l + 4 /\ e - 2 = m + 1
    BY <2>3, <2>4
  <2>7. w[e - 2] = r[1]
    <3>1. 1 \in 1..2
      OBVIOUS
    <3>2. w[m + 1] = r[1]
      BY <2>4, <3>1
    <3> QED
      BY <2>6, <3>2
  <2>8. Surrounded(w, 1, e, st)
    BY <2>1, <2>5, <2>7 DEF Surrounded
  <2>9. CodeAt(w, 1 + 2, st, k)
    <3>1. ASSUME NEW q \in 1..((1 + CodeLength(st)) - 1)
          PROVE  w[q + 2] = c[q]
      <4>1. q \in 1..l /\ q + 2 = 2 + q /\ 2 + q \in 1..m
        BY <1>1, <2>3
      <4> QED
        BY <2>2, <2>4, <4>1
    <3>2. 1 \in Nat /\ 2 \in Nat
      OBVIOUS
    <3> QED
      BY <3>1, <3>2, CodeAlike
  <2>10. Says(w, 1, e, st, k)
    <3>1. e = 1 + CodeLength(st) + 4 /\ 1 \in Nat
      BY <1>1, <2>6
    <3> QED
      BY <1>5, <2>8, <2>9, <3>1 DEF Says
  <2> QED
    BY <1>2, <1>3, <2>6, <2>10
<1> QED
  BY <1>4, <1>5

\* What a far write sets, and resets.
LEMMA FrameWords ==
    ASSUME NEW op \in {"ba", "po"}, NEW n \in Int
    PROVE  LET x == <<HeadWord(op, 0), Number(n)>> IN
           /\ x \in Seq(Word) /\ Len(x) = 2 /\ x[1].op = op /\ x[2].n = n
           /\ ResetWords \in Seq(Word) /\ Len(ResetWords) = 2 /\ ResetWords[1].op = "reset"
<1>1. op \in Heads
  BY DEF Heads
<1>2. HeadWord(op, 0) \in Word /\ Number(n) \in Word
  BY <1>1, WordLemma
<1>3. HeadWord(op, 0).op = op /\ Number(n).n = n
  BY DEF HeadWord, Number
<1> QED
  BY <1>2, <1>3, ResetLaid

\* The words of a write say what it writes.
LEMMA WriteSays ==
    ASSUME NEW st \in Write, Len(statements) \in Nat, "MEM2Writes" \in policy,
           NEW k, k = Len(statements) + 1
    PROVE  LET w == WriteWords(st) IN Says(w, 1, Len(w) + 1, st, k)
<1>1. st.address \in Int /\ Segment(st.address) \in Int /\ st.size \in Nat
  BY StatementLemma DEF Statement
<1>2. IsWrite(st)
  BY DEF Write, IsWrite
<1>3. PICK h, d : h = <<HeadWord(Code(st), Operand(st))>> /\ d = Payload(st)
  OBVIOUS
<1>4. PICK c : c = h \o d
  OBVIOUS
<1>5. h \in Seq(Word) /\ d \in Seq(Word) /\ c \in Seq(Word)
  BY <1>3, <1>4, PayloadLemma
<1>6. Len(c) = CodeLength(st) /\ CodeAt(c, 1, st, k)
  BY <1>3, <1>4, StringCode, ScalarCode
<1>7. PICK x, r : x = Prefix(st) /\ r = (IF IsFar(st) THEN ResetWords ELSE <<>>)
  OBVIOUS
<1>8. /\ x \in Seq(Word) /\ r \in Seq(Word)
      /\ IF IsFar(st) THEN /\ Len(x) = 2 /\ Len(r) = 2 /\ r[1].op = "reset"
                           /\ IF IsString(st) THEN x[1].op = "po" /\ x[2].n = st.address
                                              ELSE x[1].op = "ba" /\ x[2].n = Segment(st.address)
                      ELSE x = <<>> /\ r = <<>>
  <2>1. CASE ~IsFar(st)
    <3>1. x = <<>> /\ r = <<>>
      BY <1>7, <2>1 DEF Prefix
    <3> QED
      BY <2>1, <3>1, EmptySeq
  <2>2. CASE IsFar(st) /\ IsString(st)
    <3>1. x = <<HeadWord("po", 0), Number(st.address)>> /\ r = ResetWords
      BY <1>7, <2>2 DEF Prefix
    <3> QED
      BY <1>1, <2>2, <3>1, FrameWords
  <2>3. CASE IsFar(st) /\ ~IsString(st)
    <3>1. x = <<HeadWord("ba", 0), Number(Segment(st.address))>> /\ r = ResetWords
      BY <1>7, <2>3 DEF Prefix
    <3> QED
      BY <1>1, <2>3, <3>1, FrameWords
  <2> QED
    BY <2>1, <2>2, <2>3
<1>9. WriteWords(st) = (x \o c) \o r
  <2>1. WriteWords(st) = ((x \o h) \o d) \o r
    BY <1>3, <1>7 DEF WriteWords
  <2>2. (x \o h) \o d = x \o (h \o d)
    <3>1. x \in Seq(Word) /\ h \in Seq(Word) /\ d \in Seq(Word)
      BY <1>5, <1>8, Zenon
    <3> QED
      BY <3>1, JoinsAlike, Zenon
  <2> QED
    BY <1>4, <2>1, <2>2
<1>10. PICK w : w = (x \o c) \o r
  OBVIOUS
<1>11. Says(w, 1, Len(w) + 1, st, k)
  BY <1>1, <1>2, <1>5, <1>6, <1>8, <1>10, FramedSays
<1> QED
  BY <1>9, <1>10, <1>11

\* So do those of a hook.
LEMMA HookSays ==
    ASSUME NEW st \in Hook, Len(statements) \in Nat, "MEM2Hooks" \in policy,
           NEW k, k = Len(statements) + 1
    PROVE  LET w == HookWords(st) IN Says(w, 1, Len(w) + 1, st, k)
<1>1. st.address \in Int /\ Segment(st.address) \in Int /\ st.address % Low \in Int /\ st.size \in Nat
  BY StatementLemma DEF Statement
<1>2. IsWrite(st) /\ ~IsString(st) /\ st.kind = "hook" /\ st.size = 4 /\ k \in Nat
  BY DEF Hook, IsWrite, IsString
<1>3. PICK m : m = <<HeadWord("c2", st.address % Low), Number(1)>>
  OBVIOUS
<1>4. m \in Seq(Word) /\ Len(m) = 2 /\ m[1].op = "c2" /\ m[1].n = st.address % Low /\ m[2].n = 1
  <2>1. "c2" \in Heads
    BY DEF Heads
  <2>2. HeadWord("c2", st.address % Low) \in Word /\ Number(1) \in Word
    BY <1>1, <2>1, WordLemma
  <2>3. /\ HeadWord("c2", st.address % Low).op = "c2" /\ HeadWord("c2", st.address % Low).n = st.address % Low
        /\ Number(1).n = 1
    BY DEF HeadWord, Number
  <2> QED
    BY <1>3, <2>2, <2>3
<1>5. PICK bs : bs = DataOf(k, 4) \o Zeros(4)
  OBVIOUS
<1>6. IsPadded(bs, k, 4, 2)
  <2>1. Fills(4, 4, 2) /\ 4 \in Nat /\ 2 \in Nat
    BY DEF Fills
  <2> QED
    BY <1>2, <1>5, <2>1, PaddedWords
<1>7. PICK d \in Seq(Word) : d = InWords(bs) /\ Len(d) = 2 /\ d[1].bytes = SubSeq(bs, 1, 4)
  <2>1. 1 \in 1..2 /\ 4 * 1 - 3 = 1 /\ 4 * 1 = 4
    OBVIOUS
  <2>2. /\ InWords(bs) \in Seq(Word) /\ Len(InWords(bs)) = 2
        /\ InWords(bs)[1].bytes = SubSeq(bs, 4 * 1 - 3, 4 * 1)
    BY <1>6, <2>1 DEF IsPadded
  <2> QED
    BY <2>1, <2>2
<1>8. SubSeq(bs, 1, 4) = DataOf(k, 4)
  <2>1. 4 \in Nat
    OBVIOUS
  <2>2. PICK a : a = DataOf(k, 4) /\ a \in Seq(Byte) /\ Len(a) = 4
    <3>1. k \in Nat
      BY <1>2
    <3>2. DataOf(k, 4) \in Seq(Byte) /\ Len(DataOf(k, 4)) = 4
      BY <2>1, <3>1, DataOfLemma
    <3> QED
      BY <3>2
  <2>3. \A q \in 1..4 : bs[q] = a[q] /\ bs[q] \in Byte
    <3>1. \A q \in 1..4 : a[q] \in Byte
      BY <2>2, ElementOfSeq
    <3> QED
      BY <1>6, <2>2, <3>1 DEF IsPadded
  <2>4. PICK s : s = SubSeq(bs, 1, 4)
    OBVIOUS
  <2>5. s \in Seq(Byte) /\ Len(s) = 4 /\ \A q \in 1..4 : s[q] = bs[q]
    <3>1. \A q \in 1..4 : bs[q] \in Byte
      BY <2>3
    <3>2. /\ SubSeq(bs, 1, 4) \in Seq(Byte)
          /\ Len(SubSeq(bs, 1, 4)) = IF 1 <= 4 THEN 4 - 1 + 1 ELSE 0
          /\ \A i \in 1..(4 - 1 + 1) : SubSeq(bs, 1, 4)[i] = bs[1 + i - 1]
      BY <3>1, SubSeqProperties
    <3>3. \A i \in 1..4 : 1 + i - 1 = i
      OBVIOUS
    <3> QED
      BY <2>4, <3>2, <3>3
  <2>6. \A q \in 1..4 : s[q] = a[q]
    BY <2>3, <2>5
  <2>7. s = a
    BY <2>2, <2>5, <2>6, SeqEqual
  <2> QED
    BY <2>2, <2>4, <2>7
<1>9. PICK c : c = m \o d
  OBVIOUS
<1>10. c \in Seq(Word) /\ Len(c) = 4 /\ c[1] = m[1] /\ c[1 + 1] = m[2] /\ c[1 + 2] = d[1]
  <2>1. /\ m \o d \in Seq(Word) /\ Len(m \o d) = Len(m) + Len(d)
        /\ \A j \in 1..Len(m) : (m \o d)[j] = m[j]
        /\ \A j \in 1..Len(d) : (m \o d)[Len(m) + j] = d[j]
    BY <1>4, JoinedLists
  <2>2. /\ 1 \in 1..Len(m) /\ 2 \in 1..Len(m) /\ 1 \in 1..Len(d) /\ 1 + 1 = 2
        /\ Len(m) + 1 = 1 + 2 /\ Len(m) + Len(d) = 4
    BY <1>4, <1>7
  <2> QED
    BY <1>9, <2>1, <2>2
<1>11. Len(c) = CodeLength(st)
  BY <1>2, <1>10 DEF CodeLength
<1>12. CodeAt(c, 1, st, k)
  <2>1. c[1].n = (IF IsFar(st) /\ IsString(st) THEN 0 ELSE st.address % Low)
    BY <1>2, <1>4, <1>10
  <2>2. c[1 + 2].bytes = DataOf(k, st.size)
    BY <1>2, <1>7, <1>8, <1>10
  <2> QED
    BY <1>2, <1>4, <1>10, <2>1, <2>2 DEF CodeAt
<1>13. PICK x, r : /\ x = (IF IsFar(st) THEN <<HeadWord("ba", 0), Number(Segment(st.address))>> ELSE <<>>)
                   /\ r = (IF IsFar(st) THEN ResetWords ELSE <<>>)
  OBVIOUS
<1>14. /\ x \in Seq(Word) /\ r \in Seq(Word)
       /\ IF IsFar(st) THEN /\ Len(x) = 2 /\ Len(r) = 2 /\ r[1].op = "reset"
                            /\ IF IsString(st) THEN x[1].op = "po" /\ x[2].n = st.address
                                               ELSE x[1].op = "ba" /\ x[2].n = Segment(st.address)
                       ELSE x = <<>> /\ r = <<>>
  <2>1. CASE ~IsFar(st)
    BY <1>13, <2>1, EmptySeq
  <2>2. CASE IsFar(st)
    BY <1>1, <1>2, <1>13, <2>2, FrameWords
  <2> QED
    BY <2>1, <2>2
<1>15. HookWords(st) = (x \o c) \o r
  <2>1. d = InWords(Data(st) \o Zeros(4))
    <3>1. Data(st) = DataOf(k, 4)
      BY <1>2 DEF Data, DataOf
    <3> QED
      BY <1>5, <1>7, <3>1
  <2>2. HookWords(st) = ((x \o m) \o d) \o r
    BY <1>3, <1>13, <2>1 DEF HookWords
  <2>3. (x \o m) \o d = x \o (m \o d)
    <3>1. x \in Seq(Word) /\ m \in Seq(Word) /\ d \in Seq(Word)
      BY <1>4, <1>14, Zenon
    <3> QED
      BY <3>1, JoinsAlike, Zenon
  <2> QED
    BY <1>9, <2>2, <2>3
<1>16. PICK w : w = (x \o c) \o r
  OBVIOUS
<1>17. Says(w, 1, Len(w) + 1, st, k)
  BY <1>1, <1>2, <1>10, <1>11, <1>12, <1>14, <1>16, FramedSays
<1> QED
  BY <1>15, <1>16, <1>17

\* The two words of a command.
LEMMA PairWords ==
    ASSUME NEW op, NEW m, NEW n
    PROVE  LET w == <<HeadWord(op, m), Number(n)>> IN
           w[1].op = op /\ w[1].n = m /\ w[1 + 1].n = n
<1>1. PICK w : w = <<HeadWord(op, m), Number(n)>>
  OBVIOUS
<1>2. w[1] = HeadWord(op, m) /\ w[1 + 1] = Number(n)
  BY <1>1
<1>3. HeadWord(op, m).op = op /\ HeadWord(op, m).n = m /\ Number(n).n = n
  BY DEF HeadWord, Number
<1> QED
  BY <1>1, <1>2, <1>3

\* With the corrections, a statement is encoded to what it says.
LEMMA EncodingSays ==
    ASSUME NEW st \in Statement, Len(statements) \in Nat, Corrected,
           NEW k, k = Len(statements) + 1
    PROVE  LET w == Encoding(st) IN Says(w, 1, Len(w) + 1, st, k)
<1>1. "MEM2Writes" \in policy /\ "MEM2Hooks" \in policy /\ "DirectiveBit31" \in policy
  BY DEF Corrected, Flags
<1>2. CASE st \in Write
  <2>1. st \notin Setting /\ st \notin Hook /\ st.kind \notin {"reset", "endif", "endif reset", "if", "other"}
    BY <1>2 DEF Write, Setting, Hook
  <2>2. Encoding(st) = WriteWords(st)
    BY <1>2, <2>1 DEF Encoding
  <2> QED
    BY <1>1, <1>2, <2>2, WriteSays
<1>3. CASE st \in Hook
  <2>1. st \notin Setting /\ st \notin Write /\ st.kind \notin {"reset", "endif", "endif reset", "if", "other"}
    BY <1>3 DEF Write, Setting, Hook
  <2>2. Encoding(st) = HookWords(st)
    BY <1>3, <2>1 DEF Encoding
  <2> QED
    BY <1>1, <1>3, <2>2, HookSays
<1>4. CASE st \in Setting \cup Condition \cup Other
  <2>1. ~IsWrite(st) /\ st \notin Write /\ st \notin Hook
    BY <1>4 DEF Write, Setting, Hook, Condition, Other, IsWrite
  <2>2. PICK w, h, a : w = Encoding(st) /\ w = <<h, a>> /\ PairAt(<<h, a>>, 1, st)
    <3>1. CASE st \in Setting
      <4>1. st.kind \in {"ba", "po"}
        BY <3>1 DEF Setting
      <4>2. Encoding(st) = SettingWords(st)
        BY <2>1, <3>1, <4>1 DEF Encoding
      <4>3. SettingWords(st) = <<HeadWord(st.kind, 0), Number(st.address)>>
        BY <1>1 DEF SettingWords
      <4>4. PairAt(<<HeadWord(st.kind, 0), Number(st.address)>>, 1, st)
        <5>1. PICK w : w = <<HeadWord(st.kind, 0), Number(st.address)>>
          OBVIOUS
        <5>2. w[1].op = st.kind /\ w[1 + 1].n = st.address
          BY <5>1, PairWords
        <5>3. st.kind \notin {"reset", "if", "endif", "endif reset", "other"}
          BY <4>1
        <5>4. PairAt(w, 1, st)
          BY <5>2, <5>3 DEF PairAt
        <5> QED
          BY <5>1, <5>4
      <4> QED
        BY <4>2, <4>3, <4>4
    <3>2. CASE st \in Condition \cup Other
      <4>1. st.kind \in {"reset", "endif", "endif reset", "if", "other"} /\ st \notin Setting
        BY <3>2 DEF Condition, Other, Setting
      <4>2. CASE st.kind = "reset"
        <5>1. Encoding(st) = <<HeadWord("reset", 0), Number(0)>>
          BY <2>1, <4>1, <4>2 DEF Encoding, ResetWords
        <5>2. PairAt(<<HeadWord("reset", 0), Number(0)>>, 1, st)
          BY <4>2, PairWords DEF PairAt
        <5> QED
          BY <5>1, <5>2
      <4>3. CASE st.kind = "endif"
        <5>1. Encoding(st) = <<HeadWord("endif", 1), Number(0)>>
          BY <2>1, <4>1, <4>3 DEF Encoding
        <5>2. PairAt(<<HeadWord("endif", 1), Number(0)>>, 1, st)
          BY <4>3, PairWords DEF PairAt
        <5> QED
          BY <5>1, <5>2
      <4>4. CASE st.kind = "endif reset"
        <5>1. Encoding(st) = <<HeadWord("endif", 1), Number(Base)>>
          BY <2>1, <4>1, <4>4 DEF Encoding
        <5>2. PICK w : w = <<HeadWord("endif", 1), Number(Base)>>
          OBVIOUS
        <5>3. w[1].op = "endif" /\ w[1 + 1].n = Base
          BY <5>2, PairWords
        <5>4. st.kind \notin {"ba", "po", "reset", "if", "endif", "other"}
          BY <4>4
        <5>5. PairAt(w, 1, st)
          BY <4>4, <5>3, <5>4 DEF PairAt
        <5> QED
          BY <5>1, <5>2, <5>5
      <4>5. CASE st.kind = "if"
        <5>1. Encoding(st) = <<HeadWord("if", st.address), Number(0)>>
          BY <2>1, <4>1, <4>5 DEF Encoding
        <5>2. PairAt(<<HeadWord("if", st.address), Number(0)>>, 1, st)
          BY <4>5, PairWords DEF PairAt
        <5> QED
          BY <5>1, <5>2
      <4>6. CASE st.kind = "other"
        <5>1. Encoding(st) = <<HeadWord("other", 0), Number(0)>>
          BY <2>1, <4>1, <4>6 DEF Encoding
        <5>2. PairAt(<<HeadWord("other", 0), Number(0)>>, 1, st)
          BY <4>6, PairWords DEF PairAt
        <5> QED
          BY <5>1, <5>2
      <4> QED
        BY <4>1, <4>2, <4>3, <4>4, <4>5, <4>6
    <3> QED
      BY <1>4, <3>1, <3>2
  <2>3. Len(w) + 1 = 1 + 2 /\ 1 \in Nat /\ Len(w) + 1 \in Nat
    BY <2>2
  <2>4. Says(w, 1, Len(w) + 1, st, k)
    BY <2>1, <2>2, <2>3 DEF Says
  <2> QED
    BY <2>2, <2>4
<1> QED
  BY <1>2, <1>3, <1>4 DEF Statement

----------------------------------------------------------------------------
(* The words of the section *)

\* The words of a new statement are behind those of the others.
LEMMA ContentsEncode ==
    ASSUME HandlerInv, ContentsOK, NEW st \in Statement, Encode(st)
    PROVE  ContentsOK'
<1>1. TypeOK /\ LayoutOK
  BY DEF HandlerInv
<1>2. PICK w \in Seq(Word), n \in Nat, m \in Nat : /\ w = words /\ n = Len(starts) /\ m = Len(words)
                                                   /\ Len(statements) = n
  <2>1. /\ words \in Seq(Word) /\ Len(words) \in Nat /\ Len(starts) \in Nat
        /\ Len(statements) = Len(starts)
    BY <1>1, LenProperties DEF TypeOK
  <2> QED
    BY <2>1
<1>3. PICK enc : enc = Encoding(st)
  OBVIOUS
<1>4. enc \in Seq(Word) /\ Len(enc) \in Nat
  <2>1. Len(statements) \in Nat
    BY <1>2
  <2>2. enc \in Seq(Word)
    BY <1>3, <2>1, EncodingFits DEF Fits
  <2> QED
    BY <2>2, LenProperties
<1>5. words' = w \o enc /\ Len(w \o enc) = m + Len(enc)
  <2>1. Len(w \o enc) = Len(w) + Len(enc)
    BY <1>2, <1>4, ConcatProperties
  <2> QED
    BY <2>1, <1>2, <1>3 DEF Encode
<1>6. /\ Len(starts') = n + 1
      /\ \A k \in 1..n : starts'[k] = starts[k]
      /\ starts'[n + 1] = m + 1
  <2>1. m + 1 \in Nat /\ starts' = Append(starts, m + 1)
    BY <1>2 DEF Encode
  <2> QED
    BY <2>1, <1>1, <1>2, AppendProperties DEF TypeOK
<1>7. /\ \A k \in 1..n : statements'[k] = statements[k]
      /\ statements'[n + 1] = st
  <2>1. statements' = Append(statements, st)
    BY DEF Encode
  <2> QED
    BY <2>1, <1>1, <1>2, AppendProperties DEF TypeOK
<1>8. Corrected' => Corrected
  BY DEF Corrected, Encode
<1> SUFFICES ASSUME Corrected'
             PROVE  \A k \in 1..(n + 1) : Says(words', starts'[k], End(k)', statements'[k], k)
  BY <1>6 DEF ContentsOK
<1>9. ASSUME NEW k \in 1..n
      PROVE  Says(words', starts'[k], End(k)', statements'[k], k)
  <2>1. PICK s \in Nat \ {0}, e \in Nat : s = starts[k] /\ e = End(k) /\ e <= m + 1 /\ End(k)' = e
    <3>1. Laid(words, starts[k], End(k), CommandsOf(k))
      BY <1>1, <1>2 DEF LayoutOK
    <3>2. starts[k] \in Nat \ {0} /\ End(k) \in Nat
      BY <3>1 DEF Laid
    <3>3. CASE k = n
      <4>1. End(k) = m + 1
        BY <3>3, <1>2 DEF End
      <4>2. End(k)' = m + 1
        BY <3>3, <1>2, <1>6 DEF End
      <4> QED
        BY <3>2, <4>1, <4>2
    <3>4. CASE k # n
      <4>1. k + 1 \in 1..n /\ k # Len(starts')
        BY <3>4, <1>2, <1>6
      <4>2. End(k) = starts[k + 1]
        BY <3>4, <1>2 DEF End
      <4>3. End(k)' = starts'[k + 1]
        BY <4>1 DEF End
      <4>4. starts[k + 1] <= m /\ starts'[k + 1] = starts[k + 1]
        BY <4>1, <1>1, <1>2, <1>6 DEF LayoutOK
      <4> QED
        BY <3>2, <4>2, <4>3, <4>4
    <3> QED
      BY <3>3, <3>4
  <2>2. PICK t : t = statements[k] /\ t \in Statement
    BY <1>1, <1>2, ElementOfSeq DEF TypeOK
  <2>3. t.size \in Nat
    BY <2>2, StatementLemma
  <2>4. Says(w, s, e, t, k)
    BY <1>2, <1>8, <2>1, <2>2 DEF ContentsOK
  <2>5. e <= Len(w) + 1
    BY <1>2, <2>1
  <2>6. Says(w \o enc, s, e, t, k)
    BY <1>2, <1>4, <2>3, <2>4, <2>5, SaysBefore
  <2> QED
    BY <1>5, <1>6, <1>7, <2>1, <2>2, <2>6
<1>10. Says(words', starts'[n + 1], End(n + 1)', statements'[n + 1], n + 1)
  <2>1. PICK k : k = n + 1
    OBVIOUS
  <2>2. Says(enc, 1, Len(enc) + 1, st, k)
    <3>1. Len(statements) \in Nat /\ k = Len(statements) + 1
      BY <1>2, <2>1
    <3> QED
      BY <1>3, <1>8, <3>1, EncodingSays
  <2>3. st.size \in Nat
    BY StatementLemma
  <2>4. Says(w \o enc, Len(w) + 1, Len(w) + Len(enc) + 1, st, k)
    BY <1>2, <1>4, <2>2, <2>3, SaysBehind
  <2>5. End(k)' = m + Len(enc) + 1
    BY <1>5, <1>6, <2>1 DEF End
  <2> QED
    BY <1>2, <1>5, <1>6, <1>7, <2>1, <2>4, <2>5
<1> QED
  BY <1>9, <1>10, <1>2

\* Other steps leave the words alone.
LEMMA ContentsKept ==
    ASSUME ContentsOK, UNCHANGED program
    PROVE  /\ ContentsOK'
           /\ \A k : End(k)' = End(k) /\ BeginOf(k)' = BeginOf(k)
           /\ Corrected' <=> Corrected
           /\ \A s, k : Meaning(s, k)' = Meaning(s, k)
           /\ \A f : Reads(f)' <=> Reads(f)
<1>1. words' = words /\ starts' = starts /\ statements' = statements /\ policy' = policy
  BY DEF program
<1>2. \A k : End(k)' = End(k) /\ BeginOf(k)' = BeginOf(k)
  BY <1>1 DEF End, BeginOf
<1>3. Corrected' <=> Corrected
  BY <1>1 DEF Corrected
<1>4. ContentsOK'
  BY <1>1, <1>2, <1>3 DEF ContentsOK
<1>5. \A s, k : Meaning(s, k)' = Meaning(s, k)
  BY <1>1 DEF Meaning
<1>6. \A f : Reads(f)' <=> Reads(f)
  BY <1>1, <1>5 DEF Reads
<1> QED
  BY <1>2, <1>3, <1>4, <1>5, <1>6

----------------------------------------------------------------------------
(* What statements mean *)

\* Where the n bytes of statement k are when the first one is at a.
Landed(k, a, n) == {[src |-> k, at |-> j, address |-> (a + j - 1) % Space] : j \in 1..n}

\* Addresses are numbers.
LEMMA LandedLemma ==
    ASSUME NEW k \in Nat, NEW a \in Int, NEW n \in Nat
    PROVE  Landed(k, a, n) \in SUBSET Effect
<1>1. Space \in Nat \ {0}
  BY HandlerAssumption
<1>2. ASSUME NEW j \in 1..n
      PROVE  [src |-> k, at |-> j, address |-> (a + j - 1) % Space] \in Effect
  <2>1. PICK d \in Int : d = a + j - 1
    OBVIOUS
  <2>2. d % Space \in 0..(Space - 1)
    BY <1>1, Division
  <2>3. PICK r \in Int : r = d % Space
    BY <1>1, <2>2
  <2>4. [src |-> k, at |-> j, address |-> r] \in Effect
    BY DEF Effect
  <2> QED
    BY <2>1, <2>3, <2>4
<1> QED
  BY <1>2 DEF Landed

\* Where a write goes when near addresses are in the segment g.
Goal(st, g) == IF IsFar(st) THEN st.address ELSE g + (st.address % Low)

\* What a write means.
LEMMA WriteMeans ==
    ASSUME NEW k, IsWrite(statements[k]), NEW s \in Knowledge
    PROVE  LET st == statements[k] IN
           Meaning(s, k) = [segment |-> IF IsFar(st) THEN Base ELSE s.segment,
                            conditions |-> IF IsFar(st) THEN <<>> ELSE s.conditions,
                            written |-> IF Holds(s.conditions)
                                        THEN s.written \cup Landed(k, Goal(st, s.segment), st.size)
                                        ELSE s.written]
<1>1. PICK st : st = statements[k]
  OBVIOUS
<1>2. PICK g, c, w : s = [segment |-> g, conditions |-> c, written |-> w]
  BY DEF Knowledge
<1>3. PICK a : a = Goal(st, g)
  OBVIOUS
<1>4. s.segment = g /\ s.conditions = c /\ s.written = w
  BY <1>2
<1>5. PICK bytes : bytes = Landed(k, a, st.size)
  OBVIOUS
<1>6. PICK r : r = IF IsFar(st) THEN [s EXCEPT !.segment = Base, !.conditions = <<>>] ELSE s
  OBVIOUS
<1>7. Meaning(s, k) = [r EXCEPT !.written = IF Holds(c) THEN @ \cup bytes ELSE @]
  <2>1. IsWrite(st) /\ st.kind \notin {"ba", "reset", "if", "endif", "endif reset"}
    BY <1>1 DEF IsWrite
  <2> QED
    BY <1>1, <1>3, <1>4, <1>5, <1>6, <2>1 DEF Meaning, Goal, Landed
<1>8. r = [segment |-> IF IsFar(st) THEN Base ELSE g, conditions |-> IF IsFar(st) THEN <<>> ELSE c,
           written |-> w]
  BY <1>2, <1>6
<1>9. Meaning(s, k) = [segment |-> IF IsFar(st) THEN Base ELSE g,
                       conditions |-> IF IsFar(st) THEN <<>> ELSE c,
                       written |-> IF Holds(c) THEN w \cup bytes ELSE w]
  BY <1>7, <1>8
<1> QED
  BY <1>1, <1>3, <1>4, <1>5, <1>9

\* What other statements mean.
LEMMA PairMeans ==
    ASSUME NEW k, ~IsWrite(statements[k]), NEW s \in Knowledge
    PROVE  LET st == statements[k] IN
           Meaning(s, k) =
               [segment |-> IF st.kind = "ba" /\ Holds(s.conditions) THEN Segment(st.address)
                            ELSE IF st.kind \in {"reset", "endif reset"} THEN Base ELSE s.segment,
                conditions |-> IF st.kind = "reset" THEN <<>>
                               ELSE IF st.kind = "if"
                                    THEN Append(s.conditions, Holds(s.conditions) /\ st.address = 1)
                               ELSE IF st.kind \in {"endif", "endif reset"} /\ s.conditions # <<>>
                                    THEN Front(s.conditions) ELSE s.conditions,
                written |-> s.written]
<1>1. PICK st : st = statements[k]
  OBVIOUS
<1>2. PICK g, c, w : s = [segment |-> g, conditions |-> c, written |-> w]
  BY DEF Knowledge
<1>4. s.segment = g /\ s.conditions = c /\ s.written = w
  BY <1>2
<1>5. CASE st.kind = "ba"
  <2>1. Meaning(s, k) = IF Holds(c) THEN [s EXCEPT !.segment = Segment(st.address)] ELSE s
    BY <1>1, <1>4, <1>5 DEF Meaning
  <2> QED
    BY <1>1, <1>2, <1>4, <1>5, <2>1
<1>6. CASE st.kind = "reset"
  <2>1. Meaning(s, k) = [s EXCEPT !.segment = Base, !.conditions = <<>>]
    BY <1>1, <1>6 DEF Meaning
  <2> QED
    BY <1>1, <1>2, <1>4, <1>6, <2>1
<1>7. CASE st.kind = "if"
  <2>1. Meaning(s, k) = [s EXCEPT !.conditions = Append(@, Holds(c) /\ st.address = 1)]
    BY <1>1, <1>4, <1>7 DEF Meaning
  <2> QED
    BY <1>1, <1>2, <1>4, <1>7, <2>1
<1>8. CASE st.kind = "endif"
  <2>1. Meaning(s, k) = [s EXCEPT !.conditions = IF @ = <<>> THEN @ ELSE Front(@), !.segment = @]
    BY <1>1, <1>8 DEF Meaning
  <2> QED
    BY <1>1, <1>2, <1>4, <1>8, <2>1
<1>9. CASE st.kind = "endif reset"
  <2>1. Meaning(s, k) = [s EXCEPT !.conditions = IF @ = <<>> THEN @ ELSE Front(@), !.segment = Base]
    BY <1>1, <1>9 DEF Meaning
  <2> QED
    BY <1>1, <1>2, <1>4, <1>9, <2>1
<1>10. CASE st.kind \notin {"ba", "reset", "if", "endif", "endif reset"}
  <2>1. Meaning(s, k) = s
    BY <1>1, <1>10 DEF Meaning
  <2> QED
    BY <1>1, <1>2, <1>4, <1>10, <2>1
<1> QED
  BY <1>5, <1>6, <1>7, <1>8, <1>9, <1>10

\* The reader knows numbers, conditions and effects.
LEMMA MeaningLemma ==
    ASSUME NEW k \in Nat, statements[k] \in Statement, NEW s \in Knowledge
    PROVE  Meaning(s, k) \in Knowledge
<1>1. PICK st \in Statement : st = statements[k]
  OBVIOUS
<1>2. st.address \in Int /\ st.size \in Nat /\ st.address % Low \in Int /\ Segment(st.address) \in Int
  BY StatementLemma
<1>3. s.segment \in Int /\ s.conditions \in Seq(BOOLEAN) /\ s.written \in SUBSET Effect
  BY DEF Knowledge
<1>4. Base \in Int /\ <<>> \in Seq(BOOLEAN)
  BY HandlerAssumption, EmptySeq
<1>5. CASE IsWrite(st)
  <2>1. PICK a \in Int : a = Goal(st, s.segment)
    BY <1>2, <1>3 DEF Goal
  <2>2. Landed(k, a, st.size) \in SUBSET Effect
    BY <1>2, LandedLemma
  <2>3. Meaning(s, k) = [segment |-> IF IsFar(st) THEN Base ELSE s.segment,
                         conditions |-> IF IsFar(st) THEN <<>> ELSE s.conditions,
                         written |-> IF Holds(s.conditions) THEN s.written \cup Landed(k, a, st.size)
                                     ELSE s.written]
    BY <1>1, <1>5, <2>1, WriteMeans
  <2>4. PICK g, c, w : /\ g = (IF IsFar(st) THEN Base ELSE s.segment)
                       /\ c = (IF IsFar(st) THEN <<>> ELSE s.conditions)
                       /\ w = (IF Holds(s.conditions) THEN s.written \cup Landed(k, a, st.size)
                               ELSE s.written)
    OBVIOUS
  <2>5. g \in Int
    BY <1>3, <1>4, <2>4
  <2>6. c \in Seq(BOOLEAN)
    BY <1>3, <1>4, <2>4
  <2>7. w \in SUBSET Effect
    BY <1>3, <2>2, <2>4
  <2>8. [segment |-> g, conditions |-> c, written |-> w] \in Knowledge
    BY <2>5, <2>6, <2>7 DEF Knowledge
  <2> QED
    BY <2>3, <2>4, <2>8
<1>6. CASE ~IsWrite(st)
  <2>1. PICK g, c : /\ g = (IF st.kind = "ba" /\ Holds(s.conditions) THEN Segment(st.address)
                            ELSE IF st.kind \in {"reset", "endif reset"} THEN Base ELSE s.segment)
                    /\ c = (IF st.kind = "reset" THEN <<>>
                            ELSE IF st.kind = "if"
                                 THEN Append(s.conditions, Holds(s.conditions) /\ st.address = 1)
                            ELSE IF st.kind \in {"endif", "endif reset"} /\ s.conditions # <<>>
                                 THEN Front(s.conditions) ELSE s.conditions)
    OBVIOUS
  <2>2. g \in Int
    BY <1>2, <1>3, <1>4, <2>1
  <2>3. Append(s.conditions, Holds(s.conditions) /\ st.address = 1) \in Seq(BOOLEAN)
    <3>1. (Holds(s.conditions) /\ st.address = 1) \in BOOLEAN
      OBVIOUS
    <3>2. \A b \in BOOLEAN : Append(s.conditions, b) \in Seq(BOOLEAN)
      BY <1>3, AppendProperties
    <3> QED
      BY <3>1, <3>2
  <2>4. s.conditions # <<>> => Front(s.conditions) \in Seq(BOOLEAN)
    <3>1. PICK cs \in Seq(BOOLEAN), m \in Nat : cs = s.conditions /\ m = Len(cs)
      BY <1>3, LenProperties
    <3>2. \A i \in 1..(m - 1) : i \in 1..Len(cs)
      BY <3>1
    <3>3. \A i \in 1..(m - 1) : cs[i] \in BOOLEAN
      BY <3>2, ElementOfSeq
    <3>4. SubSeq(cs, 1, m - 1) \in Seq(BOOLEAN)
      BY <3>3, SubSeqProperties
    <3> QED
      BY <3>1, <3>4 DEF Front
  <2>5. c \in Seq(BOOLEAN)
    BY <1>3, <1>4, <2>1, <2>3, <2>4
  <2>6. [segment |-> g, conditions |-> c, written |-> s.written] \in Knowledge
    BY <1>3, <2>2, <2>5 DEF Knowledge
  <2>7. Meaning(s, k) = [segment |-> g, conditions |-> c, written |-> s.written]
    BY <1>1, <1>6, <2>1, PairMeans
  <2> QED
    BY <2>6, <2>7
<1> QED
  BY <1>5, <1>6

----------------------------------------------------------------------------
(* What the handler does *)

\* The command says which move the handler makes.
LEMMA Moves ==
    ASSUME TypeOK, Running, Next
    PROVE  /\ UNCHANGED <<program, phase>>
           /\ Command.op \in {"ba", "po"} => SetRegister
           /\ Command.op = "reset" => ResetRegisters
           /\ Command.op = "if" => BeginCondition
           /\ Command.op = "endif" => EndCondition
           /\ Command.op \in {"00", "02", "04"} => WriteScalar
           /\ Command.op \in {"06", "16"} => WriteString
           /\ Command.op = "c2" => InsertHook
           /\ Command.op = "other" => Skip
<1>1. phase = "run" /\ ip < Len(words) /\ ip \in Nat /\ Len(words) \in Nat
  BY LenProperties DEF Running, TypeOK
<1>2. ~(\E st \in Statement : Encode(st)) /\ ~(\E st \in Statement : Reject(st)) /\ ~Load
  BY <1>1 DEF Encode, Reject, Load
<1>3. ~Return
  BY <1>1 DEF Return
<1>4. \/ SetRegister \/ ResetRegisters \/ BeginCondition \/ EndCondition \/ WriteScalar
      \/ WriteString \/ InsertHook \/ Skip
  BY <1>2, <1>3 DEF Next
<1>5. PICK op : op = Command.op
  OBVIOUS
<1>6. /\ SetRegister => op \in {"ba", "po"} /\ UNCHANGED <<program, phase>>
      /\ ResetRegisters => op = "reset" /\ UNCHANGED <<program, phase>>
      /\ BeginCondition => op = "if" /\ UNCHANGED <<program, phase>>
      /\ EndCondition => op = "endif" /\ UNCHANGED <<program, phase>>
      /\ WriteScalar => op \in {"00", "02", "04"} /\ UNCHANGED <<program, phase>>
      /\ WriteString => op \in {"06", "16"} /\ UNCHANGED <<program, phase>>
      /\ InsertHook => op = "c2" /\ UNCHANGED <<program, phase>>
      /\ Skip => op = "other" /\ UNCHANGED <<program, phase>>
  <2>1. SetRegister => op \in {"ba", "po"} /\ UNCHANGED <<program, phase>>
    BY <1>5 DEF SetRegister
  <2>2. ResetRegisters => op = "reset" /\ UNCHANGED <<program, phase>>
    BY <1>5 DEF ResetRegisters
  <2>3. BeginCondition => op = "if" /\ UNCHANGED <<program, phase>>
    BY <1>5 DEF BeginCondition
  <2>4. EndCondition => op = "endif" /\ UNCHANGED <<program, phase>>
    BY <1>5 DEF EndCondition
  <2>5. WriteScalar => op \in {"00", "02", "04"} /\ UNCHANGED <<program, phase>>
    BY <1>5 DEF WriteScalar
  <2>6. WriteString => op \in {"06", "16"} /\ UNCHANGED <<program, phase>>
    BY <1>5 DEF WriteString
  <2>7. InsertHook => op = "c2" /\ UNCHANGED <<program, phase>>
    BY <1>5 DEF InsertHook
  <2>8. Skip => op = "other" /\ UNCHANGED <<program, phase>>
    BY <1>5 DEF Skip
  <2> QED
    BY <2>1, <2>2, <2>3, <2>4, <2>5, <2>6, <2>7, <2>8
<1> QED
  BY <1>4, <1>5, <1>6

\* The data of a statement land where the command goes.
LEMMA WrittenIs ==
    ASSUME NEW k, NEW n \in Nat, NEW t, Target = t
    PROVE  Written(DataOf(k, n)) = Landed(k, t, n)
<1>1. DOMAIN DataOf(k, n) = 1..n
  BY DEF DataOf
<1>2. ASSUME NEW j \in 1..n
      PROVE  DataOf(k, n)[j].src = k /\ DataOf(k, n)[j].at = j
  BY DEF DataOf
<1>3. PICK bs : bs = DataOf(k, n)
  OBVIOUS
<1>4. Written(bs) = {[src |-> bs[j].src, at |-> bs[j].at, address |-> (t + j - 1) % Space] : j \in 1..n}
  BY <1>1, <1>3 DEF Written
<1>5. \A j \in 1..n : bs[j].src = k /\ bs[j].at = j
  BY <1>2, <1>3
<1>6. Written(bs) = {[src |-> k, at |-> j, address |-> (t + j - 1) % Space] : j \in 1..n}
  BY <1>4, <1>5
<1> QED
  BY <1>3, <1>6 DEF Landed

\* What is behind the padding of a scalar, and what is in its upper half.
LEMMA ScalarBytes ==
    ASSUME NEW k \in Nat, NEW n \in {1, 2, 4}, NEW bs, bs = Zeros(4 - n) \o DataOf(k, n)
    PROVE  /\ SubSeq(bs, (4 - n) + 1, 4) = DataOf(k, n)
           /\ n # 4 => SubSeq(bs, 1, 2) = Zeros(2)
<1>1. PICK z \in Nat : z = 4 - n
  OBVIOUS
<1>2. PICK a \in Seq(Byte), b \in Seq(Byte) : a = Zeros(z) /\ Len(a) = z /\ b = DataOf(k, n) /\ Len(b) = n
  <2>1. n \in Nat
    OBVIOUS
  <2>2. Zeros(z) \in Seq(Byte) /\ Len(Zeros(z)) = z
    BY ZerosLemma
  <2>3. DataOf(k, n) \in Seq(Byte) /\ Len(DataOf(k, n)) = n
    BY <2>1, DataOfLemma
  <2> QED
    BY <2>2, <2>3
<1>3. PICK v \in Seq(Byte) :
      /\ v = bs /\ Len(v) = 4
      /\ \A q \in 1..4 : v[q] = IF q <= z THEN a[q] ELSE b[q - z]
      /\ \A q \in 1..4 : v[q] \in Byte
  <2>1. bs = a \o b
    BY <1>1, <1>2
  <2>2. /\ a \o b \in Seq(Byte) /\ Len(a \o b) = Len(a) + Len(b)
        /\ \A q \in 1..(Len(a) + Len(b)) : (a \o b)[q] = IF q <= Len(a) THEN a[q] ELSE b[q - Len(a)]
    BY ConcatProperties
  <2>3. Len(a) + Len(b) = 4
    BY <1>1, <1>2
  <2>4. PICK v \in Seq(Byte) : v = a \o b
    BY <2>2
  <2>5. Len(v) = 4
    BY <2>2, <2>3, <2>4
  <2>6. \A q \in 1..4 : v[q] \in Byte
    BY <2>5, ElementOfSeq
  <2>7. \A q \in 1..4 : v[q] = IF q <= z THEN a[q] ELSE b[q - z]
    BY <1>2, <2>2, <2>3, <2>4
  <2> QED
    BY <2>1, <2>4, <2>5, <2>6, <2>7
<1>4. SubSeq(v, z + 1, 4) = b
  <2>1. PICK p \in Int : p = z + 1 /\ 4 - p + 1 = n /\ p <= 4 /\ p >= 1
    BY <1>1
  <2>2. \A q \in p..4 : v[q] \in Byte
    <3>1. \A q \in p..4 : q \in 1..4
      BY <2>1
    <3>2. \A q \in 1..4 : v[q] \in Byte
      BY <1>3
    <3> QED
      BY <3>1, <3>2
  <2>3. /\ SubSeq(v, p, 4) \in Seq(Byte) /\ Len(SubSeq(v, p, 4)) = IF p <= 4 THEN 4 - p + 1 ELSE 0
        /\ \A i \in 1..(4 - p + 1) : SubSeq(v, p, 4)[i] = v[p + i - 1]
    BY <2>2, SubSeqProperties
  <2>4. PICK s : s = SubSeq(v, p, 4)
    OBVIOUS
  <2>5. s \in Seq(Byte) /\ Len(s) = n /\ \A i \in 1..n : s[i] = v[p + i - 1]
    BY <2>1, <2>3, <2>4
  <2>6. ASSUME NEW i \in 1..n
        PROVE  s[i] = b[i]
    <3>1. p + i - 1 \in 1..4 /\ ~(p + i - 1 <= z) /\ (p + i - 1) - z = i
      BY <1>1, <2>1
    <3>2. v[p + i - 1] = b[(p + i - 1) - z]
      BY <1>3, <3>1
    <3> QED
      BY <2>5, <3>1, <3>2
  <2>7. s = b
    BY <1>2, <2>5, <2>6, SeqEqual
  <2> QED
    BY <2>1, <2>4, <2>7
<1>5. ASSUME n # 4
      PROVE  SubSeq(v, 1, 2) = Zeros(2)
  <2>1. \A q \in 1..2 : v[q] \in Byte
    BY <1>3
  <2>2. /\ SubSeq(v, 1, 2) \in Seq(Byte) /\ Len(SubSeq(v, 1, 2)) = IF 1 <= 2 THEN 2 - 1 + 1 ELSE 0
        /\ \A i \in 1..(2 - 1 + 1) : SubSeq(v, 1, 2)[i] = v[1 + i - 1]
    BY <2>1, SubSeqProperties
  <2>3. PICK s : s = SubSeq(v, 1, 2)
    OBVIOUS
  <2>4. s \in Seq(Byte) /\ Len(s) = 2 /\ \A i \in 1..2 : s[i] = v[i]
    <3>1. 2 - 1 + 1 = 2 /\ 1 <= 2 /\ \A i \in 1..2 : 1 + i - 1 = i
      OBVIOUS
    <3> QED
      BY <2>2, <2>3, <3>1
  <2>5. z >= 2
    BY <1>1, <1>5
  <2>6. ASSUME NEW i \in 1..2
        PROVE  s[i] = Zeros(2)[i]
    <3>1. i \in 1..4 /\ i <= z /\ i \in 1..z
      BY <2>5
    <3>2. v[i] = a[i]
      BY <1>3, <3>1
    <3>3. a[i] = Zero /\ Zeros(2)[i] = Zero
      BY <1>2, <3>1 DEF Zeros
    <3> QED
      BY <2>4, <3>2, <3>3
  <2>7. Zeros(2) \in Seq(Byte) /\ Len(Zeros(2)) = 2
    <3>1. 2 \in Nat
      OBVIOUS
    <3> QED
      BY <3>1, ZerosLemma
  <2> QED
    BY <2>3, <2>4, <2>6, <2>7, SeqEqual
<1> QED
  BY <1>1, <1>2, <1>3, <1>4, <1>5

\* Where the code of a write goes.
Aim(st) == IF IsFar(st) /\ IsString(st) THEN po ELSE Segment(ba) + (st.address % Low)

\* The handler executes the code of a write: the data land at t, and nothing else does.
LEMMA CodeMove ==
    ASSUME TypeOK, Running, Next, NEW st \in Statement, IsWrite(st), NEW k \in Nat,
           CodeAt(words, ip, st, k), NEW t \in Int, Executing => Aim(st) = t
    PROVE  /\ ip' = ip + CodeLength(st)
           /\ effects' = IF Executing THEN effects \cup Landed(k, t, st.size) ELSE effects
           /\ ba' = ba /\ po' = po /\ status' = status
<1>1. PICK n \in Nat : n = st.size
  BY StatementLemma
<1>2. PICK landed : landed = Landed(k, t, n)
  OBVIOUS
<1>3. Command.n = IF IsFar(st) /\ IsString(st) THEN 0 ELSE st.address % Low
  BY DEF CodeAt, Command
<1>4. ASSUME Executing, Command.op = "16" <=> IsFar(st) /\ IsString(st)
      PROVE  Written(DataOf(k, n)) = landed
  <2>1. Target = t
    <3>1. CASE IsFar(st) /\ IsString(st)
      <4>1. po = t /\ Command.n = 0 /\ Command.op = "16"
        BY <1>3, <1>4, <3>1 DEF Aim
      <4> QED
        BY <4>1 DEF Target
    <3>2. CASE ~(IsFar(st) /\ IsString(st))
      <4>1. Segment(ba) + (st.address % Low) = t /\ Command.n = st.address % Low /\ Command.op # "16"
        BY <1>3, <1>4, <3>2 DEF Aim
      <4> QED
        BY <4>1 DEF Target
    <3> QED
      BY <3>1, <3>2
  <2> QED
    BY <1>2, <2>1, WrittenIs
<1>5. ip \in Nat
  BY DEF TypeOK
<1>6. CASE st.kind = "hook"
  <2>1. Command.op = "c2" /\ Argument.n = 1 /\ words[ip + 2].bytes = DataOf(k, n)
    BY <1>1, <1>6 DEF CodeAt, Command, Argument
  <2>2. ~IsString(st)
    BY <1>6 DEF Statement, Write, Setting, Hook, Condition, Other, IsString
  <2>3. InsertHook
    BY <2>1, Moves
  <2>4. Writes(Written(DataOf(k, n))) /\ ip' = ip + 2 + 2 * Argument.n /\ ba' = ba /\ po' = po /\ status' = status
    BY <2>1, <2>3 DEF InsertHook
  <2>5. Executing => Written(DataOf(k, n)) = landed
    BY <1>4, <2>1, <2>2
  <2>6. ip' = ip + CodeLength(st)
    <3>1. CodeLength(st) = 4
      BY <1>6 DEF CodeLength
    <3> QED
      BY <1>5, <2>1, <2>4, <3>1
  <2>7. effects' = IF Executing THEN effects \cup landed ELSE effects
    BY <2>4, <2>5 DEF Writes
  <2> QED
    BY <1>1, <1>2, <2>4, <2>6, <2>7
<1>7. CASE st.kind # "hook" /\ IsString(st)
  <2>1. /\ Command.op = (IF IsFar(st) THEN "16" ELSE "06") /\ Argument.n = n
        /\ SubSeq(BytesOf(words, ip, n), 1, n) = DataOf(k, n)
    BY <1>1, <1>7 DEF CodeAt, Command, Argument
  <2>2. WriteString
    BY <2>1, Moves
  <2>3. /\ Writes(Written(SubSeq(BytesOf(words, ip, n), 1, n)))
        /\ ip' = ip + 2 + 2 * Lines(n) /\ ba' = ba /\ po' = po /\ status' = status
    BY <2>1, <2>2 DEF WriteString, BytesOf, Lines
  <2>4. Executing => Written(DataOf(k, n)) = landed
    BY <1>4, <1>7, <2>1
  <2>5. ip' = ip + CodeLength(st)
    <3>1. PICK m \in Nat : m = Lines(n)
      BY <1>1, CodeLengthLemma
    <3>2. CodeLength(st) = 2 + 2 * m
      BY <1>1, <1>7, <3>1 DEF CodeLength
    <3> QED
      BY <1>5, <2>3, <3>1, <3>2
  <2>6. effects' = IF Executing THEN effects \cup landed ELSE effects
    BY <2>1, <2>3, <2>4 DEF Writes
  <2> QED
    BY <1>1, <1>2, <2>3, <2>5, <2>6
<1>8. CASE st.kind # "hook" /\ ~IsString(st)
  <2>1. /\ Command.op = (CASE n = 1 -> "00" [] n = 2 -> "02" [] n = 4 -> "04")
        /\ Argument.bytes = Zeros(4 - n) \o DataOf(k, n)
    BY <1>1, <1>8 DEF CodeAt, Command, Argument
  <2>2. n \in {1, 2, 4}
    <3>1. st.kind # "array" /\ st.size \in {1, 2, 4}
      BY <1>8 DEF IsString
    <3> QED
      BY <1>1, <3>1
  <2>3. PICK skip : skip = CASE Command.op = "00" -> 3 [] Command.op = "02" -> 2 [] OTHER -> 0
    OBVIOUS
  <2>4. skip = 4 - n /\ Command.op \in {"00", "02", "04"}
    <3>1. CASE n = 1
      BY <2>1, <2>3, <3>1
    <3>2. CASE n = 2
      BY <2>1, <2>3, <3>2
    <3>3. CASE n = 4
      BY <2>1, <2>3, <3>3
    <3> QED
      BY <2>2, <3>1, <3>2, <3>3
  <2>5. WriteScalar
    BY <2>4, Moves
  <2>6. PICK bs : bs = SubSeq(Argument.bytes, skip + 1, 4)
    OBVIOUS
  <2>7. /\ Writes(Written(bs)
                  \cup (IF skip > 0 /\ SubSeq(Argument.bytes, 1, 2) # Zeros(2)
                        THEN {[b EXCEPT !.address = @ + Len(bs)] : b \in Written(bs)}
                        ELSE {}))
        /\ ip' = ip + 2 /\ ba' = ba /\ po' = po /\ status' = status
    BY <2>3, <2>5, <2>6 DEF WriteScalar
  <2>8. bs = DataOf(k, n) /\ (n # 4 => SubSeq(Argument.bytes, 1, 2) = Zeros(2))
    BY <2>1, <2>2, <2>4, <2>6, ScalarBytes
  <2>9. ~(skip > 0 /\ SubSeq(Argument.bytes, 1, 2) # Zeros(2))
    <3>1. n = 4 => ~(skip > 0)
      BY <2>4
    <3> QED
      BY <2>8, <3>1
  <2>10. Writes(Written(DataOf(k, n)) \cup {})
    BY <2>7, <2>8, <2>9
  <2>11. Executing => Written(DataOf(k, n)) = landed
    BY <1>4, <1>8, <2>4
  <2>12. ip' = ip + CodeLength(st)
    BY <1>8, <2>7 DEF CodeLength
  <2>13. effects' = IF Executing THEN effects \cup landed ELSE effects
    BY <2>10, <2>11 DEF Writes
  <2> QED
    BY <1>1, <1>2, <2>7, <2>12, <2>13
<1> QED
  BY <1>6, <1>7, <1>8

----------------------------------------------------------------------------
(* The handler and the reader *)

\* The address of a write.
LEMMA WriteAddress ==
    ASSUME NEW st \in Statement, IsWrite(st)
    PROVE  st.address \in Nat
<1>1. st \in Write \cup Hook
  BY DEF Statement, Setting, Condition, Other, IsWrite
<1>2. st.address \in Addresses
  BY <1>1 DEF Write, Hook
<1>3. Space \in Nat /\ Addresses \subseteq 0..(Space - 1)
  BY HandlerAssumption
<1>4. PICK a : a = st.address /\ a \in 0..(Space - 1)
  BY <1>2, <1>3
<1>5. a \in Nat
  BY <1>3, <1>4
<1> QED
  BY <1>4, <1>5

\* The segment of a segment.
LEMMA SegmentLemma ==
    /\ Segment(Base) = Base
    /\ \A a \in Nat : Segment(Segment(a)) + (a % Low) = a
<1>1. Low \in Nat \ {0} /\ Base \in Nat /\ Base % Low = 0
  BY HandlerAssumption
<1>2. Segment(Base) = Base
  BY <1>1 DEF Segment
<1>3. ASSUME NEW a \in Nat
      PROVE  Segment(Segment(a)) + (a % Low) = a
  <2>1. PICK r \in Nat, g \in Nat : r = a % Low /\ g = a - r /\ g % Low = 0
    BY <1>1, NearLemma
  <2>2. Segment(a) = g
    BY <2>1 DEF Segment
  <2>3. Segment(g) = g
    BY <2>1 DEF Segment
  <2>4. g + r = a
    BY <2>1
  <2> QED
    BY <2>1, <2>2, <2>3, <2>4
<1> QED
  BY <1>2, <1>3

\* What is known of a statement and of the reader in front of it.
LEMMA ReaderLemma ==
    ASSUME HandlerInv, NEW f, Reads(f), NEW k \in 1..Len(starts)
    PROVE  /\ k \in Nat /\ statements[k] \in Statement
           /\ f[k - 1] \in Knowledge /\ f[k] = Meaning(f[k - 1], k)
           /\ End(k) = BeginOf(k + 1) /\ k + 1 \in 1..(Len(starts) + 1) /\ (k + 1) - 1 = k
           /\ BeginOf(k) = starts[k]
<1>1. PICK n \in Nat : n = Len(starts) /\ n = Len(statements) /\ statements \in Seq(Statement)
  BY LenProperties DEF HandlerInv, TypeOK
<1>2. k \in 1..n /\ k - 1 \in 0..n
  BY <1>1
<1>3. statements[k] \in Statement
  BY <1>1, <1>2, ElementOfSeq
<1>4. f[k - 1] \in Knowledge /\ f[k] = Meaning(f[k - 1], k)
  BY <1>1, <1>2 DEF Reads
<1>5. End(k) = BeginOf(k + 1)
  <2>1. k = n <=> k + 1 = n + 1
    BY <1>1
  <2> QED
    BY <1>1, <2>1 DEF End, BeginOf
<1>6. BeginOf(k) = starts[k]
  BY <1>1 DEF BeginOf
<1> QED
  BY <1>1, <1>3, <1>4, <1>5, <1>6

\* A step leads to one of three places: the end of a statement.
LEMMA AtEnd ==
    ASSUME HandlerInv, ContentsOK, NEW f, Reads(f), NEW k \in 1..Len(starts), UNCHANGED program,
           ip' = End(k), effects' = f[k].written, status' = f[k].conditions, Segment(ba') = f[k].segment
    PROVE  Follows(f)'
<1>1. PICK l : l = k + 1 /\ l \in 1..(Len(starts) + 1) /\ l - 1 = k /\ ip' = BeginOf(l)
  BY ReaderLemma
<1>2. BeginOf(l)' = BeginOf(l) /\ starts' = starts
  BY ContentsKept DEF program
<1>3. Agrees(f[k])'
  BY DEF Agrees, Segment
<1>4. ip' = BeginOf(l)' /\ Agrees(f[l - 1])'
  BY <1>1, <1>2, <1>3
<1> QED
  BY <1>1, <1>2, <1>4 DEF Follows

\* The code of a far write.
LEMMA AtCode ==
    ASSUME NEW f, NEW k \in 1..Len(starts), UNCHANGED program,
           NEW st, st = statements[k], FarWrite(st),
           ip' = starts[k] + 2, Entered(st, f[k - 1])'
    PROVE  Follows(f)'
<1>1. starts' = starts /\ statements' = statements
  BY DEF program
<1>2. Entered(statements[k], f[k - 1])'
  BY <1>1 DEF Entered
<1>3. FarWrite(statements'[k])
  BY <1>1
<1> QED
  BY <1>1, <1>2, <1>3 DEF Follows

\* And its reset.
LEMMA AtReset ==
    ASSUME ContentsOK, NEW f, NEW k \in 1..Len(starts), UNCHANGED program, FarWrite(statements[k]),
           ip' = End(k) - 2, effects' = f[k].written
    PROVE  Follows(f)'
<1>1. starts' = starts /\ statements' = statements /\ End(k)' = End(k)
  BY ContentsKept DEF program
<1> QED
  BY <1>1 DEF Follows

\* The handler at the first command of a statement.
LEMMA BeginStep ==
    ASSUME HandlerInv, ContentsOK, Running, Next, NEW f, Reads(f), NEW k \in 1..Len(starts),
           ip = starts[k], Agrees(f[k - 1]), Says(words, starts[k], End(k), statements[k], k)
    PROVE  Follows(f)'
<1>1. PICK st \in Statement, s \in Knowledge :
        st = statements[k] /\ s = f[k - 1] /\ f[k] = Meaning(s, k) /\ k \in Nat
  BY ReaderLemma
<1>2. TypeOK /\ UNCHANGED <<program, phase>>
  BY Moves DEF HandlerInv
<1>3. effects = s.written /\ status = s.conditions /\ Segment(ba) = s.segment
  BY <1>1 DEF Agrees
<1>4. PICK c : c = s.conditions /\ Executing = Holds(c)
  BY <1>3 DEF Executing
<1>5. st.address \in Int /\ st.size \in Nat /\ st.address % Low \in Int /\ s.segment \in Int
  BY StatementLemma DEF Knowledge
<1>6. CASE IsWrite(st) /\ ~IsFar(st)
  <2>1. End(k) = ip + CodeLength(st) /\ CodeAt(words, ip, st, k)
    BY <1>1, <1>6 DEF Says
  <2>2. PICK t \in Int : t = Goal(st, s.segment) /\ t = Aim(st)
    BY <1>3, <1>5, <1>6 DEF Goal, Aim
  <2>3. /\ ip' = ip + CodeLength(st)
        /\ effects' = IF Holds(c) THEN effects \cup Landed(k, t, st.size) ELSE effects
        /\ ba' = ba /\ status' = status
    BY <1>1, <1>2, <1>4, <1>6, <2>1, <2>2, CodeMove
  <2>4. f[k] = [segment |-> s.segment, conditions |-> s.conditions,
                written |-> IF Holds(c) THEN s.written \cup Landed(k, t, st.size) ELSE s.written]
    <3>1. f[k] = [segment |-> IF IsFar(st) THEN Base ELSE s.segment,
                  conditions |-> IF IsFar(st) THEN <<>> ELSE s.conditions,
                  written |-> IF Holds(s.conditions)
                              THEN s.written \cup Landed(k, Goal(st, s.segment), st.size) ELSE s.written]
      BY <1>1, <1>6, WriteMeans
    <3> QED
      BY <1>4, <1>6, <2>2, <3>1
  <2>5. f[k].written = effects' /\ f[k].conditions = status' /\ f[k].segment = Segment(ba')
    BY <1>3, <2>3, <2>4
  <2> QED
    BY <1>2, <2>1, <2>3, <2>5, AtEnd
<1>7. CASE IsWrite(st) /\ IsFar(st)
  <2>1. Surrounded(words, ip, End(k), st)
    BY <1>1, <1>7 DEF Says
  <2>2. Command.op \in {"ba", "po"} /\ Argument.n = (IF IsString(st) THEN st.address ELSE Segment(st.address))
        /\ Command.op = (IF IsString(st) THEN "po" ELSE "ba")
    BY <2>1 DEF Surrounded, Command, Argument
  <2>3. SetRegister
    BY <1>2, <2>2, Moves
  <2>4. /\ ba' = IF Holds(c) /\ Command.op = "ba" THEN Argument.n ELSE ba
        /\ po' = IF Holds(c) /\ Command.op = "po" THEN Argument.n ELSE po
        /\ ip' = ip + 2 /\ status' = status /\ effects' = effects
    BY <1>4, <2>3 DEF SetRegister
  <2>5. Holds(c) => IF IsString(st) THEN po' = st.address ELSE ba' = Segment(st.address)
    BY <2>2, <2>4
  <2>6. Executing' => Holds(c)
    BY <1>3, <1>4, <2>4 DEF Executing
  <2>7. Entered(st, s)'
    BY <1>3, <2>4, <2>5, <2>6 DEF Entered
  <2>8. ip' = starts[k] + 2 /\ FarWrite(st)
    BY <1>7, <2>4 DEF FarWrite
  <2> QED
    BY <1>1, <1>2, <2>7, <2>8, AtCode
<1>8. CASE ~IsWrite(st)
  <2>1. End(k) = ip + 2 /\ PairAt(words, ip, st)
    BY <1>1, <1>8 DEF Says
  <2>2. PICK kind : kind = st.kind
    OBVIOUS
  <2>3. /\ f[k].segment = IF kind = "ba" /\ Holds(c) THEN Segment(st.address)
                          ELSE IF kind \in {"reset", "endif reset"} THEN Base ELSE s.segment
        /\ f[k].conditions = IF kind = "reset" THEN <<>>
                             ELSE IF kind = "if" THEN Append(s.conditions, Holds(c) /\ st.address = 1)
                             ELSE IF kind \in {"endif", "endif reset"} /\ s.conditions # <<>>
                                  THEN Front(s.conditions) ELSE s.conditions
        /\ f[k].written = s.written
    <3>1. PICK g, d :
            /\ g = (IF st.kind = "ba" /\ Holds(s.conditions) THEN Segment(st.address)
                    ELSE IF st.kind \in {"reset", "endif reset"} THEN Base ELSE s.segment)
            /\ d = (IF st.kind = "reset" THEN <<>>
                    ELSE IF st.kind = "if"
                         THEN Append(s.conditions, Holds(s.conditions) /\ st.address = 1)
                    ELSE IF st.kind \in {"endif", "endif reset"} /\ s.conditions # <<>>
                         THEN Front(s.conditions) ELSE s.conditions)
      OBVIOUS
    <3>2. f[k] = [segment |-> g, conditions |-> d, written |-> s.written]
      BY <1>1, <1>8, <3>1, PairMeans
    <3>3. f[k].segment = g /\ f[k].conditions = d /\ f[k].written = s.written
      BY <3>2
    <3>4. d = IF kind = "reset" THEN <<>>
              ELSE IF kind = "if" THEN Append(s.conditions, Holds(c) /\ st.address = 1)
              ELSE IF kind \in {"endif", "endif reset"} /\ s.conditions # <<>>
                   THEN Front(s.conditions) ELSE s.conditions
      BY <1>4, <2>2, <3>1
    <3> QED
      BY <1>4, <2>2, <3>1, <3>3, <3>4
  <2>4. kind \in {"ba", "po", "reset", "if", "endif", "endif reset", "other"}
    BY <1>8, <2>2 DEF Statement, Write, Hook, Setting, Condition, Other, IsWrite
  <2>5. /\ ip' = ip + 2 /\ effects' = f[k].written
        /\ status' = f[k].conditions /\ Segment(ba') = f[k].segment
    <3>1. CASE kind \in {"ba", "po"}
      <4>1. Command.op = kind /\ Argument.n = st.address
        BY <2>1, <2>2, <3>1 DEF PairAt, Command, Argument
      <4>2. SetRegister
        BY <1>2, <3>1, <4>1, Moves
      <4>3. /\ ba' = IF Holds(c) /\ kind = "ba" THEN st.address ELSE ba
            /\ ip' = ip + 2 /\ status' = status /\ effects' = effects
        BY <1>4, <4>1, <4>2 DEF SetRegister
      <4>4. f[k].segment = IF kind = "ba" /\ Holds(c) THEN Segment(st.address) ELSE s.segment
        BY <2>3, <3>1
      <4>5. f[k].conditions = s.conditions /\ f[k].written = s.written
        BY <2>3, <3>1
      <4>6. Segment(ba') = f[k].segment
        BY <1>3, <4>3, <4>4
      <4> QED
        BY <1>3, <4>3, <4>5, <4>6
    <3>2. CASE kind = "reset"
      <4>1. Command.op = "reset"
        BY <2>1, <2>2, <3>2 DEF PairAt, Command
      <4>2. ResetRegisters
        BY <1>2, <4>1, Moves
      <4>3. ba' = Base /\ ip' = ip + 2 /\ status' = <<>> /\ effects' = effects
        BY <4>2 DEF ResetRegisters
      <4>4. f[k].segment = Base /\ f[k].conditions = <<>> /\ f[k].written = s.written
        BY <2>3, <3>2
      <4> QED
        BY <1>3, <4>3, <4>4, SegmentLemma
    <3>3. CASE kind = "if"
      <4>1. Command.op = "if" /\ Command.n = st.address
        BY <2>1, <2>2, <3>3 DEF PairAt, Command
      <4>2. BeginCondition
        BY <1>2, <4>1, Moves
      <4>3. /\ status' = Append(status, Holds(c) /\ st.address = 1)
            /\ ba' = ba /\ ip' = ip + 2 /\ effects' = effects
        BY <1>4, <4>1, <4>2 DEF BeginCondition
      <4>4. /\ f[k].segment = s.segment /\ f[k].written = s.written
            /\ f[k].conditions = Append(s.conditions, Holds(c) /\ st.address = 1)
        BY <2>3, <3>3
      <4> QED
        BY <1>3, <4>3, <4>4
    <3>4. CASE kind \in {"endif", "endif reset"}
      <4>1. Command.op = "endif" /\ (Argument.n = Base <=> kind = "endif reset")
        <5>1. Base # 0
          BY HandlerAssumption
        <5> QED
          BY <2>1, <2>2, <3>4, <5>1 DEF PairAt, Command, Argument
      <4>2. EndCondition
        BY <1>2, <4>1, Moves
      <4>3. /\ status' = IF status = <<>> THEN <<>> ELSE Front(status)
            /\ ba' = IF kind = "endif reset" THEN Base ELSE ba
            /\ ip' = ip + 2 /\ effects' = effects
        BY <4>1, <4>2 DEF EndCondition
      <4>4. /\ f[k].segment = (IF kind = "endif reset" THEN Base ELSE s.segment)
            /\ f[k].written = s.written
            /\ f[k].conditions = IF s.conditions # <<>> THEN Front(s.conditions) ELSE s.conditions
        BY <2>3, <3>4
      <4>5. Segment(ba') = f[k].segment
        BY <1>3, <4>3, <4>4, SegmentLemma
      <4>6. status' = f[k].conditions
        BY <1>3, <4>3, <4>4
      <4> QED
        BY <1>3, <4>3, <4>4, <4>5, <4>6
    <3>5. CASE kind = "other"
      <4>1. Command.op = "other"
        BY <2>1, <2>2, <3>5 DEF PairAt, Command
      <4>2. Skip
        BY <1>2, <4>1, Moves
      <4>3. ba' = ba /\ status' = status /\ ip' = ip + 2 /\ effects' = effects
        BY <4>2 DEF Skip
      <4>4. f[k].segment = s.segment /\ f[k].written = s.written /\ f[k].conditions = s.conditions
        BY <2>3, <3>5
      <4> QED
        BY <1>3, <4>3, <4>4
    <3> QED
      BY <2>4, <3>1, <3>2, <3>3, <3>4, <3>5
  <2> QED
    BY <1>2, <2>1, <2>5, AtEnd
<1> QED
  BY <1>6, <1>7, <1>8

\* The handler at the code of a far write.
LEMMA CodeStep ==
    ASSUME HandlerInv, ContentsOK, Running, Next, NEW f, Reads(f), NEW k \in 1..Len(starts),
           FarWrite(statements[k]), ip = starts[k] + 2, Entered(statements[k], f[k - 1]),
           Says(words, starts[k], End(k), statements[k], k)
    PROVE  Follows(f)'
<1>1. PICK st \in Statement, s \in Knowledge :
        st = statements[k] /\ s = f[k - 1] /\ f[k] = Meaning(s, k) /\ k \in Nat
  BY ReaderLemma
<1>2. TypeOK /\ UNCHANGED <<program, phase>> /\ IsWrite(st) /\ IsFar(st)
  BY <1>1, Moves DEF HandlerInv, FarWrite
<1>3. /\ effects = s.written /\ status = s.conditions
      /\ Executing => IF IsString(st) THEN po = st.address ELSE ba = Segment(st.address)
  BY <1>1 DEF Entered
<1>4. PICK c : c = s.conditions /\ Executing = Holds(c)
  BY <1>3 DEF Executing
<1>5. PICK t \in Nat : t = st.address
  BY <1>2, WriteAddress
<1>6. Executing => Aim(st) = t
  <2>1. Segment(Segment(t)) + (t % Low) = t
    BY SegmentLemma
  <2> QED
    BY <1>2, <1>3, <1>5, <2>1 DEF Aim
<1>7. CodeAt(words, ip, st, k) /\ End(k) = starts[k] + CodeLength(st) + 4 /\ starts[k] \in Nat
  BY <1>1, <1>2 DEF Says
<1>8. /\ ip' = ip + CodeLength(st)
      /\ effects' = IF Holds(c) THEN effects \cup Landed(k, t, st.size) ELSE effects
  BY <1>1, <1>2, <1>4, <1>6, <1>7, CodeMove
<1>9. f[k].written = IF Holds(c) THEN s.written \cup Landed(k, t, st.size) ELSE s.written
  <2>1. f[k].written = IF Holds(s.conditions)
                       THEN s.written \cup Landed(k, Goal(st, s.segment), st.size) ELSE s.written
    <3>1. PICK w : w = IF Holds(s.conditions)
                       THEN s.written \cup Landed(k, Goal(st, s.segment), st.size) ELSE s.written
      OBVIOUS
    <3>2. f[k] = [segment |-> IF IsFar(st) THEN Base ELSE s.segment,
                  conditions |-> IF IsFar(st) THEN <<>> ELSE s.conditions, written |-> w]
      BY <1>1, <1>2, <3>1, WriteMeans
    <3> QED
      BY <3>1, <3>2
  <2>2. Goal(st, s.segment) = t
    BY <1>2, <1>5 DEF Goal
  <2> QED
    BY <1>4, <2>1, <2>2
<1>10. ip' = End(k) - 2
  <2>1. PICK l \in Nat : l = CodeLength(st)
    BY StatementLemma, CodeLengthLemma
  <2> QED
    BY <1>7, <1>8, <2>1
<1>11. effects' = f[k].written
  BY <1>3, <1>8, <1>9
<1> QED
  BY <1>2, <1>10, <1>11, AtReset

\* The handler at the reset of a far write.
LEMMA ResetStep ==
    ASSUME HandlerInv, ContentsOK, Running, Next, NEW f, Reads(f), NEW k \in 1..Len(starts),
           FarWrite(statements[k]), ip = End(k) - 2, effects = f[k].written,
           Says(words, starts[k], End(k), statements[k], k)
    PROVE  Follows(f)'
<1>1. PICK st \in Statement, s \in Knowledge :
        st = statements[k] /\ s = f[k - 1] /\ f[k] = Meaning(s, k) /\ k \in Nat
  BY ReaderLemma
<1>2. TypeOK /\ UNCHANGED <<program, phase>> /\ IsWrite(st) /\ IsFar(st)
  BY <1>1, Moves DEF HandlerInv, FarWrite
<1>3. Command.op = "reset" /\ End(k) \in Nat
  BY <1>1, <1>2 DEF Says, Surrounded, Command
<1>4. ResetRegisters
  BY <1>2, <1>3, Moves
<1>5. ba' = Base /\ ip' = ip + 2 /\ status' = <<>> /\ effects' = effects
  BY <1>4 DEF ResetRegisters
<1>6. f[k].segment = Base /\ f[k].conditions = <<>>
  BY <1>1, <1>2, WriteMeans
<1>7. ip' = End(k)
  BY <1>3, <1>5
<1>8. Segment(ba') = f[k].segment
  BY <1>5, <1>6, SegmentLemma
<1> QED
  BY <1>2, <1>5, <1>6, <1>7, <1>8, AtEnd

\* Each step of the handler follows the reader.
LEMMA FollowsStep ==
    ASSUME HandlerInv, ContentsOK, Corrected, Running, Next, NEW f, Reads(f), Follows(f)
    PROVE  Follows(f)'
<1>1. Len(starts) \in Nat /\ Len(words) \in Nat /\ ip < Len(words) /\ ip \in Nat
  BY LenProperties DEF HandlerInv, TypeOK, Running
<1>2. ASSUME NEW k \in 1..Len(starts)
      PROVE  Says(words, starts[k], End(k), statements[k], k)
  BY DEF ContentsOK
<1>3. ASSUME NEW k \in 1..(Len(starts) + 1), ip = BeginOf(k), Agrees(f[k - 1])
      PROVE  Follows(f)'
  <2>1. k # Len(starts) + 1
    BY <1>1, <1>3 DEF BeginOf
  <2>2. k \in 1..Len(starts) /\ ip = starts[k]
    BY <1>1, <1>3, <2>1 DEF BeginOf
  <2> QED
    BY <1>2, <1>3, <2>2, BeginStep
<1>4. ASSUME NEW k \in 1..Len(starts), FarWrite(statements[k]), ip = starts[k] + 2,
             Entered(statements[k], f[k - 1])
      PROVE  Follows(f)'
  BY <1>2, <1>4, CodeStep
<1>5. ASSUME NEW k \in 1..Len(starts), FarWrite(statements[k]), ip = End(k) - 2, effects = f[k].written
      PROVE  Follows(f)'
  BY <1>2, <1>5, ResetStep
<1> QED
  BY <1>3, <1>4, <1>5 DEF Follows

----------------------------------------------------------------------------
(* The reader of the source *)

\* FoldLeft over the numbers ks of statements.
ReadsIn(ks) ==
    LET it == CHOOSE f : f = [S \in SUBSET (DOMAIN ks) |->
                  IF S = {} THEN Segments ELSE Meaning(f[S \ {Max(S)}], ks[Max(S)])]
    IN  it[DOMAIN ks]

\* It goes from the first statement to the last one.
LEMMA ReadsLemma ==
    ASSUME HandlerInv
    PROVE  \E f : Reads(f) /\ ReadsIn([k \in DOMAIN statements |-> k]) = f[Len(statements)]
<1>1. PICK n \in Nat : n = Len(statements) /\ DOMAIN statements = 1..n
                       /\ \A k \in 1..n : statements[k] \in Statement
  <2>1. statements \in Seq(Statement)
    BY DEF HandlerInv, TypeOK
  <2> QED
    BY <2>1, LenProperties, ElementOfSeq
<1>2. PICK ks : ks = [k \in DOMAIN statements |-> k]
  OBVIOUS
<1>3. DOMAIN ks = 1..n /\ \A k \in 1..n : ks[k] = k
  BY <1>1, <1>2
<1> DEFINE Is(f) == f = [S \in SUBSET (1..n) |->
                            IF S = {} THEN Segments ELSE Meaning(f[S \ {Max(S)}], ks[Max(S)])]
<1>4. Segments \in Knowledge
  <2>1. Base \in Int /\ <<>> \in Seq(BOOLEAN)
    BY HandlerAssumption, EmptySeq
  <2> QED
    BY <2>1 DEF Segments, Knowledge
<1>5. PICK F : F = [z \in (1..n) \X Knowledge |-> Meaning(z[2], z[1])]
  OBVIOUS
<1>6. ASSUME NEW k \in 1..n, NEW v \in Knowledge
      PROVE  F[<<k, v>>] = Meaning(v, k) /\ Meaning(v, k) \in Knowledge
  <2>1. <<k, v>> \in (1..n) \X Knowledge /\ <<k, v>>[1] = k /\ <<k, v>>[2] = v
    OBVIOUS
  <2>2. F[<<k, v>>] = Meaning(v, k)
    BY <1>5, <2>1
  <2>3. k \in Nat
    OBVIOUS
  <2> QED
    BY <1>1, <2>2, <2>3, MeaningLemma
<1>7. PICK it \in [SUBSET (1..n) -> Knowledge] : Folds(it, F, Segments, n)
  <2>1. PICK base \in Knowledge : base = Segments
    BY <1>4
  <2>2. \A k \in 1..n : \A v \in Knowledge : F[<<k, v>>] \in Knowledge
    BY <1>6
  <2>3. \E it \in [SUBSET (1..n) -> Knowledge] : Folds(it, F, base, n)
    BY <2>2, FoldsExist
  <2> QED
    BY <2>1, <2>3
<1>8. Is(it)
  <2>1. ASSUME NEW S \in SUBSET (1..n)
        PROVE  it[S] = IF S = {} THEN Segments ELSE Meaning(it[S \ {Max(S)}], ks[Max(S)])
    <3>1. it[S] = IF S = {} THEN Segments ELSE F[<<Max(S), it[S \ {Max(S)}]>>]
      BY <1>7 DEF Folds
    <3>2. ASSUME S # {}
          PROVE  F[<<Max(S), it[S \ {Max(S)}]>>] = Meaning(it[S \ {Max(S)}], ks[Max(S)])
      <4>1. Max(S) \in 1..n
        BY <3>2, MaxLemma
      <4>2. it[S \ {Max(S)}] \in Knowledge
        OBVIOUS
      <4> QED
        BY <1>3, <1>6, <4>1, <4>2
    <3> QED
      BY <3>1, <3>2
  <2>2. it = [S \in SUBSET (1..n) |-> it[S]]
    OBVIOUS
  <2> QED
    BY <2>1, <2>2
<1>9. PICK g : g = CHOOSE f : Is(f)
  OBVIOUS
<1>10. Is(g)
  BY <1>8, <1>9
<1>11. ReadsIn(ks) = g[1..n]
  BY <1>3, <1>9 DEF ReadsIn
<1>12. g[1..0] = Segments
  <2>1. 1..0 = {} /\ {} \in SUBSET (1..n)
    OBVIOUS
  <2> QED
    BY <1>10, <2>1
<1>13. ASSUME NEW k \in 1..n
       PROVE  g[1..k] = Meaning(g[1..(k - 1)], k)
  <2>1. k \in Nat \ {0} /\ 1..k \in SUBSET (1..n)
    OBVIOUS
  <2>2. 1..k # {} /\ Max(1..k) = k /\ (1..k) \ {Max(1..k)} = 1..(k - 1)
    BY <2>1, MaxOfPlaces
  <2>3. g[1..k] = IF 1..k = {} THEN Segments ELSE Meaning(g[(1..k) \ {Max(1..k)}], ks[Max(1..k)])
    BY <1>10, <2>1
  <2> QED
    BY <1>3, <2>2, <2>3
<1> HIDE DEF Is
<1>14. \A k \in 0..n : g[1..k] \in Knowledge
  <2> DEFINE T == {k \in Nat : g[1..k] \in Knowledge}
  <2>1. ASSUME NEW k \in Nat, k + 1 \in 1..n, g[1..k] \in Knowledge
        PROVE  g[1..(k + 1)] \in Knowledge
    <3>1. (k + 1) - 1 = k
      OBVIOUS
    <3>2. g[1..(k + 1)] = Meaning(g[1..k], k + 1)
      BY <1>13, <2>1, <3>1
    <3> QED
      BY <1>6, <2>1, <3>2
  <2>2. n > 0 => 1 \in T
    <3>1. n > 0 => 0 + 1 \in 1..n /\ 0 + 1 = 1
      OBVIOUS
    <3>2. n > 0 => g[1..(0 + 1)] \in Knowledge
      BY <1>4, <1>12, <2>1, <3>1
    <3> QED
      BY <3>1, <3>2
  <2>3. ASSUME NEW k \in 1..(n - 1), k \in T
        PROVE  k + 1 \in T
    <3>1. k \in Nat /\ k + 1 \in 1..n /\ k + 1 \in Nat
      OBVIOUS
    <3> QED
      BY <2>1, <2>3, <3>1
  <2> HIDE DEF T
  <2>4. \A k \in 1..n : k \in T
    BY <2>2, <2>3, UpTo
  <2>5. \A k \in 0..n : k = 0 \/ k \in 1..n
    OBVIOUS
  <2> QED
    BY <1>4, <1>12, <2>4, <2>5 DEF T
<1>15. PICK f : f = [k \in 0..n |-> g[1..k]]
  OBVIOUS
<1>16. Reads(f)
  <2>1. f \in [0..n -> Knowledge] /\ f[0] = Segments
    BY <1>12, <1>14, <1>15
  <2>2. ASSUME NEW k \in 1..n
        PROVE  f[k] = Meaning(f[k - 1], k)
    <3>1. k \in 0..n /\ k - 1 \in 0..n
      OBVIOUS
    <3> QED
      BY <1>13, <1>15, <3>1
  <2> QED
    BY <1>1, <2>1, <2>2 DEF Reads
<1>17. f[n] = ReadsIn(ks)
  <2>1. n \in 0..n
    OBVIOUS
  <2> QED
    BY <1>11, <1>15, <2>1
<1> QED
  BY <1>1, <1>2, <1>16, <1>17

----------------------------------------------------------------------------
(* The invariant of effects *)

\* Nothing is read or done in the beginning.
LEMMA EffectsInit ==
    ASSUME Init
    PROVE  ContentsOK /\ EffectsOK
<1>1. phase = "encode" /\ starts = <<>> /\ ba = Base /\ status = <<>> /\ effects = {}
  BY DEF Init
<1>2. ContentsOK
  BY <1>1 DEF ContentsOK
<1>3. EffectsOK
  BY <1>1 DEF EffectsOK
<1> QED
  BY <1>2, <1>3

\* What follows the reader does so when nothing changes.
LEMMA FollowsKept ==
    ASSUME UNCHANGED <<program, handler>>, NEW f, Follows(f)
    PROVE  Follows(f)'
<1>1. /\ words' = words /\ starts' = starts /\ statements' = statements
      /\ ip' = ip /\ ba' = ba /\ po' = po /\ status' = status /\ effects' = effects
  BY DEF program, handler
<1>2. \A k : End(k)' = End(k) /\ BeginOf(k)' = BeginOf(k)
  BY <1>1 DEF End, BeginOf
<1>3. \A s : Agrees(s)' <=> Agrees(s)
  BY <1>1 DEF Agrees, Segment
<1>4. \A k : FarWrite(statements[k])' <=> FarWrite(statements[k])
  BY <1>1
<1>5. \A k : Entered(statements[k], f[k - 1])' <=> Entered(statements[k], f[k - 1])
  BY <1>1 DEF Entered, Executing
<1>6. CASE \E k \in 1..(Len(starts) + 1) : ip = BeginOf(k) /\ Agrees(f[k - 1])
  BY <1>1, <1>2, <1>3, <1>6 DEF Follows
<1>7. CASE \E k \in 1..Len(starts) :
               /\ FarWrite(statements[k])
               /\ \/ ip = starts[k] + 2 /\ Entered(statements[k], f[k - 1])
                  \/ ip = End(k) - 2 /\ effects = f[k].written
  <2>1. PICK k \in 1..Len(starts) :
          /\ FarWrite(statements[k])
          /\ \/ ip = starts[k] + 2 /\ Entered(statements[k], f[k - 1])
             \/ ip = End(k) - 2 /\ effects = f[k].written
    BY <1>7
  <2>2. k \in 1..Len(starts') /\ FarWrite(statements[k])'
    BY <1>1, <1>4, <2>1
  <2>3. \/ ip' = starts'[k] + 2 /\ Entered(statements[k], f[k - 1])'
        \/ ip' = End(k)' - 2 /\ effects' = f[k].written
    BY <1>1, <1>2, <1>5, <2>1
  <2> QED
    BY <2>2, <2>3 DEF Follows
<1> QED
  BY <1>6, <1>7 DEF Follows

\* The handler begins where the reader does.
LEMMA FollowsLoad ==
    ASSUME HandlerInv, EffectsOK, Load, NEW f, Reads(f)
    PROVE  Follows(f)'
<1>1. phase = "encode" /\ statements # <<>> /\ UNCHANGED <<program, handler>>
  BY DEF Load
<1>2. ip = 1 /\ ba = Base /\ status = <<>> /\ effects = {}
  BY <1>1 DEF HandlerInv, PlaceOK, EffectsOK
<1>3. PICK n \in Nat : n = Len(starts) /\ n # 0
  BY <1>1, EmptySeq, LenProperties DEF HandlerInv, TypeOK
<1>4. BeginOf(1) = 1
  <2>1. 1 # n + 1 /\ starts # <<>>
    BY <1>3
  <2> QED
    BY <1>3, <2>1 DEF BeginOf, HandlerInv, LayoutOK
<1>5. Agrees(Segments)
  BY <1>2, SegmentLemma DEF Agrees, Segments
<1>6. f[1 - 1] = Segments
  BY DEF Reads
<1>7. 1 \in 1..(Len(starts) + 1)
  BY <1>3
<1>8. Follows(f)
  BY <1>2, <1>4, <1>5, <1>6, <1>7 DEF Follows
<1> QED
  BY <1>1, <1>8, FollowsKept

\* Every step keeps the invariant.
LEMMA EffectsStep ==
    ASSUME HandlerInv, ContentsOK, EffectsOK, [Next]_vars
    PROVE  ContentsOK' /\ EffectsOK'
<1>1. CASE UNCHANGED vars
  <2>1. UNCHANGED <<program, handler>> /\ phase' = phase
    BY <1>1 DEF vars, program, handler
  <2>2. ContentsOK' /\ (Corrected' <=> Corrected) /\ \A f : Reads(f)' <=> Reads(f)
    BY <2>1, ContentsKept
  <2>3. ASSUME NEW f, Follows(f)
        PROVE  Follows(f)'
    BY <2>1, <2>3, FollowsKept
  <2>4. EffectsOK'
    BY <2>1, <2>2, <2>3 DEF EffectsOK, program, handler
  <2> QED
    BY <2>2, <2>4
<1>2. ASSUME NEW st \in Statement, Encode(st)
      PROVE  ContentsOK' /\ EffectsOK'
  <2>1. phase = "encode" /\ phase' = "encode" /\ UNCHANGED handler
    BY <1>2 DEF Encode
  <2>2. EffectsOK'
    BY <2>1 DEF EffectsOK, handler
  <2> QED
    BY <1>2, <2>2, ContentsEncode
<1>3. ASSUME NEW st \in Statement, Reject(st)
      PROVE  ContentsOK' /\ EffectsOK'
  <2>1. phase = "encode" /\ phase' = "failed" /\ UNCHANGED <<program, handler>>
    BY <1>3 DEF Reject
  <2>2. EffectsOK'
    BY <2>1 DEF EffectsOK, handler
  <2> QED
    BY <2>1, <2>2, ContentsKept
<1>4. CASE Load
  <2>1. phase' = "run" /\ UNCHANGED <<program, handler>>
    BY <1>4 DEF Load
  <2>2. ContentsOK' /\ \A f : Reads(f)' <=> Reads(f)
    BY <2>1, ContentsKept
  <2>3. ASSUME NEW f, Reads(f)
        PROVE  Follows(f)'
    BY <1>4, <2>3, FollowsLoad
  <2>4. EffectsOK'
    BY <2>1, <2>2, <2>3 DEF EffectsOK
  <2> QED
    BY <2>2, <2>4
<1>5. CASE Return
  <2>1. phase = "run" /\ phase' = "done" /\ ip > Len(words) /\ UNCHANGED <<program, handler>>
    BY <1>5 DEF Return
  <2>2. ContentsOK' /\ (Corrected' <=> Corrected) /\ \A f : Reads(f)' <=> Reads(f)
    BY <2>1, ContentsKept
  <2>3. ASSUME NEW f, Follows(f)
        PROVE  Follows(f)'
    BY <2>1, <2>3, FollowsKept
  <2>4. EffectsOK'
    BY <2>1, <2>2, <2>3 DEF EffectsOK, program, handler
  <2> QED
    BY <2>2, <2>4
<1>6. ASSUME Next, Running
      PROVE  ContentsOK' /\ EffectsOK'
  <2>1. phase = "run" /\ UNCHANGED <<program, phase>>
    BY <1>6, Moves DEF Running, HandlerInv
  <2>2. ContentsOK' /\ (Corrected' <=> Corrected) /\ \A f : Reads(f)' <=> Reads(f)
    BY <2>1, ContentsKept
  <2>3. ASSUME NEW f, Corrected, Reads(f)
        PROVE  Follows(f)'
    <3>1. Follows(f)
      BY <2>1, <2>3 DEF EffectsOK
    <3> QED
      BY <1>6, <2>3, <3>1, FollowsStep
  <2>4. EffectsOK'
    BY <2>1, <2>2, <2>3 DEF EffectsOK
  <2> QED
    BY <2>2, <2>4
<1>7. Next => \/ \E st \in Statement : Encode(st)
              \/ \E st \in Statement : Reject(st)
              \/ Load \/ Return \/ Running
  BY DEF Next, SetRegister, ResetRegisters, BeginCondition, EndCondition, WriteScalar, WriteString,
         InsertHook, Skip
<1> QED
  BY <1>1, <1>2, <1>3, <1>4, <1>5, <1>6, <1>7

----------------------------------------------------------------------------
(* The theorems *)

\* The statements that encodeWrite, encodeBlock and the directives encode follow each
\* other without a gap, and the handler is always at one of their commands.
THEOREM HandlerInvariant == Spec => []HandlerInv
<1>1. Init => HandlerInv
  BY InitHolds
<1>2. HandlerInv /\ [Next]_vars => HandlerInv'
  BY NextKeepsInv
<1> QED
  BY <1>1, <1>2, PTL DEF Spec

\* The words of a section have the fields that the handler reads, whatever encodes
\* them.
THEOREM TypeCorrect == Spec => []TypeOK
<1>1. HandlerInv => TypeOK
  BY DEF HandlerInv
<1> QED
  BY <1>1, HandlerInvariant, PTL

\* The padding of encodeWrite, the size it puts in the head of a string, the line
\* count of a HOOK and the words around a far write are such that the handler takes
\* for commands what begins a statement, and never a value or data.
THEOREM StepIsKept == Spec => []HandlerKeepsStep
<1>1. ASSUME HandlerInv
      PROVE  HandlerKeepsStep
  <2> SUFFICES ASSUME phase = "run", ip <= Len(words)
               PROVE  LET k == CHOOSE n \in DOMAIN starts :
                                  starts[n] <= ip /\ \A m \in DOMAIN starts : starts[m] <= ip => m <= n
                          far == IsWrite(statements[k]) /\ IsFar(statements[k])
                      IN  /\ words[ip].op \notin {"number", "bytes"}
                          /\ \/ ip = starts[k]
                             \/ far /\ (ip = starts[k] + 2 \/ words[ip].op = "reset")
    BY DEF HandlerKeepsStep
  <2>1. TypeOK /\ LayoutOK /\ PlaceOK
    BY <1>1 DEF HandlerInv
  <2>2. /\ Len(words) \in Nat /\ Len(starts) \in Nat /\ ip \in Nat /\ DOMAIN starts = 1..Len(starts)
        /\ \A m \in 1..Len(starts) : starts[m] \in Nat
    BY <2>1, LenProperties DEF TypeOK
  <2>3. PICK k \in 1..Len(starts) : ip \in CommandsOf(k)
    BY <2>1, <2>2 DEF PlaceOK
  <2>4. Laid(words, starts[k], End(k), CommandsOf(k))
    BY <2>1 DEF LayoutOK
  <2>5. /\ starts[k] <= ip /\ ip + 2 <= End(k) /\ End(k) \in Nat
        /\ words[ip].op \in Heads
        /\ ip \notin {starts[k], starts[k] + 2} => words[ip].op = "reset"
    BY <2>3, <2>4 DEF Laid
  <2>6. ASSUME NEW m \in 1..Len(starts), starts[m] <= ip
        PROVE  m <= k
    <3> SUFFICES ASSUME m > k
                 PROVE  FALSE
      BY <2>2
    <3> PICK n \in Nat : n = Len(starts)
      BY <2>2
    <3>1. k + 1 \in 1..Len(starts) /\ k # Len(starts) /\ m \in Int /\ k \in Int
      OBVIOUS
    <3>2. End(k) = starts[k + 1]
      BY <3>1 DEF End
    <3>3. starts[k + 1] <= starts[m]
      <4>1. CASE m = k + 1
        <5>1. starts[m] \in Nat
          BY <2>2
        <5> QED
          BY <4>1, <5>1
      <4>2. CASE m > k + 1
        <5>1. starts[k + 1] < starts[m]
          BY <4>2, <3>1, <2>1 DEF LayoutOK
        <5> QED
          BY <5>1, <3>1, <2>2
      <4> QED
        BY <4>1, <4>2, <3>1
    <3>4. starts[m] \in Nat /\ starts[k + 1] \in Nat
      BY <3>1, <2>2
    <3> QED
      BY <2>2, <2>5, <2>6, <3>2, <3>3, <3>4
  <2>7. PICK j : j = CHOOSE n \in DOMAIN starts :
                        starts[n] <= ip /\ \A m \in DOMAIN starts : starts[m] <= ip => m <= n
    OBVIOUS
  <2>8. j \in 1..Len(starts) /\ starts[j] <= ip /\ \A m \in 1..Len(starts) : starts[m] <= ip => m <= j
    BY <2>2, <2>5, <2>6, <2>7
  <2>9. j = k
    BY <2>2, <2>5, <2>6, <2>8
  <2>10. words[ip].op \notin {"number", "bytes"}
    BY <2>5 DEF Heads
  <2>11. \/ ip = starts[k]
         \/ FarWrite(statements[k]) /\ (ip = starts[k] + 2 \/ words[ip].op = "reset")
    BY <2>3, <2>5 DEF CommandsOf, Commands
  <2> QED
    BY <2>7, <2>9, <2>10, <2>11 DEF FarWrite
<1> QED
  BY <1>1, HandlerInvariant, PTL

\* With the corrections of addresses, what encodeWrite, encodeBlock and the directives
\* encode makes the handler write what the source says, at the addresses it says, where
\* the conditions of the source hold, and nothing else.
THEOREM EffectsFollow == Spec => []EffectsFollowSource
<1>1. Init => EffectsInv
  BY InitHolds, EffectsInit DEF EffectsInv
<1>2. EffectsInv /\ [Next]_vars => EffectsInv'
  BY NextKeepsInv, EffectsStep DEF EffectsInv
<1>3. ASSUME EffectsInv
      PROVE  EffectsFollowSource
  <2> SUFFICES ASSUME phase = "done", Corrected
               PROVE  effects = FoldLeft(Meaning, Segments, [k \in DOMAIN statements |-> k]).written
    BY DEF EffectsFollowSource, Corrected
  <2>1. HandlerInv /\ EffectsOK
    BY <1>3 DEF EffectsInv
  <2>2. PICK ks : ks = [k \in DOMAIN statements |-> k]
    OBVIOUS
  <2>3. PICK f : Reads(f) /\ ReadsIn(ks) = f[Len(statements)]
    BY <2>1, <2>2, ReadsLemma
  <2>4. FoldLeft(Meaning, Segments, ks) = ReadsIn(ks)
    BY DEF FoldLeft, MapThenFoldSet, ReadsIn
  <2>5. Follows(f) /\ ip > Len(words)
    BY <2>1, <2>3 DEF EffectsOK
  <2>6. PICK n \in Nat, m \in Nat : n = Len(starts) /\ n = Len(statements) /\ m = Len(words) /\ ip \in Nat
    BY <2>1, LenProperties DEF HandlerInv, TypeOK
  <2>7. ASSUME NEW k \in 1..n, ip \in CommandsOf(k)
        PROVE  FALSE
    <3>1. k \in 1..Len(starts) /\ Laid(words, starts[k], End(k), CommandsOf(k))
      BY <2>1, <2>6 DEF HandlerInv, LayoutOK
    <3>2. ip + 2 <= End(k) /\ End(k) \in Nat
      BY <2>7, <3>1 DEF Laid
    <3>3. End(k) <= m + 1
      <4>1. CASE k = n
        BY <2>6, <4>1 DEF End
      <4>2. CASE k # n
        <5>1. k + 1 \in 1..Len(starts) /\ End(k) = starts[k + 1]
          BY <2>6, <4>2 DEF End
        <5>2. starts[k + 1] <= m
          BY <2>1, <2>6, <5>1 DEF HandlerInv, LayoutOK
        <5> QED
          BY <2>6, <3>2, <5>1, <5>2
      <4> QED
        BY <4>1, <4>2
    <3> QED
      BY <2>5, <2>6, <3>2, <3>3
  <2>8. effects = f[n].written
    <3>1. CASE \E k \in 1..(n + 1) : ip = BeginOf(k) /\ Agrees(f[k - 1])
      <4>1. PICK k \in 1..(n + 1) : ip = BeginOf(k) /\ Agrees(f[k - 1])
        BY <3>1
      <4>2. ASSUME k # n + 1
            PROVE  FALSE
        <5>1. k \in 1..n /\ ip = starts[k]
          <6>1. k \in 1..n
            BY <4>2
          <6>2. k # Len(starts) + 1
            BY <2>6, <4>2
          <6> QED
            BY <4>1, <6>1, <6>2 DEF BeginOf
        <5>2. ip \in CommandsOf(k)
          BY <5>1 DEF CommandsOf, Commands
        <5> QED
          BY <2>7, <5>1, <5>2
      <4>3. k - 1 = n
        BY <4>2
      <4> QED
        BY <4>1, <4>3 DEF Agrees
    <3>2. ASSUME NEW k \in 1..n, FarWrite(statements[k]), ip = starts[k] + 2 \/ ip = End(k) - 2
          PROVE  FALSE
      <4>1. ip \in CommandsOf(k)
        BY <3>2 DEF CommandsOf, Commands
      <4> QED
        BY <2>7, <4>1
    <3> QED
      BY <2>5, <2>6, <3>1, <3>2 DEF Follows
  <2> QED
    BY <2>2, <2>3, <2>4, <2>6, <2>8
<1> QED
  BY <1>1, <1>2, <1>3, PTL DEF Spec

=============================================================================
