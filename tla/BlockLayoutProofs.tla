------------------------- MODULE BlockLayoutProofs -------------------------
(***************************************************************************)
(* Theorems about encodeBlock, for bodies of any length, all labels,       *)
(* corrections, addresses and widths: branches lead where the source says, *)
(* and the handler takes each block as a whole, to its address.            *)
(***************************************************************************)
EXTENDS BlockLayout, Lists

----------------------------------------------------------------------------
(* The inductive invariant *)

Ops == Branches \cup {"word", "po", "ba", "c0", "06", "16", "c2", "zero", "nop", "reset"}
Word == [op : Ops, arg : Nat, src : Int]

TypeOK ==
    /\ policy \in [Flags -> BOOLEAN]
    /\ block \in BlockKinds
    /\ address \in 0..(Space - 1)
    /\ base \in 0..(Space - 1) \/ base = NoBase
    /\ gctOffset \in Nat
    /\ phase \in {"measure", "emit", "done", "failed"}
    /\ items \in Seq(Item)
    /\ labels \in [Labels -> Nat \cup {Undefined}]
    /\ size \in Nat
    /\ encoded \in 0..Len(items)
    /\ body \in Seq(Word)
    /\ words \in Seq(Word)

\* Branches to addresses are to addresses of the address space.
TargetsOK ==
    \A k \in 1..Len(items) :
        items[k].kind \in Branches /\ items[k].name = NoLabel => items[k].arg \in 0..(Space - 1)

\* The words of an item.
Cost(item) ==
    CASE item.kind = "label" -> 0
      [] item.kind = "data" -> item.arg
      [] OTHER -> 1

FirstDefinition(d, l) == IsDefinition(d, l) /\ \A e \in 1..(d - 1) : ~IsDefinition(e, l)

\* The first k items have m[k] words, and a label is where its first definition is.
Measured(m) ==
    /\ m \in [0..Len(items) -> Nat]
    /\ m[0] = 0 /\ m[Len(items)] = size
    /\ \A j, k \in 0..Len(items) : j <= k => m[j] <= m[k]
    /\ \A k \in 1..Len(items) : m[k] = m[k - 1] + Cost(items[k])
    /\ \A l \in Labels :
           IF labels[l] = Undefined THEN ~Defined(l)
           ELSE \E d \in 1..Len(items) : FirstDefinition(d, l) /\ labels[l] = m[d]

\* Pc and Displacement behind n words of the body.
PcAt(n) ==
    IF block = "code"
    THEN (address + 4 * n) % Space
    ELSE (base + gctOffset + 4 * Len(Prefix) + 8 + 4 * n) % Space

DisplacementAt(item, n) ==
    CASE item.name = End -> 4 * (size - n)
      [] item.name = Start -> -4 * n
      [] item.name \in Labels ->
            IF labels[item.name] = Undefined THEN 0 ELSE 4 * (labels[item.name] - n)
      [] item.name = NoLabel -> Signed(item.arg - PcAt(n), Space \div 2)

\* The branch w behind n words of the body is that of its item, and in range.
BranchOK(w, n) ==
    LET item == items[w.src]
        d == DisplacementAt(item, n)
    IN  /\ item.kind = w.op
        /\ ~Unresolved(item)
        /\ ~OutOfRange(w.op, d)
        /\ w.arg = Field(w.op, d)

\* Word k of the body is one of its item, and leads where a branch should.
WordOK(m, k) ==
    /\ body[k].src \in 1..encoded
    /\ m[body[k].src - 1] < k /\ k <= m[body[k].src]
    /\ body[k].op \in Branches \cup {"word"}
    /\ body[k].op \in Branches => BranchOK(body[k], k - 1)

\* The second pass is where the first one was behind the same item.
Emitted(m) ==
    /\ Len(body) = m[encoded]
    /\ \A k \in 1..Len(body) : WordOK(m, k)

LayoutOK == \E m \in [0..Len(items) -> Nat] : Measured(m) /\ Emitted(m)

\* The words of a block, with all that surrounds its body.
Framed == Prefix \o <<First, W("word", Count, Header)>> \o Padded \o Reset

PhasesOK ==
    /\ phase = "measure" => encoded = 0 /\ body = <<>>
    /\ phase = "done" =>
           /\ encoded = Len(items)
           /\ words = Framed

BlockInv == TypeOK /\ TargetsOK /\ LayoutOK /\ PhasesOK

----------------------------------------------------------------------------
(* Displacements *)

\* A displacement in the reach of a branch is read back from its field.
LEMMA FieldLemma ==
    ASSUME NEW kind \in Branches, NEW d \in Int, d % 4 = 0, -Reach[kind] <= d, d < Reach[kind]
    PROVE  Signed(Field(kind, d), Reach[kind]) = d /\ Field(kind, d) \in Nat
<1>1. PICK r : r = Reach[kind]
  OBVIOUS
<1>2. r \in Nat \ {0} /\ 2 * r \in Nat \ {0}
  BY <1>1, BlockAssumption
<1>3. Field(kind, d) = d % (2 * r)
  BY <1>1 DEF Field
<1>4. CASE d >= 0
  <2>1. d \in 0..(2 * r - 1) /\ d + r \in 0..(2 * r - 1)
    BY <1>1, <1>2, <1>4
  <2>2. d = (2 * r * 0) + d /\ d + r = (2 * r * 0) + (d + r)
    BY <1>2
  <2>3. d % (2 * r) = d /\ (d + r) % (2 * r) = d + r
    BY <1>2, <2>1, <2>2, Remainders
  <2>4. Field(kind, d) = d /\ Signed(d, r) = d
    BY <1>2, <1>3, <2>3 DEF Signed
  <2> QED
    BY <1>1, <1>4, <2>4
<1>5. CASE d < 0
  <2>1. d + 2 * r \in 0..(2 * r - 1) /\ d + r \in 0..(2 * r - 1)
    BY <1>1, <1>2, <1>5
  <2>2. d = ((2 * r) * (-1)) + (d + 2 * r)
    BY <1>2
  <2>3. d % (2 * r) = d + 2 * r
    BY <1>2, <2>1, <2>2, Remainders
  <2>4. d + 2 * r + r = ((2 * r) * 1) + (d + r)
    BY <1>2
  <2>5. (d + 2 * r + r) % (2 * r) = d + r
    BY <1>2, <2>1, <2>4, Remainders
  <2>6. Field(kind, d) = d + 2 * r /\ Signed(d + 2 * r, r) = d
    BY <1>2, <1>3, <2>3, <2>5 DEF Signed
  <2>7. d + 2 * r \in Nat
    BY <1>2, <2>1
  <2> QED
    BY <1>1, <2>6, <2>7
<1> QED
  BY <1>4, <1>5

\* The signed distance from one address to another one leads there.
LEMMA DistanceLemma ==
    ASSUME NEW a \in 0..(Space - 1), NEW p \in Int
    PROVE  /\ Signed(a - p, Space \div 2) \in Int
           /\ (p + Signed(a - p, Space \div 2)) % Space = a
<1>1. PICK h \in Nat : h = Space \div 2
  BY BlockAssumption
<1>2. Space \in Nat \ {0} /\ 2 * h = Space
  BY <1>1, BlockAssumption
<1>3. PICK q, r : q = (a - p + h) \div Space /\ r = (a - p + h) % Space
  OBVIOUS
<1>4. q \in Int /\ r \in Int /\ a - p + h = (Space * q) + r
  BY <1>2, <1>3, Division
<1>5. Signed(a - p, h) = r - h
  BY <1>2, <1>3 DEF Signed
<1>6. PICK n \in Int : n = -q
  BY <1>4
<1>7. p + (r - h) = (Space * n) + a
  BY <1>2, <1>4, <1>6
<1>8. ((Space * n) + a) % Space = a
  BY <1>2, Remainders
<1> QED
  BY <1>1, <1>4, <1>5, <1>7, <1>8

----------------------------------------------------------------------------
(* What surrounds the body *)

\* A word and a pair of words.
LEMMA PairLemma ==
    ASSUME NEW x \in Word, NEW y \in Word
    PROVE  /\ <<x>> \in Seq(Word) /\ Len(<<x>>) = 1 /\ <<x>>[1] = x
           /\ <<x, y>> \in Seq(Word) /\ Len(<<x, y>>) = 2
           /\ <<x, y>>[1] = x /\ <<x, y>>[2] = y
  OBVIOUS

\* The words of the framing are words.
LEMMA WLemma ==
    ASSUME NEW op \in Ops, NEW arg \in Nat, NEW src \in Int
    PROVE  /\ W(op, arg, src) \in Word
           /\ W(op, arg, src).op = op /\ W(op, arg, src).arg = arg /\ W(op, arg, src).src = src
  BY DEF W, Word

\* Where the block is, and how far from the start of its segment.
LEMMA AddressLemma ==
    ASSUME TypeOK
    PROVE  /\ address \in Nat /\ block \in BlockKinds
           /\ Near(address) \in Nat /\ address - Near(address) \in Nat
           /\ (address - Near(address)) % Low = 0
<1>1. address \in Nat /\ block \in BlockKinds
  BY BlockAssumption DEF TypeOK
<1>2. Low \in Nat \ {0}
  BY BlockAssumption
<1> QED
  BY <1>1, <1>2, NearLemma DEF Near

\* The command in front of a far block.
LEMMA PrefixLemma ==
    ASSUME TypeOK
    PROVE  /\ Prefix \in Seq(Word)
           /\ Len(Prefix) = IF Far THEN 2 ELSE 0
           /\ \A k \in 1..Len(Prefix) :
                  Prefix[k].src = Header /\ Prefix[k].op \in {"po", "ba", "word"}
           /\ Far =>
                  IF block = "hook" /\ policy["MEM2Hooks"]
                  THEN Prefix[1].op = "ba" /\ Prefix[2].arg = address - Near(address)
                  ELSE Prefix[1].op = "po" /\ Prefix[2].arg = address
<1>1. /\ address \in Nat /\ Near(address) \in Nat /\ address - Near(address) \in Nat
      /\ block \in BlockKinds /\ Header \in Int
  BY AddressLemma DEF Header
<1>2. CASE ~Far
  BY <1>2 DEF Prefix
<1>3. CASE Far
  <2>1. PICK op \in {"po", "ba"}, n \in Nat :
            /\ Prefix = <<W(op, 0, Header), W("word", n, Header)>>
            /\ IF block = "hook" /\ policy["MEM2Hooks"]
               THEN op = "ba" /\ n = address - Near(address) ELSE op = "po" /\ n = address
    <3>1. block = "hook" \/ block = "code"
      BY <1>1, <1>3 DEF Far, BlockKinds
    <3> QED
      BY <1>1, <1>3, <3>1 DEF Prefix
  <2>2. PICK x, y : x = W(op, 0, Header) /\ y = W("word", n, Header)
    OBVIOUS
  <2>3. /\ x \in Word /\ x.op = op /\ x.src = Header
        /\ y \in Word /\ y.op = "word" /\ y.src = Header /\ y.arg = n
    <3>1. op \in Ops /\ "word" \in Ops /\ 0 \in Nat
      BY DEF Ops
    <3> QED
      BY <1>1, <2>2, <3>1, WLemma
  <2>4. Prefix = <<x, y>>
    BY <2>1, <2>2
  <2>5. Prefix \in Seq(Word) /\ Len(Prefix) = 2 /\ Prefix[1] = x /\ Prefix[2] = y
    BY <2>3, <2>4, PairLemma
  <2> QED
    BY <1>3, <2>1, <2>3, <2>5
<1> QED
  BY <1>2, <1>3

\* The word with the code type.
LEMMA FirstLemma ==
    ASSUME TypeOK
    PROVE  /\ First \in Word /\ First.src = Header
           /\ First.op \in {"c0", "06", "16", "c2"}
           /\ block = "code" => First.op = (IF Far THEN "16" ELSE "06")
           /\ block = "hook" => First.op = "c2"
           /\ block # "pulse" =>
                  First.arg = IF Far /\ (block = "code" \/ ~policy["MEM2Hooks"]) THEN 0
                              ELSE Near(address)
<1>1. block \in BlockKinds /\ Near(address) \in Nat /\ Header \in Int /\ 0 \in Nat
  BY AddressLemma DEF Header
<1>2. PICK op \in {"c0", "06", "16", "c2"}, n \in Nat :
          /\ First = W(op, n, Header)
          /\ block = "code" => op = (IF Far THEN "16" ELSE "06")
          /\ block = "hook" => op = "c2"
          /\ block # "pulse" => n = IF Far /\ (block = "code" \/ ~policy["MEM2Hooks"]) THEN 0
                                    ELSE Near(address)
  <2>1. CASE block = "pulse"
    BY <1>1, <2>1 DEF First
  <2>2. CASE block = "code"
    BY <1>1, <2>2 DEF First
  <2>3. CASE block = "hook"
    BY <1>1, <2>3 DEF First
  <2> QED
    BY <1>1, <2>1, <2>2, <2>3 DEF BlockKinds
<1>3. op \in Ops
  BY DEF Ops
<1> QED
  BY <1>1, <1>2, <1>3, WLemma

\* A concatenation, word by word.
LEMMA Joined ==
    ASSUME NEW s \in Seq(Word), NEW t \in Seq(Word), NEW u, u = s \o t
    PROVE  /\ u \in Seq(Word)
           /\ Len(s) \in Nat /\ Len(t) \in Nat /\ Len(u) = Len(s) + Len(t)
           /\ \A k \in 1..Len(s) : u[k] = s[k]
           /\ \A k \in 1..Len(t) : u[Len(s) + k] = t[k]
<1>1. Len(s) \in Nat /\ Len(t) \in Nat
  BY LenProperties
<1>2. u \in Seq(Word) /\ Len(u) = Len(s) + Len(t)
  BY ConcatProperties
<1>3. ASSUME NEW k \in 1..Len(s)
      PROVE  u[k] = s[k]
  BY <1>1, ConcatProperties
<1>4. ASSUME NEW k \in 1..Len(t)
      PROVE  u[Len(s) + k] = t[k]
  <2>1. PICK j : j = Len(s) + k
    OBVIOUS
  <2>2. j \in 1..(Len(s) + Len(t)) /\ j > Len(s) /\ j - Len(s) = k
    BY <1>1, <2>1
  <2>3. u[j] = t[j - Len(s)]
    BY <1>1, <2>2, ConcatProperties
  <2> QED
    BY <2>1, <2>2, <2>3
<1> QED
  BY <1>1, <1>2, <1>3, <1>4

\* The body is padded to whole lines; a hook gets a word of zero at its end.
LEMMA PaddedLemma ==
    ASSUME TypeOK
    PROVE  /\ Padded \in Seq(Word)
           /\ Len(body) \in Nat /\ Len(Padded) \in Nat
           /\ Len(body) <= Len(Padded) /\ Len(Padded) % 2 = 0
           /\ block # "hook" => Len(Padded) = Len(body) + (Len(body) % 2)
           /\ \A k \in 1..Len(body) : Padded[k] = body[k]
           /\ \A k \in (Len(body) + 1)..Len(Padded) :
                  /\ Padded[k].src = Padding
                  /\ Padded[k].op = IF k = Len(Padded) THEN "zero" ELSE "nop"
           /\ block = "hook" => Len(body) < Len(Padded)
<1>1. body \in Seq(Word) /\ Len(body) \in Nat /\ Padding \in Int
  BY LenProperties DEF TypeOK, Padding
<1>2. PICK z, y : z = W("zero", 0, Padding) /\ y = W("nop", 0, Padding)
  OBVIOUS
<1>3. /\ z \in Word /\ z.op = "zero" /\ z.src = Padding
      /\ y \in Word /\ y.op = "nop" /\ y.src = Padding
  <2>1. "zero" \in Ops /\ "nop" \in Ops /\ 0 \in Nat
    BY DEF Ops
  <2> QED
    BY <1>1, <1>2, <2>1, WLemma
<1>4. CASE block = "hook" /\ Len(body) % 2 = 0
  <2>1. Padded = body \o <<y, z>>
    BY <1>2, <1>4 DEF Padded
  <2>2. /\ <<y, z>> \in Seq(Word) /\ Len(<<y, z>>) = 2
        /\ <<y, z>>[1] = y /\ <<y, z>>[2] = z
    BY <1>3, PairLemma
  <2>3. /\ Padded \in Seq(Word) /\ Len(Padded) = Len(body) + 2
        /\ \A k \in 1..Len(body) : Padded[k] = body[k]
        /\ Padded[Len(body) + 1] = y /\ Padded[Len(body) + 2] = z
    <3>1. PICK t : t = <<y, z>>
      OBVIOUS
    <3>2. t \in Seq(Word) /\ Padded = body \o t
      BY <2>1, <2>2, <3>1
    <3>3. Len(t) = 2 /\ t[1] = y /\ t[2] = z
      BY <2>2, <3>1
    <3>4. 1 \in 1..Len(t) /\ 2 \in 1..Len(t)
      BY <3>3
    <3>5. /\ Padded \in Seq(Word) /\ Len(Padded) = Len(body) + Len(t)
          /\ \A k \in 1..Len(body) : Padded[k] = body[k]
          /\ \A k \in 1..Len(t) : Padded[Len(body) + k] = t[k]
      BY <1>1, <3>2, Joined
    <3>6. Padded[Len(body) + 1] = y /\ Padded[Len(body) + 2] = z
      BY <3>3, <3>4, <3>5
    <3>7. Len(Padded) = Len(body) + 2
      BY <3>3, <3>5
    <3> QED
      BY <3>5, <3>6, <3>7
  <2>4. \A k \in (Len(body) + 1)..Len(Padded) : k = Len(body) + 1 \/ k = Len(body) + 2
    BY <1>1, <2>3
  <2>5. Len(Padded) \in Nat /\ Len(body) < Len(Padded) /\ Len(Padded) % 2 = 0
    BY <1>1, <1>4, <2>3
  <2>6. ASSUME NEW k \in (Len(body) + 1)..Len(Padded)
        PROVE  /\ Padded[k].src = Padding
               /\ Padded[k].op = IF k = Len(Padded) THEN "zero" ELSE "nop"
    <3>1. CASE k = Len(body) + 1
      <4>1. k # Len(Padded)
        BY <1>1, <2>3, <3>1
      <4> QED
        BY <1>3, <2>3, <3>1, <4>1
    <3>2. CASE k = Len(body) + 2
      BY <1>3, <2>3, <3>2
    <3> QED
      BY <2>4, <3>1, <3>2
  <2> QED
    BY <1>1, <1>4, <2>3, <2>5, <2>6
<1>5. CASE block # "hook" /\ Len(body) % 2 = 0
  <2>1. Padded = body
    BY <1>5 DEF Padded
  <2> QED
    BY <1>1, <1>5, <2>1
<1>6. CASE Len(body) % 2 # 0
  <2>1. Padded = Append(body, z)
    BY <1>2, <1>6 DEF Padded
  <2>2. /\ Padded \in Seq(Word) /\ Len(Padded) = Len(body) + 1
        /\ \A k \in 1..Len(body) : Padded[k] = body[k]
        /\ Padded[Len(body) + 1] = z
    BY <1>1, <1>3, <2>1, AppendProperties
  <2>3. \A k \in (Len(body) + 1)..Len(Padded) : k = Len(body) + 1 /\ k = Len(Padded)
    BY <1>1, <2>2
  <2>4. /\ Len(Padded) \in Nat /\ Len(body) < Len(Padded) /\ Len(Padded) % 2 = 0
        /\ Len(Padded) = Len(body) + (Len(body) % 2)
    BY <1>1, <1>6, <2>2
  <2>5. ASSUME NEW k \in (Len(body) + 1)..Len(Padded)
        PROVE  /\ Padded[k].src = Padding
               /\ Padded[k].op = IF k = Len(Padded) THEN "zero" ELSE "nop"
    BY <1>3, <2>2, <2>3
  <2> QED
    BY <1>1, <2>2, <2>4, <2>5
<1> QED
  BY <1>4, <1>5, <1>6

\* The reset of a far block.
LEMMA ResetLemma ==
    ASSUME TypeOK
    PROVE  /\ Reset \in Seq(Word)
           /\ Len(Reset) = IF Far THEN 2 ELSE 0
           /\ \A k \in 1..Len(Reset) :
                  Reset[k].src = Padding /\ Reset[k].op = IF k = 1 THEN "reset" ELSE "word"
<1>1. Padding \in Int
  BY LenProperties DEF TypeOK, Padding
<1>2. CASE ~Far
  BY <1>2 DEF Reset
<1>3. CASE Far
  <2>1. PICK x, y : x = W("reset", 0, Padding) /\ y = W("word", 0, Padding)
    OBVIOUS
  <2>2. /\ x \in Word /\ x.op = "reset" /\ x.src = Padding
        /\ y \in Word /\ y.op = "word" /\ y.src = Padding
    <3>1. "reset" \in Ops /\ "word" \in Ops /\ 0 \in Nat
      BY DEF Ops
    <3> QED
      BY <1>1, <2>1, <3>1, WLemma
  <2>3. Reset = <<x, y>>
    BY <1>3, <2>1 DEF Reset
  <2>4. Reset \in Seq(Word) /\ Len(Reset) = 2 /\ Reset[1] = x /\ Reset[2] = y
    BY <2>2, <2>3, PairLemma
  <2> QED
    BY <1>3, <2>2, <2>4
<1> QED
  BY <1>2, <1>3
\* The words of a block: what is in front of the payload, the payload and what
\* is behind it.
LEMMA FramedLemma ==
    ASSUME TypeOK
    PROVE  LET p == Len(Prefix)
               d == Len(Padded)
           IN  /\ Framed \in Seq(Word)
               /\ p = (IF Far THEN 2 ELSE 0)
               /\ Len(Framed) = p + 2 + d + p
               /\ \A k \in 1..p : Framed[k] = Prefix[k]
               /\ Framed[p + 1] = First
               /\ Framed[p + 2] = W("word", Count, Header)
               /\ \A k \in 1..d : Framed[p + 2 + k] = Padded[k]
               /\ \A k \in 1..p : Framed[p + 2 + d + k] = Reset[k]
<1>1. /\ Prefix \in Seq(Word) /\ Len(Prefix) = (IF Far THEN 2 ELSE 0)
      /\ Padded \in Seq(Word) /\ Len(Padded) \in Nat /\ Len(body) \in Nat
      /\ Reset \in Seq(Word) /\ Len(Reset) = Len(Prefix)
      /\ First \in Word
  BY PrefixLemma, PaddedLemma, ResetLemma, FirstLemma
<1>2. W("word", Count, Header) \in Word
  <2>1. Count \in Nat
    BY <1>1 DEF Count
  <2>2. "word" \in Ops /\ Header \in Int
    BY DEF Ops, Header
  <2> QED
    BY <2>1, <2>2, WLemma
<1>3. PICK a, b, c, d :
          a = Prefix /\ b = <<First, W("word", Count, Header)>> /\ c = Padded /\ d = Reset
  OBVIOUS
<1>4. Len(b) = 2 /\ b[1] = First /\ b[2] = W("word", Count, Header)
  BY <1>1, <1>2, <1>3, PairLemma
<1>5. a \in Seq(Word) /\ b \in Seq(Word) /\ c \in Seq(Word) /\ d \in Seq(Word)
  BY <1>1, <1>2, <1>3, PairLemma
<1>6. PICK ab : ab = a \o b
  OBVIOUS
<1>7. PICK abc : abc = ab \o c
  OBVIOUS
<1>8. Framed = abc \o d
  BY <1>3, <1>6, <1>7 DEF Framed
<1>9. /\ ab \in Seq(Word) /\ Len(a) \in Nat /\ Len(b) \in Nat /\ Len(ab) = Len(a) + Len(b)
      /\ \A k \in 1..Len(a) : ab[k] = a[k]
      /\ \A k \in 1..Len(b) : ab[Len(a) + k] = b[k]
  BY <1>5, <1>6, Joined
<1>10. ab \in Seq(Word)
  BY <1>9
<1>11. /\ abc \in Seq(Word) /\ Len(ab) \in Nat /\ Len(c) \in Nat /\ Len(abc) = Len(ab) + Len(c)
       /\ \A k \in 1..Len(ab) : abc[k] = ab[k]
       /\ \A k \in 1..Len(c) : abc[Len(ab) + k] = c[k]
  BY <1>5, <1>7, <1>10, Joined
<1>12. abc \in Seq(Word)
  BY <1>11
<1>13. /\ Framed \in Seq(Word) /\ Len(abc) \in Nat /\ Len(d) \in Nat
       /\ Len(Framed) = Len(abc) + Len(d)
       /\ \A k \in 1..Len(abc) : Framed[k] = abc[k]
       /\ \A k \in 1..Len(d) : Framed[Len(abc) + k] = d[k]
  BY <1>5, <1>8, <1>12, Joined
<1>14. PICK p \in Nat, n \in Nat : p = Len(a) /\ n = Len(c)
  BY <1>9, <1>11
<1>15. Len(ab) = p + 2 /\ Len(abc) = p + 2 + n /\ Len(d) = p
  BY <1>1, <1>3, <1>4, <1>9, <1>11, <1>14
<1>16. \A k \in 1..p : Framed[k] = a[k]
  <2>1. ASSUME NEW k \in 1..p
        PROVE  Framed[k] = a[k]
    <3>1. k \in 1..Len(ab) /\ k \in 1..Len(abc) /\ k \in 1..Len(a)
      BY <1>14, <1>15
    <3> QED
      BY <1>9, <1>11, <1>13, <3>1
  <2> QED
    BY <2>1
<1>17. \A k \in 1..2 : Framed[p + k] = b[k]
  <2>1. ASSUME NEW k \in 1..2
        PROVE  Framed[p + k] = b[k]
    <3>1. PICK j : j = p + k
      OBVIOUS
    <3>2. j \in 1..Len(ab) /\ j \in 1..Len(abc)
      BY <1>14, <1>15, <3>1
    <3>3. ab[j] = b[k]
      BY <1>4, <1>9, <1>14, <3>1
    <3> QED
      BY <1>11, <1>13, <3>1, <3>2, <3>3
  <2> QED
    BY <2>1
<1>18. \A k \in 1..n : Framed[p + 2 + k] = c[k]
  <2>1. ASSUME NEW k \in 1..n
        PROVE  Framed[p + 2 + k] = c[k]
    <3>1. PICK j : j = p + 2 + k
      OBVIOUS
    <3>2. j \in 1..Len(abc) /\ j = Len(ab) + k /\ k \in 1..Len(c)
      BY <1>14, <1>15, <3>1
    <3>3. \A i \in 1..Len(c) : abc[Len(ab) + i] = c[i]
      BY <1>11
    <3>4. abc[Len(ab) + k] = c[k]
      BY <3>2, <3>3
    <3>5. abc[j] = c[k]
      BY <3>2, <3>4
    <3> QED
      BY <1>13, <3>1, <3>2, <3>5
  <2> QED
    BY <2>1
<1>19. \A k \in 1..p : Framed[p + 2 + n + k] = d[k]
  BY <1>13, <1>15
<1>20. Len(Framed) = p + 2 + n + p
  BY <1>13, <1>15
<1>21. Framed[p + 1] = First /\ Framed[p + 2] = W("word", Count, Header)
  BY <1>4, <1>17
<1>22. p = Len(Prefix) /\ n = Len(Padded)
  BY <1>3, <1>14
<1>23. p = (IF Far THEN 2 ELSE 0)
  BY <1>1, <1>22
<1>24. /\ \A k \in 1..p : Framed[k] = Prefix[k]
       /\ \A k \in 1..n : Framed[p + 2 + k] = Padded[k]
       /\ \A k \in 1..p : Framed[p + 2 + n + k] = Reset[k]
  BY <1>3, <1>16, <1>18, <1>19
<1> QED
  BY <1>13, <1>20, <1>21, <1>22, <1>23, <1>24
----------------------------------------------------------------------------
(* What the second pass leaves alone *)

\* A block that goes on has the same surroundings.
LEMMA SameFrame ==
    ASSUME UNCHANGED inputs
    PROVE  Far' = Far /\ Prefix' = Prefix /\ First' = First
<1>1. policy' = policy /\ block' = block /\ address' = address
  BY DEF inputs
<1>2. Far' = Far
  BY <1>1 DEF Far
<1>3. Prefix' = Prefix
  BY <1>1, <1>2 DEF Prefix
<1>4. First' = First
  BY <1>1, <1>2 DEF First
<1> QED
  BY <1>2, <1>3, <1>4

\* The words of a block are those of its body and of what it is.
LEMMA SameFramed ==
    ASSUME UNCHANGED inputs, UNCHANGED <<items, body>>
    PROVE  Framed' = Framed
<1>1. block' = block /\ items' = items /\ body' = body
  BY DEF inputs
<1>2. Padding' = Padding
  BY <1>1 DEF Padding
<1>3. Padded' = Padded
  BY <1>1, <1>2 DEF Padded
<1>4. Count' = Count
  BY <1>1, <1>3 DEF Count
<1>5. Far' = Far /\ Prefix' = Prefix /\ First' = First
  BY SameFrame
<1>6. Reset' = Reset
  BY <1>2, <1>5 DEF Reset
<1> QED
  BY <1>3, <1>4, <1>5, <1>6, Zenon DEF Framed

\* A branch is as good as before, when the first pass is over.
LEMMA SameBranches ==
    ASSUME UNCHANGED inputs, UNCHANGED <<items, labels, size>>, NEW w, NEW n
    PROVE  BranchOK(w, n)' = BranchOK(w, n)
<1>1. /\ policy' = policy /\ block' = block /\ address' = address
      /\ base' = base /\ gctOffset' = gctOffset
      /\ items' = items /\ labels' = labels /\ size' = size
  BY DEF inputs
<1>2. Prefix' = Prefix
  BY SameFrame
<1>3. PcAt(n)' = PcAt(n)
  BY <1>1, <1>2 DEF PcAt
<1>4. PcKnown' = PcKnown
  BY <1>1 DEF PcKnown
<1>5. PICK item : item = items[w.src]
  OBVIOUS
<1>6. DisplacementAt(item, n)' = DisplacementAt(item, n)
  BY <1>1, <1>3 DEF DisplacementAt
<1>7. Unresolved(item)' = Unresolved(item)
  BY <1>1, <1>4 DEF Unresolved
<1>8. PICK d : d = DisplacementAt(item, n)
  OBVIOUS
<1>9. OutOfRange(w.op, d)' = OutOfRange(w.op, d)
  BY <1>1 DEF OutOfRange
<1>10. BranchOK(w, n) = (/\ item.kind = w.op /\ ~Unresolved(item)
                         /\ ~OutOfRange(w.op, d) /\ w.arg = Field(w.op, d))
  BY <1>5, <1>8, Zenon DEF BranchOK
<1>11. BranchOK(w, n)' = (/\ item.kind = w.op /\ ~Unresolved(item)'
                          /\ ~OutOfRange(w.op, d)' /\ w.arg = Field(w.op, d))
  <2>1. items'[w.src] = item /\ DisplacementAt(item, n)' = d
    BY <1>1, <1>5, <1>6, <1>8
  <2> QED
    BY <2>1, Zenon DEF BranchOK
<1> QED
  BY <1>7, <1>9, <1>10, <1>11, Zenon
----------------------------------------------------------------------------
(* The first pass *)

\* The items as they are after one more is read.
LEMMA Appended ==
    ASSUME items \in Seq(Item), NEW it \in Item, items' = Append(items, it)
    PROVE  /\ Len(items) \in Nat /\ Len(items') = Len(items) + 1 /\ items' \in Seq(Item)
           /\ \A d \in 1..Len(items) : items'[d] = items[d]
           /\ items'[Len(items) + 1] = it
<1> QED
  BY LenProperties, AppendProperties

\* The definitions of a label, after one more item is read.
LEMMA DefinitionsKept ==
    ASSUME items \in Seq(Item), NEW it \in Item, items' = Append(items, it), NEW l,
           NEW n, n = Len(items)
    PROVE  /\ \A d \in 1..n : FirstDefinition(d, l) => FirstDefinition(d, l)'
           /\ ~Defined(l) =>
                  IF it.kind = "label" /\ it.name = l
                  THEN FirstDefinition(n + 1, l)' ELSE ~Defined(l)'
<1>1. n \in Nat /\ n = Len(items)
  BY LenProperties
<1>2. PICK its : its = items'
  OBVIOUS
<1>3. /\ its \in Seq(Item) /\ Len(its) = n + 1 /\ its[n + 1] = it
      /\ \A d \in 1..n : its[d] = items[d]
  BY <1>1, <1>2, Appended
<1>4. DOMAIN items = 1..n /\ DOMAIN its = 1..(n + 1)
  BY <1>1, <1>3, LenProperties
<1>5. ASSUME NEW d
      PROVE  /\ IsDefinition(d, l)' <=> /\ d \in 1..(n + 1)
                                        /\ its[d].kind = "label" /\ its[d].name = l
             /\ IsDefinition(d, l) <=> /\ d \in 1..n
                                       /\ items[d].kind = "label" /\ items[d].name = l
  BY <1>2, <1>4 DEF IsDefinition
<1>6. ASSUME NEW d \in 1..n
      PROVE  IsDefinition(d, l)' <=> IsDefinition(d, l)
  BY <1>3, <1>5
<1>7. IsDefinition(n + 1, l)' <=> it.kind = "label" /\ it.name = l
  BY <1>3, <1>5
<1>8. ASSUME NEW d \in 1..n, FirstDefinition(d, l)
      PROVE  FirstDefinition(d, l)'
  <2>1. IsDefinition(d, l)'
    BY <1>6, <1>8 DEF FirstDefinition
  <2>2. ASSUME NEW e \in 1..(d - 1)
        PROVE  ~IsDefinition(e, l)'
    <3>1. e \in 1..n
      OBVIOUS
    <3> QED
      BY <1>6, <1>8, <3>1 DEF FirstDefinition
  <2> QED
    BY <2>1, <2>2 DEF FirstDefinition
<1>9. ASSUME ~Defined(l), ~(it.kind = "label" /\ it.name = l)
      PROVE  ~Defined(l)'
  <2>1. SUFFICES ASSUME NEW d \in DOMAIN items', IsDefinition(d, l)'
                 PROVE  FALSE
    BY DEF Defined
  <2>2. d \in 1..n \/ d = n + 1
    BY <1>2, <1>4
  <2>3. d # n + 1
    BY <1>7, <1>9, <2>1
  <2>4. d \in 1..n /\ IsDefinition(d, l)
    BY <1>6, <2>1, <2>2, <2>3
  <2> QED
    BY <1>4, <1>9, <2>4 DEF Defined
<1>10. ASSUME ~Defined(l), it.kind = "label", it.name = l
       PROVE  FirstDefinition(n + 1, l)'
  <2>1. IsDefinition(n + 1, l)'
    BY <1>7, <1>10
  <2>2. ASSUME NEW e \in 1..((n + 1) - 1)
        PROVE  ~IsDefinition(e, l)'
    <3>1. e \in 1..n
      OBVIOUS
    <3>2. ~IsDefinition(e, l)
      BY <1>4, <1>10, <3>1 DEF Defined
    <3> QED
      BY <1>6, <3>1, <3>2
  <2> QED
    BY <2>1, <2>2 DEF FirstDefinition
<1> QED
  BY <1>8, <1>9, <1>10
\* The measure of the items, when the item it is read.
LEMMA MeasureStep ==
    ASSUME TypeOK, NEW m, Measured(m), NEW it \in Item, items' = Append(items, it),
           size' = size + Cost(it), Cost(it) \in Nat,
           \A l \in Labels :
               labels'[l] = IF it.kind = "label" /\ it.name = l /\ labels[l] = Undefined
                            THEN size ELSE labels[l]
    PROVE  \E mm \in [0..Len(items') -> Nat] : mm[0] = 0 /\ Measured(mm)'
<1>1. items \in Seq(Item) /\ size \in Nat
  BY DEF TypeOK
<1>2. PICK n \in Nat : n = Len(items)
  BY <1>1, LenProperties
<1>3. PICK c \in Nat : c = Cost(it)
  OBVIOUS
<1>4. PICK its : its = items'
  OBVIOUS
<1>5. /\ its \in Seq(Item) /\ Len(its) = n + 1 /\ its[n + 1] = it
      /\ \A d \in 1..n : its[d] = items[d]
  BY <1>1, <1>2, <1>4, Appended
<1>6. /\ m \in [0..n -> Nat] /\ m[0] = 0 /\ m[n] = size
      /\ \A j, k \in 0..n : j <= k => m[j] <= m[k]
      /\ \A k \in 1..n : m[k] = m[k - 1] + Cost(items[k])
  BY <1>2 DEF Measured
<1>7. PICK mm : mm = [k \in 0..(n + 1) |-> IF k <= n THEN m[k] ELSE m[n] + c]
  OBVIOUS
<1>8. /\ mm \in [0..(n + 1) -> Nat]
      /\ \A k \in 0..n : mm[k] = m[k]
      /\ mm[n + 1] = m[n] + c
  BY <1>6, <1>7
<1>9. mm[0] = 0 /\ mm[n + 1] = size'
  BY <1>3, <1>6, <1>8
<1>10. ASSUME NEW j \in 0..(n + 1), NEW k \in 0..(n + 1), j <= k
       PROVE  mm[j] <= mm[k]
  <2>1. CASE k \in 0..n
    <3>1. j \in 0..n
      BY <1>10, <2>1
    <3>2. m[j] <= m[k]
      BY <1>6, <1>10, <2>1, <3>1
    <3> QED
      BY <1>8, <2>1, <3>1, <3>2
  <2>2. CASE k = n + 1 /\ j \in 0..n
    <3>1. m[j] <= m[n] /\ m[j] \in Nat /\ m[n] \in Nat
      BY <1>6, <2>2
    <3> QED
      BY <1>8, <2>2, <3>1
  <2>3. CASE k = n + 1 /\ j = n + 1
    BY <1>8, <2>3
  <2> QED
    BY <1>10, <2>1, <2>2, <2>3
<1>11. ASSUME NEW k \in 1..(n + 1)
       PROVE  mm[k] = mm[k - 1] + Cost(its[k])
  <2>1. CASE k \in 1..n
    <3>1. k \in 0..n /\ k - 1 \in 0..n
      BY <2>1
    <3>2. its[k] = items[k]
      BY <1>5, <2>1
    <3>3. m[k] = m[k - 1] + Cost(items[k])
      BY <1>6, <2>1
    <3> QED
      BY <1>8, <3>1, <3>2, <3>3
  <2>2. CASE k = n + 1
    <3>1. k - 1 = n /\ n \in 0..n
      BY <2>2
    <3> QED
      BY <1>3, <1>5, <1>8, <2>2, <3>1
  <2> QED
    BY <2>1, <2>2
<1>12. ASSUME NEW l \in Labels
       PROVE  IF labels'[l] = Undefined THEN ~Defined(l)'
              ELSE \E d \in 1..(n + 1) : FirstDefinition(d, l)' /\ labels'[l] = mm[d]
  <2>1. /\ \A d \in 1..n : FirstDefinition(d, l) => FirstDefinition(d, l)'
        /\ ~Defined(l) =>
               IF it.kind = "label" /\ it.name = l
               THEN FirstDefinition(n + 1, l)' ELSE ~Defined(l)'
    BY <1>1, <1>2, DefinitionsKept
  <2>2. IF labels[l] = Undefined THEN ~Defined(l)
        ELSE \E d \in 1..n : FirstDefinition(d, l) /\ labels[l] = m[d]
    BY <1>2 DEF Measured
  <2>3. size # Undefined
    BY <1>1 DEF Undefined
  <2>4. CASE labels[l] # Undefined
    <3>1. PICK d \in 1..n : FirstDefinition(d, l) /\ labels[l] = m[d]
      BY <2>2, <2>4
    <3>2. labels'[l] = labels[l]
      BY <2>4
    <3>3. d \in 1..(n + 1) /\ mm[d] = m[d]
      BY <1>8
    <3> QED
      BY <2>1, <2>4, <3>1, <3>2, <3>3
  <2>5. CASE labels[l] = Undefined /\ it.kind = "label" /\ it.name = l
    <3>1. labels'[l] = size
      BY <2>5
    <3>2. FirstDefinition(n + 1, l)'
      BY <2>1, <2>2, <2>5
    <3>3. c = 0
      BY <1>3, <2>5 DEF Cost
    <3>4. mm[n + 1] = size
      BY <1>1, <1>6, <1>8, <3>3
    <3> QED
      BY <2>3, <3>1, <3>2, <3>4
  <2>6. CASE labels[l] = Undefined /\ ~(it.kind = "label" /\ it.name = l)
    BY <2>1, <2>2, <2>6
  <2> QED
    BY <2>4, <2>5, <2>6
<1>13. Len(items') = n + 1 /\ items' = its
  BY <1>4, <1>5
<1>14. Measured(mm)'
  <2>1. mm \in [0..Len(items') -> Nat]
    BY <1>8, <1>13
  <2>2. mm[0] = 0 /\ mm[Len(items')] = size'
    BY <1>9, <1>13
  <2>3. \A j, k \in 0..Len(items') : j <= k => mm[j] <= mm[k]
    BY <1>10, <1>13
  <2>4. \A k \in 1..Len(items') : mm[k] = mm[k - 1] + Cost(items'[k])
    BY <1>11, <1>13
  <2>5. \A l \in Labels :
            IF labels'[l] = Undefined THEN ~Defined(l)'
            ELSE \E d \in 1..Len(items') : FirstDefinition(d, l)' /\ labels'[l] = mm[d]
    BY <1>12, <1>13, Zenon
  <2> QED
    BY <2>1, <2>2, <2>3, <2>4, <2>5, Zenon DEF Measured
<1> QED
  BY <1>8, <1>9, <1>13, <1>14
\* The first pass reads an item.
LEMMA ReadStep ==
    ASSUME BlockInv, NEW kind, NEW name, NEW arg, NEW n \in Nat, Reads(kind, name, arg, n),
           NEW it \in Item, it = [kind |-> kind, name |-> name, arg |-> arg], n = Cost(it),
           kind \in Branches /\ name = NoLabel => arg \in 0..(Space - 1),
           labels' \in [Labels -> Nat \cup {Undefined}],
           \A l \in Labels :
               labels'[l] = IF kind = "label" /\ name = l /\ labels[l] = Undefined
                            THEN size ELSE labels[l]
    PROVE  BlockInv'
<1>1. TypeOK /\ TargetsOK /\ LayoutOK /\ PhasesOK
  BY DEF BlockInv
<1>2. /\ phase = "measure" /\ phase' = "measure"
      /\ items' = Append(items, it) /\ size' = size + n
      /\ UNCHANGED inputs /\ encoded' = encoded /\ body' = body /\ words' = words
  BY DEF Reads
<1>3. items \in Seq(Item)
  BY <1>1 DEF TypeOK
<1>4. /\ Len(items) \in Nat /\ Len(items') = Len(items) + 1 /\ items' \in Seq(Item)
      /\ \A d \in 1..Len(items) : items'[d] = items[d]
      /\ items'[Len(items) + 1] = it
  BY <1>2, <1>3, Appended
<1>5. encoded = 0 /\ body = <<>>
  BY <1>1, <1>2 DEF PhasesOK
<1>6. TypeOK'
  <2>1. /\ policy' \in [Flags -> BOOLEAN] /\ block' \in BlockKinds
        /\ address' \in 0..(Space - 1) /\ (base' \in 0..(Space - 1) \/ base' = NoBase)
        /\ gctOffset' \in Nat
    BY <1>1, <1>2 DEF TypeOK, inputs
  <2>2. size' \in Nat
    BY <1>1, <1>2 DEF TypeOK
  <2>3. encoded' \in 0..Len(items')
    BY <1>2, <1>4, <1>5
  <2>4. body' \in Seq(Word) /\ words' \in Seq(Word)
    BY <1>1, <1>2 DEF TypeOK
  <2> QED
    BY <1>2, <1>4, <2>1, <2>2, <2>3, <2>4 DEF TypeOK
<1>7. TargetsOK'
  <2>1. ASSUME NEW k \in 1..Len(items'), items'[k].kind \in Branches, items'[k].name = NoLabel
        PROVE  items'[k].arg \in 0..(Space - 1)
    <3>1. CASE k \in 1..Len(items)
      BY <1>1, <1>4, <2>1, <3>1 DEF TargetsOK
    <3>2. CASE k = Len(items) + 1
      BY <1>4, <2>1, <3>2
    <3> QED
      BY <1>4, <3>1, <3>2
  <2> QED
    BY <2>1 DEF TargetsOK
<1>8. LayoutOK'
  <2>1. PICK m : Measured(m)
    BY <1>1 DEF LayoutOK
  <2>2. PICK mm \in [0..Len(items') -> Nat] : mm[0] = 0 /\ Measured(mm)'
    <3>1. \A l \in Labels :
              labels'[l] = IF it.kind = "label" /\ it.name = l /\ labels[l] = Undefined
                           THEN size ELSE labels[l]
      OBVIOUS
    <3>2. size' = size + Cost(it) /\ Cost(it) \in Nat
      BY <1>2
    <3> QED
      BY <1>1, <1>2, <2>1, <3>1, <3>2, MeasureStep
  <2>3. Len(body') = 0 /\ encoded' = 0
    BY <1>2, <1>5
  <2>4. Emitted(mm)'
    BY <2>2, <2>3 DEF Emitted
  <2> QED
    BY <2>2, <2>4 DEF LayoutOK
<1>9. PhasesOK'
  BY <1>2, <1>5 DEF PhasesOK
<1> QED
  BY <1>6, <1>7, <1>8, <1>9 DEF BlockInv
----------------------------------------------------------------------------
(* The second pass *)

\* The measure is that of the items, which stay as they are.
LEMMA SameMeasure ==
    ASSUME UNCHANGED <<items, labels, size>>, NEW m, Measured(m)
    PROVE  Measured(m)'
<1>1. items' = items /\ labels' = labels /\ size' = size
  OBVIOUS
<1>2. \A d, l : IsDefinition(d, l)' <=> IsDefinition(d, l)
  BY <1>1 DEF IsDefinition
<1>3. \A d, l : FirstDefinition(d, l)' <=> FirstDefinition(d, l)
  BY <1>2 DEF FirstDefinition
<1>4. \A l : Defined(l)' <=> Defined(l)
  BY <1>1, <1>2 DEF Defined
<1>5. /\ m \in [0..Len(items) -> Nat]
      /\ m[0] = 0 /\ m[Len(items)] = size
      /\ \A j, k \in 0..Len(items) : j <= k => m[j] <= m[k]
      /\ \A k \in 1..Len(items) : m[k] = m[k - 1] + Cost(items[k])
  BY DEF Measured
<1>6. \A l \in Labels :
          IF labels[l] = Undefined THEN ~Defined(l)
          ELSE \E d \in 1..Len(items) : FirstDefinition(d, l) /\ labels[l] = m[d]
  BY DEF Measured
<1>7. \A l \in Labels :
          IF labels'[l] = Undefined THEN ~Defined(l)'
          ELSE \E d \in 1..Len(items') : FirstDefinition(d, l)' /\ labels'[l] = m[d]
  BY <1>1, <1>3, <1>4, <1>6, Zenon
<1>8. /\ m \in [0..Len(items') -> Nat]
      /\ m[0] = 0 /\ m[Len(items')] = size'
      /\ \A j, k \in 0..Len(items') : j <= k => m[j] <= m[k]
      /\ \A k \in 1..Len(items') : m[k] = m[k - 1] + Cost(items'[k])
  BY <1>1, <1>5, Zenon
<1> QED
  BY <1>7, <1>8, Zenon DEF Measured

\* The words the second pass makes of item number src, behind n words.
EncodedAs(ws, src, n) ==
    /\ ws \in Seq(Word)
    /\ Len(ws) = Cost(items[src])
    /\ \A k \in 1..Len(ws) :
           /\ ws[k].src = src
           /\ ws[k].op \in Branches \cup {"word"}
           /\ ws[k].op \in Branches => BranchOK(ws[k], n + k - 1)

\* The second pass encodes an item.
LEMMA EmitStep ==
    ASSUME BlockInv, NEW ws, Emits(ws), EncodedAs(ws, encoded + 1, Len(body))
    PROVE  BlockInv'
<1>1. TypeOK /\ TargetsOK /\ LayoutOK /\ PhasesOK
  BY DEF BlockInv
<1>2. /\ phase = "emit" /\ phase' = "emit" /\ encoded < Len(items)
      /\ body' = body \o ws /\ encoded' = encoded + 1
      /\ UNCHANGED inputs /\ UNCHANGED <<items, labels, size>> /\ words' = words
  BY DEF Emits
<1>3. /\ body \in Seq(Word) /\ items \in Seq(Item) /\ encoded \in 0..Len(items)
      /\ Len(items) \in Nat
  BY <1>1, LenProperties DEF TypeOK
<1>4. ws \in Seq(Word)
  BY DEF EncodedAs
<1>5. /\ body' \in Seq(Word) /\ Len(body) \in Nat /\ Len(ws) \in Nat
      /\ Len(body') = Len(body) + Len(ws)
      /\ \A k \in 1..Len(body) : body'[k] = body[k]
      /\ \A k \in 1..Len(ws) : body'[Len(body) + k] = ws[k]
  <2>1. body \in Seq(Word)
    BY <1>3
  <2>2. body' = body \o ws
    BY <1>2
  <2> QED
    BY <1>4, <2>1, <2>2, Joined
<1>6. PICK n \in Nat, c \in Nat, e \in Nat : n = Len(body) /\ c = Len(ws) /\ e = encoded
  BY <1>3, <1>5
<1>7. encoded' = e + 1 /\ e + 1 \in 1..Len(items)
  BY <1>2, <1>3, <1>6
<1>8. TypeOK'
  <2>1. /\ policy' \in [Flags -> BOOLEAN] /\ block' \in BlockKinds
        /\ address' \in 0..(Space - 1) /\ (base' \in 0..(Space - 1) \/ base' = NoBase)
        /\ gctOffset' \in Nat
    BY <1>1, <1>2 DEF TypeOK, inputs
  <2>2. items' \in Seq(Item) /\ labels' \in [Labels -> Nat \cup {Undefined}] /\ size' \in Nat
    BY <1>1, <1>2 DEF TypeOK
  <2>3. encoded' \in 0..Len(items')
    BY <1>2, <1>3, <1>7
  <2>4. body' \in Seq(Word) /\ words' \in Seq(Word)
    BY <1>1, <1>2, <1>5 DEF TypeOK
  <2> QED
    BY <1>2, <2>1, <2>2, <2>3, <2>4 DEF TypeOK
<1>9. TargetsOK'
  <2>1. items' = items
    BY <1>2
  <2> QED
    BY <1>1, <2>1 DEF TargetsOK
<1>10. LayoutOK'
  <2>1. PICK m \in [0..Len(items) -> Nat] : Measured(m) /\ Emitted(m)
    BY <1>1 DEF LayoutOK
  <2>2. Measured(m)'
    BY <1>2, <2>1, SameMeasure
  <2>3. m[e + 1] = m[e] + c /\ m[e] = n /\ m[e + 1] \in Nat
    <3>1. \A k \in 1..Len(items) : m[k] = m[k - 1] + Cost(items[k])
      BY <2>1 DEF Measured
    <3>2. m[e + 1] = m[(e + 1) - 1] + Cost(items[e + 1])
      BY <1>7, <3>1
    <3>3. c = Cost(items[e + 1])
      BY <1>6 DEF EncodedAs
    <3>4. m[e] = n
      BY <1>6, <2>1 DEF Emitted
    <3>5. (e + 1) - 1 = e /\ e + 1 \in 0..Len(items)
      BY <1>7
    <3> QED
      BY <2>1, <3>2, <3>3, <3>4, <3>5
  <2>4. ASSUME NEW k \in 1..Len(body')
        PROVE  WordOK(m, k)'
    <3>1. PICK w : w = body'[k]
      OBVIOUS
    <3>2. CASE k \in 1..n
      <4>1. w = body[k]
        BY <1>5, <1>6, <3>1, <3>2
      <4>2. /\ w.src \in 1..e
            /\ m[w.src - 1] < k /\ k <= m[w.src]
            /\ w.op \in Branches \cup {"word"}
            /\ w.op \in Branches => BranchOK(w, k - 1)
        BY <1>6, <2>1, <3>2, <4>1 DEF Emitted, WordOK
      <4>3. w.src \in 1..encoded'
        BY <1>7, <4>2
      <4>4. BranchOK(w, k - 1)' = BranchOK(w, k - 1)
        BY <1>2, SameBranches
      <4>5. w.op \in Branches => BranchOK(w, k - 1)'
        BY <4>2, <4>4
      <4> QED
        BY <3>1, <4>2, <4>3, <4>5 DEF WordOK
    <3>3. CASE k \in (n + 1)..(n + c)
      <4>1. PICK j \in 1..c : k = n + j
        <5>1. k - n \in 1..c /\ k = n + (k - n)
          BY <3>3
        <5> QED
          BY <5>1
      <4>2. w = ws[j]
        BY <1>5, <1>6, <3>1, <4>1
      <4>3. /\ w.src = e + 1
            /\ w.op \in Branches \cup {"word"}
            /\ w.op \in Branches => BranchOK(w, n + j - 1)
        BY <1>6, <4>1, <4>2 DEF EncodedAs
      <4>4. w.src \in 1..encoded'
        BY <1>7, <4>3
      <4>5. w.src - 1 = e /\ m[e] < k /\ k <= m[e + 1]
        BY <2>3, <4>1, <4>3
      <4>6. BranchOK(w, k - 1)' = BranchOK(w, k - 1)
        BY <1>2, SameBranches
      <4>7. n + j - 1 = k - 1
        BY <4>1
      <4>8. w.op \in Branches => BranchOK(w, k - 1)'
        BY <4>3, <4>6, <4>7
      <4>9. m[w.src - 1] < k /\ k <= m[w.src]
        BY <4>3, <4>5
      <4> QED
        BY <3>1, <4>3, <4>4, <4>8, <4>9 DEF WordOK
    <3> QED
      BY <1>5, <1>6, <3>2, <3>3
  <2>5. Len(body') = m[encoded']
    BY <1>5, <1>6, <1>7, <2>3
  <2>6. Emitted(m)'
    BY <2>4, <2>5 DEF Emitted
  <2>7. m \in [0..Len(items') -> Nat]
    BY <1>2, <2>1
  <2> QED
    BY <2>2, <2>6, <2>7 DEF LayoutOK
<1>11. PhasesOK'
  BY <1>2 DEF PhasesOK
<1> QED
  BY <1>8, <1>9, <1>10, <1>11 DEF BlockInv
\* A signed number is a number.
LEMMA SignedLemma ==
    ASSUME NEW n \in Int, NEW half \in Nat \ {0}
    PROVE  Signed(n, half) \in Int
<1>1. 2 * half \in Nat \ {0} /\ n + half \in Int
  OBVIOUS
<1>2. (n + half) % (2 * half) \in Int
  BY <1>1, Division
<1> QED
  BY <1>2 DEF Signed

\* The program counter, where it is known.
LEMMA PcLemma ==
    ASSUME TypeOK, PcKnown, NEW n \in Nat
    PROVE  PcAt(n) \in Nat
<1>1. address \in Nat /\ gctOffset \in Nat /\ Len(Prefix) \in Nat /\ Space \in Nat \ {0}
  BY AddressLemma, PrefixLemma, BlockAssumption DEF TypeOK
<1>2. CASE block = "code"
  <2>1. address + 4 * n \in Int
    BY <1>1
  <2>2. (address + 4 * n) % Space \in Nat
    BY <1>1, <2>1, Division
  <2> QED
    BY <1>2, <2>2 DEF PcAt
<1>3. CASE block # "code"
  <2>1. base \in Nat
    <3>1. base # NoBase
      BY <1>3 DEF PcKnown
    <3>2. base \in 0..(Space - 1)
      BY <3>1 DEF TypeOK
    <3> QED
      BY <3>2, BlockAssumption
  <2>2. PICK a \in Int : a = base + gctOffset + 4 * Len(Prefix) + 8 + 4 * n
    BY <1>1, <2>1
  <2>3. a % Space \in Nat
    <3>1. Space \in Nat \ {0} /\ a \in Int
      BY <1>1, <2>2
    <3> QED
      BY <3>1, Division
  <2>4. PcAt(n) = a % Space
    BY <1>3, <2>2 DEF PcAt
  <2> QED
    BY <2>3, <2>4
<1> QED
  BY <1>2, <1>3

\* A branch that is resolved has a displacement, and a field for it.
LEMMA DisplacementLemma ==
    ASSUME TypeOK, NEW item \in Item, ~Unresolved(item), NEW n \in Nat, NEW kind \in Branches
    PROVE  /\ DisplacementAt(item, n) \in Int
           /\ Field(kind, DisplacementAt(item, n)) \in Nat
<1>1. size \in Nat /\ labels \in [Labels -> Nat \cup {Undefined}] /\ item.arg \in Nat
  BY DEF TypeOK, Item
<1>2. item.name \in Labels \cup {End, Start, NoLabel}
  BY DEF Item
<1>3. DisplacementAt(item, n) \in Int
  <2>1. CASE item.name = End
    <3>1. DisplacementAt(item, n) = 4 * (size - n)
      BY <2>1, BlockAssumption DEF DisplacementAt
    <3> QED
      BY <1>1, <3>1
  <2>2. CASE item.name = Start
    <3>1. DisplacementAt(item, n) = -4 * n
      BY <2>2, BlockAssumption DEF DisplacementAt
    <3> QED
      BY <3>1
  <2>3. CASE item.name \in Labels
    <3>1. DisplacementAt(item, n) = IF labels[item.name] = Undefined THEN 0
                                    ELSE 4 * (labels[item.name] - n)
      BY <2>3, BlockAssumption DEF DisplacementAt
    <3> QED
      BY <1>1, <2>3, <3>1
  <2>4. CASE item.name = NoLabel
    <3>1. DisplacementAt(item, n) = Signed(item.arg - PcAt(n), Space \div 2)
      BY <2>4, BlockAssumption DEF DisplacementAt
    <3>2. PcAt(n) \in Nat
      BY <2>4, PcLemma DEF Unresolved
    <3>3. Space \div 2 \in Nat \ {0} /\ item.arg - PcAt(n) \in Int
      BY <1>1, <3>2, BlockAssumption
    <3> QED
      BY <3>1, <3>3, SignedLemma
  <2> QED
    BY <1>2, <2>1, <2>2, <2>3, <2>4
<1>4. PICK d \in Int : d = DisplacementAt(item, n)
  BY <1>3
<1>5. 2 * Reach[kind] \in Nat \ {0}
  BY BlockAssumption
<1>6. PICK e \in Int : e = d - (d % 4)
  OBVIOUS
<1>7. PICK r \in Nat \ {0} : r = 2 * Reach[kind]
  BY <1>5
<1>8. Field(kind, d) \in Nat
  <2>1. e % r \in Nat
    BY <1>6, <1>7, Division
  <2> QED
    BY <1>6, <1>7, <2>1 DEF Field
<1> QED
  BY <1>3, <1>4, <1>8

\* Some plain words are plain words.
LEMMA PlainLemma ==
    ASSUME NEW n \in Nat, NEW src \in Int
    PROVE  /\ Plain(n, src) \in Seq(Word) /\ Len(Plain(n, src)) = n
           /\ \A k \in 1..n : Plain(n, src)[k].src = src /\ Plain(n, src)[k].op = "word"
<1>1. "word" \in Ops /\ 0 \in Nat
  BY DEF Ops
<1>2. PICK w : w = W("word", 0, src)
  OBVIOUS
<1>3. w \in Word /\ w.src = src /\ w.op = "word"
  BY <1>1, <1>2, WLemma
<1>4. PICK s : s = [k \in 1..n |-> w]
  OBVIOUS
<1>5. s \in Seq(Word) /\ Len(s) = n /\ \A k \in 1..n : s[k] = w
  BY <1>3, <1>4
<1>6. Plain(n, src) = s
  BY <1>2, <1>4 DEF Plain
<1> QED
  BY <1>3, <1>5, <1>6

\* What the second pass makes of an item that is not a branch.
LEMMA PlainEncoded ==
    ASSUME NEW src \in Nat, NEW n \in Nat, NEW c \in Nat, Cost(items[src]) = c
    PROVE  EncodedAs(Plain(c, src), src, n)
<1>1. PICK ws : ws = Plain(c, src)
  OBVIOUS
<1>2. /\ ws \in Seq(Word) /\ Len(ws) = c
      /\ \A k \in 1..c : ws[k].src = src /\ ws[k].op = "word"
  <2>1. src \in Int
    OBVIOUS
  <2>2. /\ Plain(c, src) \in Seq(Word) /\ Len(Plain(c, src)) = c
        /\ \A k \in 1..c : Plain(c, src)[k].src = src /\ Plain(c, src)[k].op = "word"
    BY <2>1, PlainLemma
  <2> QED
    BY <1>1, <2>2
<1>3. \A k \in 1..Len(ws) :
          /\ ws[k].src = src
          /\ ws[k].op \in Branches \cup {"word"}
          /\ ws[k].op \in Branches => BranchOK(ws[k], n + k - 1)
  <2>1. "word" \notin Branches
    BY DEF Branches
  <2> QED
    BY <1>2, <2>1
<1>4. EncodedAs(ws, src, n)
  BY <1>2, <1>3, Zenon DEF EncodedAs
<1> QED
  BY <1>1, <1>4
\* What the second pass makes of a branch.
LEMMA BranchEncoded ==
    ASSUME TypeOK, encoded < Len(items), Reading.kind \in Branches, ~Unresolved(Reading),
           ~OutOfRange(Reading.kind, Displacement(Reading))
    PROVE  EncodedAs(<<W(Reading.kind, Field(Reading.kind, Displacement(Reading)), encoded + 1)>>,
                     encoded + 1, Len(body))
<1>1. PICK item, src, n : item = Reading /\ src = encoded + 1 /\ n = Len(body)
  OBVIOUS
<1>2. /\ item = items[src] /\ item \in Item /\ src \in Nat /\ n \in Nat
      /\ item.kind \in Branches /\ ~Unresolved(item)
  <2>1. /\ items \in Seq(Item) /\ body \in Seq(Word) /\ encoded \in 0..Len(items)
        /\ Len(items) \in Nat /\ n \in Nat
    BY <1>1, LenProperties DEF TypeOK
  <2>2. src \in 1..Len(items)
    BY <1>1, <2>1
  <2>3. item = items[src]
    BY <1>1 DEF Reading
  <2>4. item \in Item
    BY <2>1, <2>2, <2>3, ElementOfSeq
  <2> QED
    BY <1>1, <2>1, <2>2, <2>3, <2>4
<1>3. Pc = PcAt(n)
  BY <1>1 DEF Pc, PcAt
<1>4. Displacement(item) = DisplacementAt(item, n)
  BY <1>1, <1>3 DEF Displacement, DisplacementAt
<1>5. PICK d : d = DisplacementAt(item, n)
  OBVIOUS
<1>6. ~OutOfRange(item.kind, d)
  BY <1>1, <1>4, <1>5
<1>7. PICK kind \in Branches : kind = item.kind
  BY <1>2
<1>8. Field(kind, d) \in Nat
  BY <1>2, <1>5, DisplacementLemma
<1>9. PICK w : w = W(kind, Field(kind, d), src)
  OBVIOUS
<1>10. w \in Word /\ w.op = kind /\ w.arg = Field(kind, d) /\ w.src = src
  <2>1. kind \in Ops /\ src \in Int
    BY <1>2 DEF Ops
  <2> QED
    BY <1>8, <1>9, <2>1, WLemma
<1>11. BranchOK(w, n)
  <2>1. items[w.src] = item
    BY <1>2, <1>10
  <2> QED
    BY <1>2, <1>5, <1>6, <1>7, <1>10, <2>1 DEF BranchOK
<1>12. PICK ws : ws = <<w>>
  OBVIOUS
<1>13. ws \in Seq(Word) /\ Len(ws) = 1 /\ ws[1] = w
  BY <1>10, <1>12
<1>14. Cost(items[src]) = 1
  BY <1>2 DEF Cost, Branches
<1>15. ASSUME NEW k \in 1..Len(ws)
       PROVE  /\ ws[k].src = src
              /\ ws[k].op \in Branches \cup {"word"}
              /\ ws[k].op \in Branches => BranchOK(ws[k], n + k - 1)
  <2>1. k = 1
    BY <1>13
  <2>2. n + k - 1 = n
    BY <1>2, <2>1
  <2> QED
    BY <1>10, <1>11, <1>13, <2>1, <2>2
<1>16. EncodedAs(ws, src, n)
  BY <1>13, <1>14, <1>15 DEF EncodedAs
<1> QED
  BY <1>1, <1>4, <1>5, <1>7, <1>9, <1>12, <1>16

\* A pass that goes on changes nothing else.
LEMMA PhaseStep ==
    ASSUME BlockInv, UNCHANGED inputs, UNCHANGED <<items, labels, size, encoded, body>>,
           \/ phase' \in {"emit", "failed"} /\ words' = words
           \/ phase' = phase /\ words' = words
           \/ phase' = "done" /\ encoded = Len(items) /\ words' = Framed
    PROVE  BlockInv'
<1>1. TypeOK /\ TargetsOK /\ LayoutOK /\ PhasesOK
  BY DEF BlockInv
<1>2. /\ items' = items /\ labels' = labels /\ size' = size
      /\ encoded' = encoded /\ body' = body
  OBVIOUS
<1>3. Framed \in Seq(Word)
  BY <1>1, FramedLemma
<1>4. TypeOK'
  <2>1. /\ policy' \in [Flags -> BOOLEAN] /\ block' \in BlockKinds
        /\ address' \in 0..(Space - 1) /\ (base' \in 0..(Space - 1) \/ base' = NoBase)
        /\ gctOffset' \in Nat
    BY <1>1, <1>2 DEF TypeOK, inputs
  <2>2. /\ items' \in Seq(Item) /\ labels' \in [Labels -> Nat \cup {Undefined}] /\ size' \in Nat
        /\ encoded' \in 0..Len(items') /\ body' \in Seq(Word)
    BY <1>1, <1>2 DEF TypeOK
  <2>3. phase' \in {"measure", "emit", "done", "failed"} /\ words' \in Seq(Word)
    BY <1>1, <1>3 DEF TypeOK
  <2> QED
    BY <2>1, <2>2, <2>3 DEF TypeOK
<1>5. TargetsOK'
  BY <1>1, <1>2 DEF TargetsOK
<1>6. LayoutOK'
  <2>1. PICK m \in [0..Len(items) -> Nat] : Measured(m) /\ Emitted(m)
    BY <1>1 DEF LayoutOK
  <2>2. Measured(m)'
    BY <2>1, SameMeasure
  <2>3. ASSUME NEW k \in 1..Len(body)
        PROVE  WordOK(m, k)'
    <3>1. PICK w : w = body[k]
      OBVIOUS
    <3>2. /\ w.src \in 1..encoded
          /\ m[w.src - 1] < k /\ k <= m[w.src]
          /\ w.op \in Branches \cup {"word"}
          /\ w.op \in Branches => BranchOK(w, k - 1)
      BY <2>1, <3>1 DEF Emitted, WordOK
    <3>3. BranchOK(w, k - 1)' = BranchOK(w, k - 1)
      BY SameBranches
    <3>4. w.op \in Branches => BranchOK(w, k - 1)'
      BY <3>2, <3>3
    <3>5. w = body'[k] /\ encoded' = encoded
      BY <1>2, <3>1
    <3> QED
      BY <3>2, <3>4, <3>5 DEF WordOK
  <2>4. Emitted(m)'
    BY <1>2, <2>1, <2>3 DEF Emitted
  <2>5. m \in [0..Len(items') -> Nat]
    BY <1>2, <2>1
  <2> QED
    BY <2>2, <2>4, <2>5 DEF LayoutOK
<1>7. PhasesOK'
  <2>1. Framed' = Framed
    BY SameFramed
  <2> QED
    BY <1>1, <1>2, <2>1 DEF PhasesOK
<1> QED
  BY <1>4, <1>5, <1>6, <1>7 DEF BlockInv
----------------------------------------------------------------------------
(* Every step *)

\* Before the first item is read.
LEMMA BlockInit == Init => BlockInv
<1> SUFFICES ASSUME Init
             PROVE  BlockInv
  OBVIOUS
<1>1. /\ phase = "measure" /\ items = <<>> /\ labels = [l \in Labels |-> Undefined]
      /\ size = 0 /\ encoded = 0 /\ body = <<>> /\ words = <<>>
  BY DEF Init
<1>2. Len(items) = 0
  BY <1>1
<1>3. TypeOK
  <2>1. policy \in [Flags -> BOOLEAN] /\ block \in BlockKinds
    BY BlockAssumption DEF Init
  <2>2. address \in 0..(Space - 1)
    <3>1. address \in Addresses \/ address = 0
      BY DEF Init
    <3>2. Space \in Nat \ {0} /\ Addresses \subseteq 0..(Space - 1)
      BY BlockAssumption
    <3>3. 0 \in 0..(Space - 1)
      BY <3>2
    <3> QED
      BY <3>1, <3>2, <3>3
  <2>3. (base \in 0..(Space - 1) \/ base = NoBase) /\ gctOffset \in Nat
    BY BlockAssumption DEF Init
  <2>4. /\ items \in Seq(Item) /\ body \in Seq(Word) /\ words \in Seq(Word)
        /\ labels \in [Labels -> Nat \cup {Undefined}]
    BY <1>1
  <2> QED
    BY <1>1, <1>2, <2>1, <2>2, <2>3, <2>4 DEF TypeOK
<1>4. TargetsOK
  BY <1>2 DEF TargetsOK
<1>5. LayoutOK
  <2>1. PICK m : m = [k \in 0..0 |-> 0]
    OBVIOUS
  <2>2. m \in [0..0 -> Nat] /\ m[0] = 0
    BY <2>1
  <2>3. \A l \in Labels : labels[l] = Undefined /\ ~Defined(l)
    BY <1>1 DEF Defined
  <2>4. Measured(m)
    BY <1>1, <1>2, <2>2, <2>3 DEF Measured
  <2>5. Len(body) = 0
    BY <1>1
  <2>6. Emitted(m)
    BY <1>1, <2>2, <2>5 DEF Emitted
  <2> QED
    BY <1>2, <2>2, <2>4, <2>6 DEF LayoutOK
<1>6. PhasesOK
  BY <1>1 DEF PhasesOK
<1> QED
  BY <1>3, <1>4, <1>5, <1>6 DEF BlockInv

\* A label is placed where the words read so far end, unless it was placed before.
LEMMA LabelStep ==
    ASSUME BlockInv, NEW l \in Labels, MeasureLabel(l)
    PROVE  BlockInv'
<1>1. Reads("label", l, 0, 0)
  BY DEF MeasureLabel
<1>2. labels \in [Labels -> Nat \cup {Undefined}] /\ size \in Nat
  BY DEF BlockInv, TypeOK
<1>3. labels' = IF labels[l] = Undefined THEN [labels EXCEPT ![l] = size] ELSE labels
  BY DEF MeasureLabel
<1>4. PICK it : it = [kind |-> "label", name |-> l, arg |-> 0]
  OBVIOUS
<1>5. it \in Item /\ Cost(it) = 0
  BY <1>4 DEF Item, Cost
<1>6. labels' \in [Labels -> Nat \cup {Undefined}]
  BY <1>2, <1>3
<1>7. \A k \in Labels : labels'[k] = IF "label" = "label" /\ l = k /\ labels[k] = Undefined
                                     THEN size ELSE labels[k]
  BY <1>2, <1>3
<1>8. "label" \notin Branches
  BY DEF Branches
<1> QED
  BY <1>1, <1>4, <1>5, <1>6, <1>7, <1>8, ReadStep

\* An item that is not a label leaves the labels alone.
LEMMA ItemStep ==
    ASSUME BlockInv, NEW kind, NEW name, NEW arg, NEW n \in Nat, Reads(kind, name, arg, n),
           UNCHANGED labels, [kind |-> kind, name |-> name, arg |-> arg] \in Item,
           kind # "label", n = IF kind = "data" THEN arg ELSE 1,
           kind \in Branches /\ name = NoLabel => arg \in 0..(Space - 1)
    PROVE  BlockInv'
<1>1. PICK it \in Item : it = [kind |-> kind, name |-> name, arg |-> arg]
  OBVIOUS
<1>2. n = Cost(it)
  BY <1>1 DEF Cost
<1>3. labels' \in [Labels -> Nat \cup {Undefined}]
  BY DEF BlockInv, TypeOK
<1>4. \A l \in Labels : labels'[l] = IF kind = "label" /\ name = l /\ labels[l] = Undefined
                                     THEN size ELSE labels[l]
  OBVIOUS
<1> QED
  BY <1>1, <1>2, <1>3, <1>4, ReadStep

\* The steps of the first pass.
LEMMA FirstPass ==
    ASSUME BlockInv,
           \/ \E n \in DataSizes : MeasureData(n)
           \/ MeasureRaw \/ MeasureInstruction
           \/ \E kind \in Branches, name \in Labels \cup {End, Start} : MeasureBranch(kind, name)
           \/ \E kind \in Branches, a \in Addresses : MeasureAddressedBranch(kind, a)
    PROVE  BlockInv'
<1>1. \A k \in Branches :
          k # "label" /\ k # "data" /\ k \in {"label", "data", "raw", "instruction"} \cup Branches
  BY DEF Branches
<1>2. ASSUME NEW n \in DataSizes, MeasureData(n)
      PROVE  BlockInv'
  <2>1. Reads("data", NoLabel, n, n) /\ UNCHANGED labels
    BY <1>2 DEF MeasureData
  <2>2. n \in Nat
    BY BlockAssumption
  <2>3. [kind |-> "data", name |-> NoLabel, arg |-> n] \in Item
    BY <2>2 DEF Item
  <2>4. "data" # "label" /\ "data" \notin Branches
    BY DEF Branches
  <2> QED
    BY <2>1, <2>2, <2>3, <2>4, ItemStep
<1>3. ASSUME NEW kind \in {"raw", "instruction"}, Reads(kind, NoLabel, 0, 1), UNCHANGED labels
      PROVE  BlockInv'
  <2>1. [kind |-> kind, name |-> NoLabel, arg |-> 0] \in Item
    BY DEF Item
  <2>2. kind # "label" /\ kind # "data" /\ kind \notin Branches
    BY DEF Branches
  <2> QED
    BY <1>3, <2>1, <2>2, ItemStep
<1>4. ASSUME NEW kind \in Branches, NEW name \in Labels \cup {End, Start},
             MeasureBranch(kind, name)
      PROVE  BlockInv'
  <2>1. Reads(kind, name, 0, 1) /\ UNCHANGED labels
    BY <1>4 DEF MeasureBranch
  <2>2. [kind |-> kind, name |-> name, arg |-> 0] \in Item
    BY <1>1 DEF Item
  <2>3. kind # "label" /\ kind # "data" /\ name # NoLabel
    BY <1>1, BlockAssumption
  <2> QED
    BY <2>1, <2>2, <2>3, ItemStep
<1>5. ASSUME NEW kind \in Branches, NEW a \in Addresses, MeasureAddressedBranch(kind, a)
      PROVE  BlockInv'
  <2>1. Reads(kind, NoLabel, a, 1) /\ UNCHANGED labels
    BY <1>5 DEF MeasureAddressedBranch
  <2>2. a \in 0..(Space - 1) /\ a \in Nat
    BY BlockAssumption
  <2>3. [kind |-> kind, name |-> NoLabel, arg |-> a] \in Item
    BY <1>1, <2>2 DEF Item
  <2>4. kind # "label" /\ kind # "data"
    BY <1>1
  <2> QED
    BY <2>1, <2>2, <2>3, <2>4, ItemStep
<1> QED
  BY <1>2, <1>3, <1>4, <1>5 DEF MeasureRaw, MeasureInstruction

\* The steps of the second pass.
LEMMA SecondPass ==
    ASSUME BlockInv, EmitNothing \/ EmitData \/ EmitWord \/ EmitBranch
    PROVE  BlockInv'
<1>1. TypeOK
  BY DEF BlockInv
<1>2. PICK item, src, n : item = Reading /\ src = encoded + 1 /\ n = Len(body)
  OBVIOUS
<1>3. encoded < Len(items)
  BY DEF EmitNothing, EmitData, EmitWord, EmitBranch
<1>4. item = items[src] /\ item \in Item /\ src \in Nat /\ n \in Nat
  <2>1. /\ items \in Seq(Item) /\ body \in Seq(Word) /\ encoded \in 0..Len(items)
        /\ Len(items) \in Nat /\ n \in Nat
    BY <1>1, <1>2, LenProperties DEF TypeOK
  <2>2. src \in 1..Len(items)
    BY <1>2, <1>3, <2>1
  <2>3. item = items[src]
    BY <1>2 DEF Reading
  <2>4. item \in Item
    BY <2>1, <2>2, <2>3, ElementOfSeq
  <2> QED
    BY <2>1, <2>2, <2>3, <2>4
<1>5. CASE EmitNothing
  <2>1. item.kind = "label" /\ Emits(<<>>)
    BY <1>2, <1>5 DEF EmitNothing
  <2>2. Cost(items[src]) = 0
    BY <1>4, <2>1 DEF Cost
  <2>3. EncodedAs(<<>>, src, n)
    BY <2>2 DEF EncodedAs
  <2> QED
    BY <1>2, <2>1, <2>3, EmitStep
<1>6. CASE EmitData
  <2>1. item.kind = "data" /\ Emits(Plain(item.arg, src))
    BY <1>2, <1>6 DEF EmitData
  <2>2. Cost(items[src]) = item.arg /\ item.arg \in Nat
    BY <1>4, <2>1 DEF Cost, Item
  <2>3. EncodedAs(Plain(item.arg, src), src, n)
    BY <1>4, <2>2, PlainEncoded
  <2> QED
    BY <1>2, <2>1, <2>3, EmitStep
<1>7. CASE EmitWord
  <2>1. item.kind \in {"raw", "instruction"} /\ Emits(Plain(1, src))
    BY <1>2, <1>7 DEF EmitWord
  <2>2. Cost(items[src]) = 1
    BY <1>4, <2>1 DEF Cost
  <2>3. EncodedAs(Plain(1, src), src, n)
    BY <1>4, <2>2, PlainEncoded
  <2> QED
    BY <1>2, <2>1, <2>3, EmitStep
<1>8. CASE EmitBranch
  <2>1. /\ Reading.kind \in Branches /\ ~Unresolved(Reading)
        /\ ~OutOfRange(Reading.kind, Displacement(Reading))
        /\ Emits(<<W(Reading.kind, Field(Reading.kind, Displacement(Reading)), encoded + 1)>>)
    BY <1>8 DEF EmitBranch
  <2>2. EncodedAs(<<W(Reading.kind, Field(Reading.kind, Displacement(Reading)), encoded + 1)>>,
                  encoded + 1, Len(body))
    BY <1>1, <1>3, <2>1, BranchEncoded
  <2> QED
    BY <2>1, <2>2, EmitStep
<1> QED
  BY <1>5, <1>6, <1>7, <1>8

\* The steps that end a pass, and those that give up.
LEMMA PhaseChange ==
    ASSUME BlockInv,
           \/ \E l \in Labels : RejectLabel(l)
           \/ RejectData \/ StartEmit \/ RejectBranch \/ EmitFails \/ Finish
           \/ UNCHANGED vars
    PROVE  BlockInv'
<1>1. CASE Fail
  <2>1. UNCHANGED inputs /\ UNCHANGED <<items, labels, size, encoded, body>>
    BY <1>1 DEF Fail
  <2>2. phase' \in {"emit", "failed"} /\ words' = words
    BY <1>1 DEF Fail
  <2> QED
    BY <2>1, <2>2, PhaseStep
<1>2. CASE StartEmit
  <2>1. UNCHANGED inputs /\ UNCHANGED <<items, labels, size, encoded, body>>
    BY <1>2 DEF StartEmit
  <2>2. phase' \in {"emit", "failed"} /\ words' = words
    BY <1>2 DEF StartEmit
  <2> QED
    BY <2>1, <2>2, PhaseStep
<1>3. CASE Finish
  <2>1. UNCHANGED inputs /\ UNCHANGED <<items, labels, size, encoded, body>>
    BY <1>3 DEF Finish
  <2>2. phase' = "done" /\ encoded = Len(items) /\ words' = Framed
    BY <1>3, Zenon DEF Finish, Framed
  <2> QED
    BY <2>1, <2>2, PhaseStep
<1>4. CASE UNCHANGED vars
  <2>1. UNCHANGED inputs /\ UNCHANGED <<items, labels, size, encoded, body>>
    BY <1>4 DEF vars, inputs
  <2>2. phase' = phase /\ words' = words
    BY <1>4 DEF vars
  <2> QED
    BY <2>1, <2>2, PhaseStep
<1> QED
  BY <1>1, <1>2, <1>3, <1>4, Zenon DEF RejectLabel, RejectData, RejectBranch, EmitFails

\* The second pass of encodeBlock is, behind every item, where the first one was;
\* the labels are where they were first defined; and each branch has the field of
\* its own displacement: the invariant the other theorems rest on.
THEOREM BlockInvariant == Spec => []BlockInv
<1>1. BlockInv /\ [Next]_vars => BlockInv'
  <2> SUFFICES ASSUME BlockInv, [Next]_vars
               PROVE  BlockInv'
    OBVIOUS
  <2>1. CASE \E l \in Labels : MeasureLabel(l)
    BY <2>1, LabelStep
  <2>2. CASE \/ \E n \in DataSizes : MeasureData(n)
             \/ MeasureRaw \/ MeasureInstruction
             \/ \E kind \in Branches, name \in Labels \cup {End, Start} : MeasureBranch(kind, name)
             \/ \E kind \in Branches, a \in Addresses : MeasureAddressedBranch(kind, a)
    BY <2>2, FirstPass
  <2>3. CASE EmitNothing \/ EmitData \/ EmitWord \/ EmitBranch
    BY <2>3, SecondPass
  <2>4. CASE \/ \E l \in Labels : RejectLabel(l)
             \/ RejectData \/ StartEmit \/ RejectBranch \/ EmitFails \/ Finish
             \/ UNCHANGED vars
    BY <2>4, PhaseChange
  <2> QED
    BY <2>1, <2>2, <2>3, <2>4, Zenon DEF Next
<1> QED
  BY <1>1, BlockInit, PTL DEF Spec
\* The variables of encodeBlock keep to their types: measures are never negative,
\* and an item is encoded at most once.
THEOREM TypeCorrect == Spec => []TypeOK
<1>1. BlockInv => TypeOK
  BY DEF BlockInv
<1> QED
  BY <1>1, BlockInvariant, PTL

----------------------------------------------------------------------------
(* A finished block *)

Heads == {"c0", "06", "16", "c2"}

\* The b words of a body and the d words they are padded to, behind the p words
\* in front of the code and its two own.
Outline(p, d, b) ==
    /\ p = (IF Far THEN 2 ELSE 0) /\ p \in Nat
    /\ d \in Nat /\ b \in Nat /\ b <= d /\ d % 2 = 0
    /\ b = Len(body) /\ d = Len(Padded)
    /\ Len(words) = p + 2 + d + p
    /\ DOMAIN words = 1..(p + 2 + d + p)

\* What the words of a block are: those in front of the payload, the body and its
\* padding, and those behind them.
Surroundings(p, d, b) ==
    /\ \A k \in 1..p :
           words[k] = Prefix[k] /\ words[k].src = Header /\ words[k].op \in {"po", "ba", "word"}
    /\ words[p + 1] = First /\ words[p + 1].src = Header /\ words[p + 1].op \in Heads
    /\ words[p + 2] = W("word", Count, Header)
    /\ words[p + 2].src = Header /\ words[p + 2].op = "word" /\ words[p + 2].arg = Count
    /\ \A k \in 1..b : words[p + 2 + k] = body[k]
    /\ \A k \in (b + 1)..d :
           /\ words[p + 2 + k].src = Padding
           /\ words[p + 2 + k].op = IF k = d THEN "zero" ELSE "nop"
    /\ \A k \in 1..p :
           /\ words[p + 2 + d + k].src = Padding
           /\ words[p + 2 + d + k].op = IF k = 1 THEN "reset" ELSE "word"

\* The parts of a finished block.
LEMMA Parts ==
    ASSUME BlockInv, Done
    PROVE  \E p, d, b \in Nat : Outline(p, d, b) /\ Surroundings(p, d, b)
<1>1. TypeOK /\ PhasesOK
  BY DEF BlockInv
<1>2. words = Framed
  BY <1>1 DEF PhasesOK, Done
<1>3. PICK p, d, b : p = Len(Prefix) /\ d = Len(Padded) /\ b = Len(body)
  OBVIOUS
<1>4. /\ Framed \in Seq(Word)
      /\ p = (IF Far THEN 2 ELSE 0)
      /\ Len(Framed) = p + 2 + d + p
      /\ \A k \in 1..p : Framed[k] = Prefix[k]
      /\ Framed[p + 1] = First
      /\ Framed[p + 2] = W("word", Count, Header)
      /\ \A k \in 1..d : Framed[p + 2 + k] = Padded[k]
      /\ \A k \in 1..p : Framed[p + 2 + d + k] = Reset[k]
  BY <1>1, <1>3, FramedLemma
<1>5. /\ b \in Nat /\ d \in Nat /\ b <= d /\ d % 2 = 0
      /\ \A k \in 1..b : Padded[k] = body[k]
      /\ \A k \in (b + 1)..d :
             Padded[k].src = Padding /\ Padded[k].op = IF k = d THEN "zero" ELSE "nop"
  BY <1>1, <1>3, PaddedLemma
<1>6. p \in Nat
  BY <1>4
<1>7. \A k \in 1..p : Prefix[k].src = Header /\ Prefix[k].op \in {"po", "ba", "word"}
  BY <1>1, <1>3, PrefixLemma
<1>8. \A k \in 1..p : Reset[k].src = Padding /\ Reset[k].op = IF k = 1 THEN "reset" ELSE "word"
  <2>1. Len(Reset) = p
    BY <1>1, <1>4, ResetLemma
  <2> QED
    BY <1>1, <2>1, ResetLemma
<1>9. First.src = Header /\ First.op \in Heads
  BY <1>1, FirstLemma DEF Heads
<1>10. PICK c : c = W("word", Count, Header)
  OBVIOUS
<1>11. c.src = Header /\ c.op = "word" /\ c.arg = Count
  BY <1>10 DEF W
<1>12. Outline(p, d, b)
  <2>1. DOMAIN words = 1..Len(words)
    BY <1>2, <1>4, LenProperties
  <2> QED
    BY <1>2, <1>3, <1>4, <1>5, <1>6, <2>1 DEF Outline
<1>13. \A k \in 1..p :
           words[k] = Prefix[k] /\ words[k].src = Header /\ words[k].op \in {"po", "ba", "word"}
  BY <1>2, <1>4, <1>7
<1>14. /\ words[p + 1] = First /\ words[p + 1].src = Header /\ words[p + 1].op \in Heads
       /\ words[p + 2] = c
  BY <1>2, <1>4, <1>9, <1>10
<1>15. \A k \in 1..b : words[p + 2 + k] = body[k]
  BY <1>2, <1>4, <1>5
<1>16. \A k \in (b + 1)..d :
           /\ words[p + 2 + k].src = Padding
           /\ words[p + 2 + k].op = IF k = d THEN "zero" ELSE "nop"
  <2>1. ASSUME NEW k \in (b + 1)..d
        PROVE  /\ words[p + 2 + k].src = Padding
               /\ words[p + 2 + k].op = IF k = d THEN "zero" ELSE "nop"
    <3>1. k \in 1..d
      BY <1>5
    <3>2. words[p + 2 + k] = Padded[k]
      BY <1>2, <1>4, <3>1
    <3> QED
      BY <1>5, <3>2
  <2> QED
    BY <2>1
<1>17. \A k \in 1..p :
           /\ words[p + 2 + d + k].src = Padding
           /\ words[p + 2 + d + k].op = IF k = 1 THEN "reset" ELSE "word"
  BY <1>2, <1>4, <1>8
<1>18. Surroundings(p, d, b)
  BY <1>10, <1>11, <1>13, <1>14, <1>15, <1>16, <1>17, Zenon DEF Surroundings
<1> QED
  BY <1>5, <1>6, <1>12, <1>18

\* Where a word of a block is.
InPart(p, d, b, k) ==
    \/ k \in 1..p \/ k = p + 1 \/ k = p + 2
    \/ \E j \in 1..b : k = p + 2 + j
    \/ \E j \in (b + 1)..d : k = p + 2 + j
    \/ \E j \in 1..p : k = p + 2 + d + j

\* Every word is somewhere.
LEMMA Regions ==
    ASSUME NEW p \in Nat, NEW d \in Nat, NEW b \in Nat, b <= d, NEW k \in 1..(p + 2 + d + p)
    PROVE  InPart(p, d, b, k)
<1>1. CASE k \in (p + 3)..(p + 2 + b)
  <2>1. k - (p + 2) \in 1..b /\ k = p + 2 + (k - (p + 2))
    BY <1>1
  <2> QED
    BY <2>1 DEF InPart
<1>2. CASE k \in (p + 2 + b + 1)..(p + 2 + d)
  <2>1. k - (p + 2) \in (b + 1)..d /\ k = p + 2 + (k - (p + 2))
    BY <1>2
  <2> QED
    BY <2>1 DEF InPart
<1>3. CASE k \in (p + 2 + d + 1)..(p + 2 + d + p)
  <2>1. k - (p + 2 + d) \in 1..p /\ k = p + 2 + d + (k - (p + 2 + d))
    BY <1>3
  <2> QED
    BY <2>1 DEF InPart
<1>4. \/ k \in 1..p \/ k = p + 1 \/ k = p + 2
      \/ k \in (p + 3)..(p + 2 + b) \/ k \in (p + 2 + b + 1)..(p + 2 + d)
      \/ k \in (p + 2 + d + 1)..(p + 2 + d + p)
  OBVIOUS
<1> QED
  BY <1>1, <1>2, <1>3, <1>4 DEF InPart

\* The words of the body come from the items.
LEMMA BodyWords ==
    ASSUME BlockInv, Done, NEW j \in 1..Len(body)
    PROVE  /\ body[j].src \in 1..Len(items)
           /\ body[j].op \in Branches \cup {"word"}
           /\ body[j].op \in Branches => BranchOK(body[j], j - 1)
<1>1. encoded = Len(items)
  BY DEF BlockInv, PhasesOK, Done
<1>2. PICK m : Emitted(m)
  BY DEF BlockInv, LayoutOK
<1> QED
  BY <1>1, <1>2 DEF Emitted, WordOK

\* The word with the code type is behind the command in front of it.
LEMMA HeadLemma ==
    ASSUME BlockInv, Done, NEW p \in Nat, NEW d \in Nat, NEW b \in Nat,
           Outline(p, d, b), Surroundings(p, d, b)
    PROVE  HeadIndex = p + 1 /\ PayloadAt = p + 2 /\ PayloadWords = d
<1>1. TypeOK
  BY DEF BlockInv
<1>2. b <= d /\ b = Len(body) /\ d = Len(Padded) /\ DOMAIN words = 1..(p + 2 + d + p) /\ d % 2 = 0
  BY DEF Outline
<1>3. ASSUME NEW h \in DOMAIN words, words[h].op \in Heads
      PROVE  h = p + 1
  <2>1. CASE h \in 1..p
    BY <1>3, <2>1 DEF Surroundings, Heads
  <2>2. CASE h = p + 2
    BY <1>3, <2>2 DEF Surroundings, Heads
  <2>3. ASSUME NEW j \in 1..b, h = p + 2 + j
        PROVE  FALSE
    <3>1. words[h] = body[j]
      BY <2>3 DEF Surroundings
    <3>2. body[j].op \in Branches \cup {"word"}
      BY <1>2, BodyWords
    <3> QED
      BY <1>3, <3>1, <3>2 DEF Heads, Branches
  <2>4. ASSUME NEW j \in (b + 1)..d, h = p + 2 + j
        PROVE  FALSE
    <3>1. words[h].op \in {"zero", "nop"}
      BY <2>4 DEF Surroundings
    <3> QED
      BY <1>3, <3>1 DEF Heads
  <2>5. ASSUME NEW j \in 1..p, h = p + 2 + d + j
        PROVE  FALSE
    <3>1. words[h].op \in {"reset", "word"}
      BY <2>5 DEF Surroundings
    <3> QED
      BY <1>3, <3>1 DEF Heads
  <2>6. h \in 1..(p + 2 + d + p) /\ b <= d
    BY <1>2
  <2>7. InPart(p, d, b, h)
    BY <2>6, Regions
  <2> QED
    BY <2>1, <2>2, <2>3, <2>4, <2>5, <2>7, Zenon DEF InPart
<1>4. p + 1 \in DOMAIN words /\ words[p + 1].op \in Heads
  BY <1>2 DEF Surroundings
<1>5. HeadIndex = p + 1
  BY <1>3, <1>4, Zenon DEF HeadIndex, Heads
<1>6. PayloadAt = p + 2
  BY <1>5 DEF PayloadAt
<1>7. words[HeadIndex + 1].arg = Count
  BY <1>5 DEF Surroundings
<1>8. PayloadWords = d
  <2>1. CASE block = "code"
    <3>1. d = b + (b % 2)
      BY <1>1, <1>2, <2>1, PaddedLemma
    <3>2. Count = 4 * b
      BY <1>2, <2>1 DEF Count
    <3>3. 2 * ((4 * b + 7) \div 8) = d
      BY <3>1
    <3> QED
      BY <1>7, <2>1, <3>2, <3>3 DEF PayloadWords
  <2>2. CASE block # "code"
    <3>1. Count = d \div 2
      BY <1>2, <2>2 DEF Count
    <3>2. 2 * (d \div 2) = d
      BY <1>2
    <3> QED
      BY <1>7, <2>2, <3>1, <3>2 DEF PayloadWords
  <2> QED
    BY <2>1, <2>2
<1> QED
  BY <1>5, <1>6, <1>8
\* A word comes from the items exactly if it is one of the body.
LEMMA Sources ==
    ASSUME BlockInv, Done, NEW p \in Nat, NEW d \in Nat, NEW b \in Nat,
           Outline(p, d, b), Surroundings(p, d, b)
    PROVE  /\ \A j \in 1..b : words[p + 2 + j].src \in DOMAIN items
           /\ \A j \in (b + 1)..d : words[p + 2 + j].src \notin DOMAIN items
           /\ \A j \in 1..p : words[p + 2 + d + j].src \notin DOMAIN items
<1>1. PICK n \in Nat : n = Len(items) /\ DOMAIN items = 1..n
  BY LenProperties DEF BlockInv, TypeOK
<1>2. b = Len(body)
  BY DEF Outline
<1>3. Padding \notin 1..n
  BY <1>1 DEF Padding
<1>4. ASSUME NEW j \in 1..b
      PROVE  words[p + 2 + j].src \in DOMAIN items
  <2>1. words[p + 2 + j] = body[j]
    BY DEF Surroundings
  <2>2. body[j].src \in 1..Len(items)
    BY <1>2, BodyWords
  <2> QED
    BY <1>1, <2>1, <2>2
<1>5. \A j \in (b + 1)..d : words[p + 2 + j].src = Padding
  BY DEF Surroundings
<1>6. \A j \in 1..p : words[p + 2 + d + j].src = Padding
  BY DEF Surroundings
<1> QED
  BY <1>1, <1>3, <1>4, <1>5, <1>6

\* The handler reads on behind a block's payload where the block ends or BA and PO
\* are reset, at the start of a line; and a CODE block copies its body and nothing
\* else: the second word that encodeBlock writes counts what it padded.
THEOREM HandlerTakesIt == Spec => []HandlerTakesWholeBlock
<1>1. ASSUME BlockInv
      PROVE  HandlerTakesWholeBlock
  <2> SUFFICES ASSUME Done
               PROVE  HandlerTakesWholeBlock
    BY DEF HandlerTakesWholeBlock
  <2>1. PICK p \in Nat, d \in Nat, b \in Nat : Outline(p, d, b) /\ Surroundings(p, d, b)
    BY <1>1, Parts
  <2>2. HeadIndex = p + 1 /\ PayloadAt = p + 2 /\ PayloadWords = d
    BY <1>1, <2>1, HeadLemma
  <2>3. /\ p = 0 \/ p = 2
        /\ b <= d /\ d % 2 = 0 /\ b = Len(body)
        /\ Len(words) = p + 2 + d + p
    BY <2>1 DEF Outline
  <2>4. Len(words) % 2 = 0 /\ HeadIndex % 2 = 1
    BY <2>2, <2>3
  <2>5. IF HeadIndex = 1 THEN PayloadAt + PayloadWords = Len(words)
        ELSE /\ PayloadAt + PayloadWords + 2 = Len(words)
             /\ words[PayloadAt + PayloadWords + 1].op = "reset"
    <3>1. CASE p = 0
      BY <2>2, <2>3, <3>1
    <3>2. CASE p = 2
      <4>1. words[p + 2 + d + 1].op = "reset"
        BY <2>1, <3>2 DEF Surroundings
      <4>2. PayloadAt + PayloadWords = p + 2 + d
        BY <2>2
      <4>3. PayloadAt + PayloadWords + 2 = Len(words) /\ HeadIndex # 1
        BY <2>2, <2>3, <3>2
      <4> QED
        BY <4>1, <4>2, <4>3
    <3> QED
      BY <2>3, <3>1, <3>2
  <2>6. ASSUME block = "code", NEW k \in (PayloadAt + 1)..Len(words)
        PROVE  (4 * (k - PayloadAt) <= words[PayloadAt].arg) <=> (words[k].src \in DOMAIN items)
    <3>1. words[PayloadAt].arg = 4 * b
      <4>1. words[p + 2].arg = Count
        BY <2>1 DEF Surroundings
      <4> QED
        BY <2>2, <2>3, <2>6, <4>1 DEF Count
    <3>2. /\ \A j \in 1..b : words[p + 2 + j].src \in DOMAIN items
          /\ \A j \in (b + 1)..d : words[p + 2 + j].src \notin DOMAIN items
          /\ \A j \in 1..p : words[p + 2 + d + j].src \notin DOMAIN items
      BY <1>1, <2>1, Sources
    <3>3. PICK j \in 1..(d + p) : k = p + 2 + j
      <4>1. k - (p + 2) \in 1..(d + p) /\ k = p + 2 + (k - (p + 2))
        BY <2>2, <2>3
      <4> QED
        BY <4>1
    <3>4. 4 * (k - PayloadAt) <= words[PayloadAt].arg <=> j <= b
      BY <2>2, <3>1, <3>3
    <3>5. CASE j \in 1..b
      <4>1. words[p + 2 + j].src \in DOMAIN items
        BY <3>2, <3>5
      <4> QED
        BY <3>3, <3>4, <3>5, <4>1
    <3>6. CASE j \in (b + 1)..d
      <4>1. words[p + 2 + j].src \notin DOMAIN items
        BY <3>2, <3>6
      <4> QED
        BY <3>3, <3>4, <3>6, <4>1
    <3>7. CASE j \in (d + 1)..(d + p)
      <4>1. PICK i \in 1..p : k = p + 2 + d + i
        <5>1. j - d \in 1..p /\ k = p + 2 + d + (j - d)
          BY <3>3, <3>7
        <5> QED
          BY <5>1
      <4>2. words[k].src \notin DOMAIN items
        BY <3>2, <4>1
      <4>3. ~(j <= b)
        BY <2>3, <3>7
      <4> QED
        BY <3>4, <4>2, <4>3
    <3> QED
      BY <3>5, <3>6, <3>7
  <2> QED
    BY <2>4, <2>5, <2>6 DEF HandlerTakesWholeBlock
<1> QED
  BY <1>1, BlockInvariant, PTL

\* A hook's payload ends in the word the handler overwrites with the branch back:
\* nothing of the body is lost to it, and only a nop is between the body and it.
THEOREM HooksReturn == Spec => []HookReturns
<1>1. ASSUME BlockInv
      PROVE  HookReturns
  <2> SUFFICES ASSUME Done, block = "hook", NEW slot, slot = PayloadAt + PayloadWords
               PROVE  /\ words[slot].op = "zero"
                      /\ \A k \in (PayloadAt + 1)..(slot - 1) :
                             words[k].src \notin DOMAIN items => words[k].op = "nop"
    BY DEF HookReturns
  <2>1. PICK p \in Nat, d \in Nat, b \in Nat : Outline(p, d, b) /\ Surroundings(p, d, b)
    BY <1>1, Parts
  <2>2. HeadIndex = p + 1 /\ PayloadAt = p + 2 /\ PayloadWords = d
    BY <1>1, <2>1, HeadLemma
  <2>3. b < d
    BY <1>1, <2>1, PaddedLemma DEF BlockInv, Outline
  <2>4. words[p + 2 + d].op = "zero"
    <3>1. d \in (b + 1)..d
      BY <2>3
    <3> QED
      BY <2>1, <3>1 DEF Surroundings
  <2>5. ASSUME NEW k \in (PayloadAt + 1)..(slot - 1),
               words[k].src \notin DOMAIN items
        PROVE  words[k].op = "nop"
    <3>1. PICK j \in 1..(d - 1) : k = p + 2 + j
      <4>1. k - (p + 2) \in 1..(d - 1) /\ k = p + 2 + (k - (p + 2))
        BY <2>2
      <4> QED
        BY <4>1
    <3>2. \A i \in 1..b : words[p + 2 + i].src \in DOMAIN items
      BY <1>1, <2>1, Sources
    <3>3. j \notin 1..b
      BY <2>5, <3>1, <3>2
    <3>4. j \in (b + 1)..d /\ j # d
      BY <3>1, <3>3
    <3> QED
      BY <2>1, <3>1, <3>4 DEF Surroundings
  <2>6. words[slot].op = "zero"
    BY <2>2, <2>4
  <2> QED
    BY <2>5, <2>6
<1> QED
  BY <1>1, BlockInvariant, PTL

\* From the handler's initial BA and PO, a block takes effect at its address: the
\* command that encodeBlock puts in front of a far one and the operand of its code
\* add up to it.
THEOREM TargetsAreHit == Spec => []TargetsItsAddress
<1>1. ASSUME BlockInv
      PROVE  TargetsItsAddress
  <2> SUFFICES ASSUME Done, block # "pulse", address >= Base, block = "hook" => policy["MEM2Hooks"]
               PROVE  EffectiveAddress = address
    BY DEF TargetsItsAddress
  <2>1. PICK p \in Nat, d \in Nat, b \in Nat : Outline(p, d, b) /\ Surroundings(p, d, b)
    BY <1>1, Parts
  <2>2. HeadIndex = p + 1 /\ words[p + 1] = First /\ p = (IF Far THEN 2 ELSE 0)
    <3>1. HeadIndex = p + 1
      BY <1>1, <2>1, HeadLemma
    <3> QED
      BY <2>1, <3>1 DEF Outline, Surroundings
  <2>3. /\ TypeOK /\ address \in Nat /\ block \in {"code", "hook"}
        /\ Near(address) \in Nat /\ address - Near(address) \in Nat
        /\ (address - Near(address)) % Low = 0
    BY <1>1, AddressLemma DEF BlockInv, BlockKinds
  <2>4. /\ block = "code" => First.op = (IF Far THEN "16" ELSE "06")
        /\ block = "hook" => First.op = "c2"
        /\ First.arg = IF Far /\ (block = "code" \/ ~policy["MEM2Hooks"]) THEN 0 ELSE Near(address)
    BY <2>3, FirstLemma
  <2>5. CASE ~Far
    <3>1. p = 0 /\ words[1] = First /\ words[HeadIndex] = First
      BY <2>2, <2>5
    <3>2. First.op \notin {"ba", "po", "16"} /\ First.arg = Near(address)
      BY <2>3, <2>4, <2>5
    <3>3. EffectiveAddress = Base - (Base % Low) + Near(address)
      BY <3>1, <3>2 DEF EffectiveAddress
    <3>4. Low \in Nat \ {0} /\ Base \in Nat /\ Base % Low = 0
      BY BlockAssumption
    <3>5. address < Base + Low
      BY <2>3, <2>5, <3>4 DEF Far
    <3>6. PICK x \in 0..(Low - 1) : address = Base + x
      <4>1. address - Base \in 0..(Low - 1) /\ address = Base + (address - Base)
        BY <2>3, <3>4, <3>5
      <4> QED
        BY <4>1
    <3>7. PICK q \in Int : Base = (Low * q) + 0
      <4>1. Base \div Low \in Int /\ Base = (Low * (Base \div Low)) + (Base % Low)
        BY <3>4, Division
      <4> QED
        BY <3>4, <4>1
    <3>8. address = (Low * q) + x
      BY <3>4, <3>6, <3>7
    <3>9. address % Low = x
      BY <3>4, <3>8, Remainders
    <3> QED
      BY <3>3, <3>4, <3>6, <3>9 DEF Near
  <2>6. CASE Far
    <3>1. /\ p = 2 /\ words[1] = Prefix[1] /\ words[2] = Prefix[2]
          /\ words[HeadIndex] = First
      BY <2>1, <2>2, <2>6 DEF Surroundings
    <3>2. CASE block = "code"
      <4>1. words[1].op = "po" /\ words[2].arg = address
        BY <2>3, <2>6, <3>1, <3>2, PrefixLemma
      <4>2. First.op = "16" /\ First.arg = 0
        BY <2>4, <2>6, <3>2
      <4>3. EffectiveAddress = address + 0
        BY <3>1, <4>1, <4>2 DEF EffectiveAddress
      <4> QED
        BY <2>3, <4>3
    <3>3. CASE block = "hook"
      <4>1. words[1].op = "ba" /\ words[2].arg = address - Near(address)
        BY <2>3, <2>6, <3>1, <3>3, PrefixLemma
      <4>2. First.op = "c2" /\ First.arg = Near(address)
        BY <2>4, <3>3
      <4>3. PICK ba \in Nat : ba = address - Near(address)
        BY <2>3
      <4>4. EffectiveAddress = ba - (ba % Low) + First.arg
        BY <3>1, <4>1, <4>2, <4>3 DEF EffectiveAddress
      <4>5. ba % Low = 0
        BY <2>3, <4>3
      <4> QED
        BY <2>3, <4>2, <4>3, <4>4, <4>5
    <3> QED
      BY <2>3, <3>2, <3>3
  <2> QED
    BY <2>5, <2>6
<1> QED
  BY <1>1, BlockInvariant, PTL
----------------------------------------------------------------------------
(* Where the branches of a finished block lead *)

\* Only words of the body are branches.
LEMMA BranchWordsOfBody ==
    ASSUME BlockInv, Done, NEW p \in Nat, NEW d \in Nat, NEW b \in Nat,
           Outline(p, d, b), Surroundings(p, d, b),
           NEW k \in DOMAIN words, words[k].op \in Branches
    PROVE  \E j \in 1..b : k = p + 2 + j /\ words[k] = body[j]
<1>1. b <= d /\ DOMAIN words = 1..(p + 2 + d + p)
  BY DEF Outline
<1>2. words[k].op \notin Heads \cup {"po", "ba", "word", "zero", "nop", "reset"}
  BY DEF Heads, Branches
<1>3. k \notin 1..p /\ k # p + 1 /\ k # p + 2
  BY <1>2 DEF Surroundings
<1>4. ~ \E j \in (b + 1)..d : k = p + 2 + j
  <2>1. \A j \in (b + 1)..d : words[p + 2 + j].op \in {"zero", "nop"}
    BY DEF Surroundings
  <2> QED
    BY <1>2, <2>1
<1>5. ~ \E j \in 1..p : k = p + 2 + d + j
  <2>1. \A j \in 1..p : words[p + 2 + d + j].op \in {"reset", "word"}
    BY DEF Surroundings
  <2> QED
    BY <1>2, <2>1
<1>6. InPart(p, d, b, k)
  <2>1. k \in 1..(p + 2 + d + p) /\ b <= d
    BY <1>1
  <2> QED
    BY <2>1, Regions
<1>7. PICK j \in 1..b : k = p + 2 + j
  BY <1>3, <1>4, <1>5, <1>6, Zenon DEF InPart
<1>8. \A i \in 1..b : words[p + 2 + i] = body[i]
  BY DEF Surroundings
<1> QED
  BY <1>7, <1>8

\* A branch of a finished block is that of its item, and the distance the
\* processor reads is the one encodeBlock meant.
LEMMA BranchLemma ==
    ASSUME BlockInv, Done, policy["BranchRanges"], NEW j \in 1..Len(body),
           body[j].op \in Branches
    PROVE  LET w == body[j]
               item == items[w.src]
           IN  /\ item \in Item /\ item.kind = w.op /\ w.src \in 1..Len(items)
               /\ ~Unresolved(item)
               /\ DisplacementAt(item, j - 1) \in Int
               /\ DisplacementAt(item, j - 1) % 4 = 0
               /\ BranchDistance(w) = DisplacementAt(item, j - 1)
<1>1. PICK w, item, d : w = body[j] /\ item = items[w.src] /\ d = DisplacementAt(item, j - 1)
  OBVIOUS
<1>2. TypeOK /\ items \in Seq(Item)
  BY DEF BlockInv, TypeOK
<1>3. w.src \in 1..Len(items) /\ w.op \in Branches /\ BranchOK(w, j - 1)
  BY <1>1, BodyWords
<1>4. item \in Item
  BY <1>1, <1>2, <1>3, ElementOfSeq
<1>5. item.kind = w.op /\ ~Unresolved(item) /\ ~OutOfRange(w.op, d) /\ w.arg = Field(w.op, d)
  BY <1>1, <1>3, Zenon DEF BranchOK
<1>6. d \in Int
  <2>1. j - 1 \in Nat
    OBVIOUS
  <2> QED
    BY <1>1, <1>2, <1>3, <1>4, <1>5, <2>1, DisplacementLemma
<1>7. d % 4 = 0 /\ -Reach[w.op] <= d /\ d < Reach[w.op]
  <2>1. PICK r \in Nat : r = Reach[w.op]
    BY <1>3, BlockAssumption
  <2>2. d % 4 = 0 /\ ~(d < -Reach[w.op]) /\ ~(d >= Reach[w.op])
    BY <1>5 DEF OutOfRange
  <2> QED
    BY <1>6, <2>1, <2>2
<1>8. Signed(w.arg, Reach[w.op]) = d
  <2>1. PICK kind \in Branches : kind = w.op
    BY <1>3
  <2>2. Signed(Field(kind, d), Reach[kind]) = d
    BY <1>6, <1>7, <2>1, FieldLemma
  <2> QED
    BY <1>5, <2>1, <2>2
<1>9. BranchDistance(w) = d
  BY <1>8 DEF BranchDistance
<1> QED
  BY <1>1, <1>3, <1>4, <1>5, <1>6, <1>7, <1>9, Zenon

\* A place behind t words of the body, where everything comes from an item in
\* front of position q or from one behind it.
LEMMA Stands ==
    ASSUME BlockInv, Done, NEW p \in Nat, NEW d \in Nat, NEW b \in Nat,
           Outline(p, d, b), Surroundings(p, d, b),
           NEW t \in 0..b, NEW q \in 0..AtEnd,
           \A i \in 1..b : IF i <= t THEN body[i].src < q ELSE body[i].src > q
    PROVE  StandsAt(q, p + 2 + t)
<1>1. PICK n \in Nat : n = Len(items)
  BY LenProperties DEF BlockInv, TypeOK
<1>2. b <= d /\ DOMAIN words = 1..(p + 2 + d + p) /\ Len(words) = p + 2 + d + p
  BY DEF Outline
<1>3. q \in 0..(n + 1) /\ Padding = n + 2 /\ Header = -1
  BY <1>1 DEF AtEnd, Padding, Header
<1>4. p + 2 + t \in 0..Len(words)
  BY <1>2
<1>5. ASSUME NEW k \in 1..(p + 2 + d + p)
      PROVE  IF k <= p + 2 + t THEN words[k].src < q ELSE words[k].src > q
  <2>1. CASE k \in 1..p \/ k = p + 1 \/ k = p + 2
    <3>1. words[k].src = Header
      BY <2>1 DEF Surroundings
    <3>2. k <= p + 2 + t
      BY <2>1
    <3> QED
      BY <1>3, <3>1, <3>2
  <2>2. ASSUME NEW j \in 1..b, k = p + 2 + j
        PROVE  IF k <= p + 2 + t THEN words[k].src < q ELSE words[k].src > q
    <3>1. words[k] = body[j]
      BY <2>2 DEF Surroundings
    <3>2. IF j <= t THEN body[j].src < q ELSE body[j].src > q
      OBVIOUS
    <3>3. k <= p + 2 + t <=> j <= t
      BY <2>2
    <3> QED
      BY <3>1, <3>2, <3>3
  <2>3. ASSUME NEW j \in (b + 1)..d, k = p + 2 + j
        PROVE  IF k <= p + 2 + t THEN words[k].src < q ELSE words[k].src > q
    <3>1. words[k].src = Padding
      BY <2>3 DEF Surroundings
    <3>2. ~(k <= p + 2 + t)
      BY <2>3
    <3>3. n + 2 > q
      BY <1>3
    <3> QED
      BY <1>3, <3>1, <3>2, <3>3
  <2>4. ASSUME NEW j \in 1..p, k = p + 2 + d + j
        PROVE  IF k <= p + 2 + t THEN words[k].src < q ELSE words[k].src > q
    <3>1. words[k].src = Padding
      BY <2>4 DEF Surroundings
    <3>2. ~(k <= p + 2 + t)
      BY <1>2, <2>4
    <3>3. n + 2 > q
      BY <1>3
    <3> QED
      BY <1>3, <3>1, <3>2, <3>3
  <2>5. InPart(p, d, b, k)
    BY <1>2, Regions
  <2> QED
    BY <2>1, <2>2, <2>3, <2>4, <2>5, Zenon DEF InPart
<1> QED
  BY <1>2, <1>4, <1>5 DEF StandsAt

\* A label is behind as many words of the body as its first definition.
LEMMA LabelPlace ==
    ASSUME BlockInv, Done, NEW l \in Labels, Defined(l)
    PROVE  /\ labels[l] \in 0..Len(body) /\ labels[l] # Undefined
           /\ Place(l) \in 1..Len(items)
           /\ \A i \in 1..Len(body) :
                  IF i <= labels[l] THEN body[i].src < Place(l) ELSE body[i].src > Place(l)
<1>1. PICK n \in Nat, b \in Nat : n = Len(items) /\ b = Len(body)
  BY LenProperties DEF BlockInv, TypeOK
<1>2. encoded = n
  BY <1>1 DEF BlockInv, PhasesOK, Done
<1>3. PICK m \in [0..n -> Nat] : Measured(m) /\ Emitted(m)
  BY <1>1 DEF BlockInv, LayoutOK
<1>4. /\ \A j, k \in 0..n : j <= k => m[j] <= m[k]
      /\ \A k \in 1..n : m[k] = m[k - 1] + Cost(items[k])
  BY <1>1, <1>3 DEF Measured
<1>5. m[n] = b /\ \A i \in 1..b : WordOK(m, i)
  BY <1>1, <1>2, <1>3 DEF Emitted
<1>6. labels[l] # Undefined /\ \E d \in 1..n : FirstDefinition(d, l) /\ labels[l] = m[d]
  BY <1>1, <1>3 DEF Measured
<1>7. PICK d \in 1..n : FirstDefinition(d, l) /\ labels[l] = m[d]
  BY <1>6
<1>8. Place(l) = d
  <2>1. l # Start /\ l # End
    BY BlockAssumption
  <2>2. /\ d \in DOMAIN items /\ IsDefinition(d, l)
        /\ \A e \in 1..(d - 1) : ~IsDefinition(e, l)
    BY <1>7 DEF FirstDefinition, IsDefinition
  <2>3. ASSUME NEW c \in DOMAIN items, IsDefinition(c, l),
               \A e \in 1..(c - 1) : ~IsDefinition(e, l)
        PROVE  c = d
    <3>1. DOMAIN items = 1..n
      BY <1>1, LenProperties DEF BlockInv, TypeOK
    <3>2. c \notin 1..(d - 1) /\ d \notin 1..(c - 1)
      BY <2>2, <2>3
    <3> QED
      BY <3>1, <3>2
  <2>4. d = CHOOSE c \in DOMAIN items :
                IsDefinition(c, l) /\ \A e \in 1..(c - 1) : ~IsDefinition(e, l)
    BY <2>2, <2>3, Zenon
  <2> QED
    BY <2>1, <2>4 DEF Place
<1>9. m[d] = m[d - 1] /\ m[d] \in Nat /\ m[d] <= b /\ d \in 0..n /\ d - 1 \in 0..n
  <2>1. items[d].kind = "label"
    BY <1>7 DEF FirstDefinition, IsDefinition
  <2>2. Cost(items[d]) = 0
    BY <2>1 DEF Cost
  <2>3. d \in 0..n /\ d - 1 \in 0..n /\ n \in 0..n /\ d <= n
    OBVIOUS
  <2>4. m[d] = m[d - 1] + Cost(items[d])
    BY <1>4
  <2>5. m[d] \in Nat /\ m[d - 1] \in Nat /\ m[d] <= m[n]
    BY <1>4, <2>3
  <2> QED
    BY <1>5, <2>2, <2>3, <2>4, <2>5
<1>10. ASSUME NEW i \in 1..b
       PROVE  IF i <= m[d] THEN body[i].src < d ELSE body[i].src > d
  <2>1. PICK e : e = body[i].src
    OBVIOUS
  <2>2. e \in 1..n /\ m[e - 1] < i /\ i <= m[e]
    BY <1>2, <1>5, <2>1 DEF WordOK
  <2>3. e \in 0..n /\ e - 1 \in 0..n /\ m[e] \in Nat /\ m[e - 1] \in Nat
    BY <2>2
  <2>4. ASSUME i <= m[d]
        PROVE  e < d
    <3>1. SUFFICES ASSUME d <= e
                   PROVE  FALSE
      BY <2>2
    <3>2. CASE e = d
      BY <1>9, <2>2, <2>4, <3>2
    <3>3. CASE d <= e - 1
      <4>1. m[d] <= m[e - 1]
        BY <1>4, <1>9, <2>3, <3>3
      <4> QED
        BY <1>9, <2>2, <2>3, <2>4, <4>1
    <3> QED
      BY <2>2, <3>1, <3>2, <3>3
  <2>5. ASSUME ~(i <= m[d])
        PROVE  e > d
    <3>1. SUFFICES ASSUME e <= d
                   PROVE  FALSE
      BY <2>2
    <3>2. m[e] <= m[d]
      BY <1>4, <1>9, <2>3, <3>1
    <3> QED
      BY <1>9, <2>2, <2>3, <2>5, <3>2
  <2> QED
    BY <2>1, <2>4, <2>5
<1>11. labels[l] \in 0..b
  BY <1>7, <1>9
<1> QED
  BY <1>1, <1>6, <1>7, <1>8, <1>10, <1>11
\* A branch to %START%, %END% or a defined label leads to the word that follows the
\* place in the source, for bodies of any length and labels defined any number of
\* times: the second pass of encodeBlock meets the places of the first.
THEOREM BranchesLeadHome == Spec => []BranchesLand
<1>1. ASSUME BlockInv
      PROVE  BranchesLand
  <2> SUFFICES ASSUME Done, policy["BranchRanges"],
                      NEW k \in DOMAIN words, words[k].op \in Branches,
                      NEW name, name = items[words[k].src].name,
                      name \in {Start, End} \/ (name \in Labels /\ Defined(name))
               PROVE  /\ BranchDistance(words[k]) % 4 = 0
                      /\ StandsAt(Place(name), k - 1 + BranchDistance(words[k]) \div 4)
    BY Zenon DEF BranchesLand
  <2>1. PICK p \in Nat, d \in Nat, b \in Nat : Outline(p, d, b) /\ Surroundings(p, d, b)
    BY <1>1, Parts
  <2>2. b = Len(body)
    BY <2>1 DEF Outline
  <2>3. PICK j \in 1..b : k = p + 2 + j /\ words[k] = body[j]
    BY <1>1, <2>1, BranchWordsOfBody
  <2>4. PICK w, item : w = body[j] /\ item = items[w.src]
    OBVIOUS
  <2>5. item.name = name
    BY <2>3, <2>4
  <2>6. BranchDistance(w) % 4 = 0 /\ BranchDistance(w) = DisplacementAt(item, j - 1)
    <3>1. body[j].op \in Branches
      BY <2>3
    <3> QED
      BY <1>1, <2>2, <2>4, <3>1, BranchLemma
  <2>7. ASSUME NEW t \in 0..b, DisplacementAt(item, j - 1) = 4 * (t - (j - 1)),
               NEW q \in 0..AtEnd, Place(name) = q,
               \A i \in 1..b : IF i <= t THEN body[i].src < q ELSE body[i].src > q
        PROVE  StandsAt(Place(name), k - 1 + BranchDistance(words[k]) \div 4)
    <3>1. StandsAt(q, p + 2 + t)
      BY <1>1, <2>1, <2>7, Stands
    <3>2. BranchDistance(words[k]) = 4 * (t - (j - 1))
      BY <2>3, <2>4, <2>6, <2>7
    <3>3. (4 * (t - (j - 1))) \div 4 = t - (j - 1)
      OBVIOUS
    <3>4. k - 1 + (t - (j - 1)) = p + 2 + t
      BY <2>3
    <3>5. k - 1 + BranchDistance(words[k]) \div 4 = p + 2 + t
      BY <3>2, <3>3, <3>4
    <3> QED
      BY <2>7, <3>1, <3>5
  <2>8. PICK n \in Nat : n = Len(items)
    BY <1>1, LenProperties DEF BlockInv, TypeOK
  <2>9. AtEnd = n + 1 /\ \A i \in 1..b : body[i].src \in 1..n
    BY <1>1, <2>2, <2>8, BodyWords DEF AtEnd
  <2>10. CASE name = Start
    <3>1. Place(name) = 0
      BY <2>10, BlockAssumption DEF Place
    <3>2. DisplacementAt(item, j - 1) = 4 * (0 - (j - 1))
      <4>1. DisplacementAt(item, j - 1) = -4 * (j - 1)
        BY <2>5, <2>10, BlockAssumption DEF DisplacementAt
      <4> QED
        BY <4>1
    <3>3. \A i \in 1..b : IF i <= 0 THEN body[i].src < 0 ELSE body[i].src > 0
      BY <2>9
    <3>4. 0 \in 0..b /\ 0 \in 0..AtEnd
      BY <2>9
    <3> QED
      BY <2>3, <2>4, <2>6, <2>7, <3>1, <3>2, <3>3, <3>4
  <2>11. CASE name = End
    <3>1. Place(name) = AtEnd
      BY <2>11, BlockAssumption DEF Place
    <3>2. size = b
      <4>1. PICK m : Measured(m) /\ Emitted(m)
        BY <1>1 DEF BlockInv, LayoutOK
      <4>2. encoded = n
        BY <1>1, <2>8 DEF BlockInv, PhasesOK, Done
      <4> QED
        BY <2>2, <2>8, <4>1, <4>2 DEF Measured, Emitted
    <3>3. DisplacementAt(item, j - 1) = 4 * (b - (j - 1))
      BY <2>5, <2>11, <3>2, BlockAssumption DEF DisplacementAt
    <3>4. \A i \in 1..b : IF i <= b THEN body[i].src < AtEnd ELSE body[i].src > AtEnd
      BY <2>9
    <3>5. b \in 0..b /\ AtEnd \in 0..AtEnd
      BY <2>9
    <3> QED
      BY <2>3, <2>4, <2>6, <2>7, <3>1, <3>3, <3>4, <3>5
  <2>12. CASE name \in Labels /\ Defined(name)
    <3>1. /\ labels[name] \in 0..b /\ labels[name] # Undefined
          /\ Place(name) \in 1..n
          /\ \A i \in 1..b :
                 IF i <= labels[name] THEN body[i].src < Place(name)
                 ELSE body[i].src > Place(name)
      BY <1>1, <2>2, <2>8, <2>12, LabelPlace
    <3>2. DisplacementAt(item, j - 1) = 4 * (labels[name] - (j - 1))
      <4>1. name # End /\ name # Start /\ name # NoLabel
        BY <2>12, BlockAssumption
      <4> QED
        BY <2>5, <2>12, <3>1, <4>1 DEF DisplacementAt
    <3>3. PICK t \in 0..b, q \in 1..n : t = labels[name] /\ q = Place(name)
      BY <3>1
    <3>4. q \in 0..AtEnd
      BY <2>9
    <3> QED
      BY <2>3, <2>4, <2>6, <2>7, <3>1, <3>2, <3>3, <3>4
  <2>13. BranchDistance(words[k]) % 4 = 0
    BY <2>3, <2>4, <2>6
  <2> QED
    BY <2>10, <2>11, <2>12, <2>13
<1> QED
  BY <1>1, BlockInvariant, PTL

\* A branch to an address leads there from where its word runs, in a CODE block's
\* target or in the loaded file, modulo the address space: the program counter that
\* encodeBlock predicts, command in front of the block included, is the true one.
THEOREM AddressesAreReached == Spec => []AddressedBranchesLand
<1>1. ASSUME BlockInv
      PROVE  AddressedBranchesLand
  <2> SUFFICES ASSUME Done, policy["BranchRanges"],
                      NEW k \in DOMAIN words, words[k].op \in Branches,
                      items[words[k].src].name = NoLabel
               PROVE  /\ block = "code" \/ base # NoBase
                      /\ (RuntimeAddress(k) + BranchDistance(words[k])) % Space
                             = items[words[k].src].arg
    BY Zenon DEF AddressedBranchesLand
  <2>1. PICK p \in Nat, d \in Nat, b \in Nat : Outline(p, d, b) /\ Surroundings(p, d, b)
    BY <1>1, Parts
  <2>2. b = Len(body)
    BY <2>1 DEF Outline
  <2>3. PICK j \in 1..b : k = p + 2 + j /\ words[k] = body[j]
    BY <1>1, <2>1, BranchWordsOfBody
  <2>4. PICK w, item : w = body[j] /\ item = items[w.src]
    OBVIOUS
  <2>5. /\ item.kind = w.op /\ w.src \in 1..Len(items) /\ ~Unresolved(item)
        /\ BranchDistance(w) = DisplacementAt(item, j - 1)
    <3>1. body[j].op \in Branches
      BY <2>3
    <3> QED
      BY <1>1, <2>2, <2>4, <3>1, BranchLemma
  <2>6. item.name = NoLabel /\ item.kind \in Branches
    BY <2>3, <2>4, <2>5
  <2>7. PcKnown
    BY <2>5, <2>6 DEF Unresolved
  <2>8. PcAt(j - 1) \in Nat
    <3>1. j - 1 \in Nat
      OBVIOUS
    <3> QED
      BY <1>1, <2>7, <3>1, PcLemma DEF BlockInv
  <2>9. item.arg \in 0..(Space - 1)
    BY <1>1, <2>4, <2>5, <2>6 DEF BlockInv, TargetsOK
  <2>10. BranchDistance(w) = Signed(item.arg - PcAt(j - 1), Space \div 2)
    <3>1. DisplacementAt(item, j - 1) = Signed(item.arg - PcAt(j - 1), Space \div 2)
      BY <2>6, BlockAssumption DEF DisplacementAt
    <3> QED
      BY <2>5, <3>1
  <2>11. (PcAt(j - 1) + BranchDistance(w)) % Space = item.arg
    <3>1. PICK a \in 0..(Space - 1), c \in Int : a = item.arg /\ c = PcAt(j - 1)
      BY <2>8, <2>9
    <3>2. (c + Signed(a - c, Space \div 2)) % Space = a
      BY DistanceLemma
    <3> QED
      BY <2>10, <3>1, <3>2
  <2>12. RuntimeAddress(k) = PcAt(j - 1)
    <3>1. PayloadAt = p + 2 /\ Len(Prefix) = p
      BY <1>1, <2>1, HeadLemma, PrefixLemma DEF BlockInv, Outline
    <3>2. CASE block = "code"
      <4>1. k - 1 - PayloadAt = j - 1
        BY <2>3, <3>1
      <4> QED
        BY <3>2, <4>1 DEF RuntimeAddress, PcAt
    <3>3. CASE block # "code"
      <4>1. base \in Nat /\ gctOffset \in Nat
        <5>1. base # NoBase
          BY <2>7, <3>3 DEF PcKnown
        <5>2. base \in 0..(Space - 1) /\ gctOffset \in Nat
          BY <1>1, <5>1 DEF BlockInv, TypeOK
        <5> QED
          BY <5>2, BlockAssumption
      <4>2. base + gctOffset + 4 * (k - 1) = base + gctOffset + 4 * Len(Prefix) + 8 + 4 * (j - 1)
        BY <2>3, <3>1, <4>1
      <4> QED
        BY <3>3, <4>2 DEF RuntimeAddress, PcAt
    <3> QED
      BY <3>2, <3>3
  <2>13. block = "code" \/ base # NoBase
    BY <2>7 DEF PcKnown
  <2> QED
    BY <2>3, <2>4, <2>11, <2>12, <2>13
<1> QED
  BY <1>1, BlockInvariant, PTL
=============================================================================
