---------------------------- MODULE BlockLayout ----------------------------
(***************************************************************************)
(* The two passes of encodeBlock (assembler/assembler.go) over the body of *)
(* a HOOK, CODE or PULSE block, and the branch targets of its instructions *)
(* (internal/ppc/branch.go).  The first pass measures the items and places *)
(* the labels; the second one encodes the items, and has to arrive at the  *)
(* same places; then the block is padded and framed.                       *)
(*                                                                         *)
(* A word of the block has the kind of what it is (op), its operand (arg)  *)
(* and, as a history variable, the position of the item it comes from      *)
(* (src).  Addresses are in bytes, in an address space of Space bytes.     *)
(***************************************************************************)
EXTENDS Integers, Sequences, FiniteSets, SequencesExt

CONSTANTS
    Labels,      \* label names, already folded to lower case
    End, Start,  \* %END% and %START%
    NoLabel,     \* the name of an item without one
    NoBase,      \* opts.BaseAddress is nil
    Policies,    \* the corrections and validation a run may be assembled with
    Addresses,   \* addresses of blocks and of addressed branches
    Bases,       \* values of opts.BaseAddress
    GctOffsets,  \* offsets of the block in the GCT file
    DataSizes,   \* words of a data item
    Reach,       \* bound of a displacement: 2^25 for b, 2^15 for bc
    Low,         \* 2^25: the addresses that fit the operand of a code
    Base,        \* 2^31: the handler's initial ba and po
    Space,       \* 2^32
    MaxItems     \* bound on the items of a body

Flags == {"RejectDuplicateLabels", "MissingLabels", "BranchRanges", "MEM2Hooks"}
Branches == {"b", "bc"}

ASSUME BlockAssumption ==
    /\ End \notin Labels /\ Start \notin Labels /\ NoLabel \notin Labels
    /\ End # Start /\ End # NoLabel /\ Start # NoLabel
    /\ Policies \subseteq [Flags -> BOOLEAN]
    /\ Space \in Nat \ {0} /\ Space % 8 = 0
    /\ Addresses \subseteq 0..(Space - 1)
    /\ Bases \subseteq 0..(Space - 1) /\ NoBase \notin Int
    /\ GctOffsets \subseteq Nat
    /\ \A n \in DataSizes : n \in Nat \ {0}
    /\ Reach \in [Branches -> Nat] /\ \A k \in Branches : Reach[k] % 4 = 0 /\ Reach[k] > 0
    /\ Low \in Nat \ {0} /\ Base \in Nat /\ Base % Low = 0
    /\ MaxItems \in Nat

Item == [kind : {"label", "data", "raw", "instruction"} \cup Branches,
         name : Labels \cup {End, Start, NoLabel},
         arg : Nat]
BlockKinds == {"hook", "code", "pulse"}
Undefined == -1

VARIABLES
    policy,    \* opts.Fixes and opts.Validation
    block,     \* n.block
    address,   \* n.address
    base,      \* opts.BaseAddress
    gctOffset, \* where the caller says the block will be in the file
    phase,     \* "measure", "emit", "done" or "failed"
    items,     \* n.body, known as far as the first pass has read it
    labels,    \* words before each label, or Undefined
    size,      \* words measured
    encoded,   \* items encoded by the second pass
    body,      \* words encoded by the second pass
    words      \* the result

vars == <<policy, block, address, base, gctOffset, phase, items, labels, size,
          encoded, body, words>>
inputs == <<policy, block, address, base, gctOffset>>

----------------------------------------------------------------------------

W(op, arg, src) == [op |-> op, arg |-> arg, src |-> src]
Plain(n, src) == [k \in 1..n |-> W("word", 0, src)]

\* Positions in history of what surrounds the body: the header, %START%,
\* the items 1..Len(items), %END%, and the words appended to the body.
Header == -1
AtEnd == Len(items) + 1
Padding == Len(items) + 2

\* Whether the block needs to set BA or PO, because its address is too far
\* for the operand of a code.
Far == block # "pulse" /\ address >= Base + Low
Near(a) == a % Low

Prefix ==
    CASE ~Far -> <<>>
      [] Far /\ block = "code" -> <<W("po", 0, Header), W("word", address, Header)>>
      [] Far /\ block = "hook" /\ policy["MEM2Hooks"] ->
            <<W("ba", 0, Header), W("word", address - Near(address), Header)>>
      [] Far /\ block = "hook" /\ ~policy["MEM2Hooks"] ->
            <<W("po", 0, Header), W("word", address, Header)>>

\* Mutated form: a far hook has no operand.
FirstWithoutOperand ==
    CASE block = "pulse" -> W("c0", 0, Header)
      [] block = "code" -> IF Far THEN W("16", 0, Header)
                                  ELSE W("06", Near(address), Header)
      [] block = "hook" -> W("c2", IF Far THEN 0 ELSE Near(address), Header)

\* The code type and the address the handler adds to BA or PO.
First ==
    CASE block = "pulse" -> W("c0", 0, Header)
      [] block = "code" -> IF Far THEN W("16", 0, Header)
                                  ELSE W("06", Near(address), Header)
      [] block = "hook" -> W("c2", IF Far /\ ~policy["MEM2Hooks"] THEN 0
                                   ELSE Near(address), Header)

----------------------------------------------------------------------------
(* First pass *)

Fail ==
    /\ phase' = "failed"
    /\ UNCHANGED <<inputs, items, labels, size, encoded, body, words>>

Init ==
    /\ policy \in Policies
    /\ block \in BlockKinds
    /\ address \in IF block = "pulse" THEN {0} ELSE Addresses
    /\ base \in Bases \cup {NoBase}
    /\ gctOffset \in GctOffsets
    /\ phase = "measure"
    /\ items = <<>>
    /\ labels = [l \in Labels |-> Undefined]
    /\ size = 0
    /\ encoded = 0
    /\ body = <<>>
    /\ words = <<>>

\* The first pass reads an item of n words.
Reads(kind, name, arg, n) ==
    /\ phase = "measure"
    /\ Len(items) < MaxItems
    /\ items' = Append(items, [kind |-> kind, name |-> name, arg |-> arg])
    /\ size' = size + n
    /\ UNCHANGED <<inputs, phase, encoded, body, words>>

\* Mutated form: a later definition replaces an earlier one.
MeasureLastLabel(l) ==
    /\ Reads("label", l, 0, 0)
    /\ labels' = [labels EXCEPT ![l] = size]

MeasureLabel(l) ==
    /\ Reads("label", l, 0, 0)
    /\ labels[l] # Undefined => ~policy["RejectDuplicateLabels"]
    /\ labels' = IF labels[l] = Undefined THEN [labels EXCEPT ![l] = size] ELSE labels

RejectLabel(l) ==
    /\ phase = "measure"
    /\ Len(items) < MaxItems
    /\ labels[l] # Undefined
    /\ policy["RejectDuplicateLabels"]
    /\ Fail

MeasureData(n) == Reads("data", NoLabel, n, n) /\ UNCHANGED labels

\* encodeData rejects the item.
RejectData ==
    /\ phase = "measure"
    /\ Len(items) < MaxItems
    /\ Fail

MeasureRaw == Reads("raw", NoLabel, 0, 1) /\ UNCHANGED labels
MeasureInstruction == Reads("instruction", NoLabel, 0, 1) /\ UNCHANGED labels

\* A branch to a label of the block, or to %END% or %START%.
MeasureBranch(kind, name) == Reads(kind, name, 0, 1) /\ UNCHANGED labels

\* A branch to $address.
MeasureAddressedBranch(kind, a) == Reads(kind, NoLabel, a, 1) /\ UNCHANGED labels

----------------------------------------------------------------------------
(* Second pass *)

StartEmit ==
    /\ phase = "measure"
    /\ phase' = "emit"
    /\ UNCHANGED <<inputs, items, labels, size, encoded, body, words>>

PcKnown == block = "code" \/ base # NoBase

\* Mutated form: the BA or PO command in front of the block is forgotten.
PcWithoutPrefix ==
    IF block = "code"
    THEN (address + 4 * Len(body)) % Space
    ELSE (base + gctOffset + 8 + 4 * Len(body)) % Space

\* The address the next word of the body will run at: that of a CODE block is
\* its destination, that of a HOOK or PULSE block its place in the loaded file.
Pc ==
    IF block = "code"
    THEN (address + 4 * Len(body)) % Space
    ELSE (base + gctOffset + 4 * Len(Prefix) + 8 + 4 * Len(body)) % Space

Signed(n, half) == ((n + half) % (2 * half)) - half

\* The byte distance from the branch to what it names (resolve in encodeBlock,
\* target in branch.go); an undefined label that is let pass is at distance 0.
Displacement(item) ==
    CASE item.name = End -> 4 * (size - Len(body))
      [] item.name = Start -> -4 * Len(body)
      [] item.name \in Labels ->
            IF labels[item.name] = Undefined THEN 0
            ELSE 4 * (labels[item.name] - Len(body))
      [] item.name = NoLabel -> Signed(item.arg - Pc, Space \div 2)

Unresolved(item) ==
    \/ item.name \in Labels /\ labels[item.name] = Undefined /\ policy["MissingLabels"]
    \/ item.name = NoLabel /\ ~PcKnown

OutOfRange(kind, d) ==
    /\ policy["BranchRanges"]
    /\ d % 4 # 0 \/ d < -Reach[kind] \/ d >= Reach[kind]

\* The displacement field: the low two bits of a displacement are not encoded.
Field(kind, d) == (d - (d % 4)) % (2 * Reach[kind])

Emits(ws) ==
    /\ phase = "emit"
    /\ encoded < Len(items)
    /\ body' = body \o ws
    /\ encoded' = encoded + 1
    /\ UNCHANGED <<inputs, phase, items, labels, size, words>>

Reading == items[encoded + 1]

EmitNothing == encoded < Len(items) /\ Reading.kind = "label" /\ Emits(<<>>)
EmitData == encoded < Len(items) /\ Reading.kind = "data" /\ Emits(Plain(Reading.arg, encoded + 1))
EmitWord == encoded < Len(items) /\ Reading.kind \in {"raw", "instruction"} /\ Emits(Plain(1, encoded + 1))

EmitBranch ==
    /\ encoded < Len(items)
    /\ Reading.kind \in Branches
    /\ ~Unresolved(Reading)
    /\ ~OutOfRange(Reading.kind, Displacement(Reading))
    /\ Emits(<<W(Reading.kind, Field(Reading.kind, Displacement(Reading)), encoded + 1)>>)

RejectBranch ==
    /\ phase = "emit"
    /\ encoded < Len(items)
    /\ Reading.kind \in Branches
    /\ \/ Unresolved(Reading)
       \/ ~Unresolved(Reading) /\ OutOfRange(Reading.kind, Displacement(Reading))
    /\ Fail

\* ppc.Encode rejects an instruction, or the context is cancelled.
EmitFails ==
    /\ phase = "emit"
    /\ encoded < Len(items)
    /\ Fail

----------------------------------------------------------------------------
(* Framing *)

\* Mutated form: a hook is padded like the other blocks.
PaddedToLine ==
    IF Len(body) % 2 # 0 THEN Append(body, W("zero", 0, Padding)) ELSE body

\* A hook ends in a word that the handler replaces by the branch back.
Padded ==
    CASE block = "hook" /\ Len(body) % 2 = 0 ->
            body \o <<W("nop", 0, Padding), W("zero", 0, Padding)>>
      [] block # "hook" /\ Len(body) % 2 = 0 -> body
      [] OTHER -> Append(body, W("zero", 0, Padding))

\* Mutated form: the padding of a CODE block is copied too.
CountOfPadded ==
    IF block = "code" THEN 4 * Len(Padded) ELSE Len(Padded) \div 2

\* The second word: lines of a hook or pulse, bytes of a code.
Count == IF block = "code" THEN 4 * Len(body) ELSE Len(Padded) \div 2

Reset == IF Far THEN <<W("reset", 0, Padding), W("word", 0, Padding)>> ELSE <<>>

Finish ==
    /\ phase = "emit"
    /\ encoded = Len(items)
    /\ words' = Prefix \o <<First, W("word", Count, Header)>> \o Padded \o Reset
    /\ phase' = "done"
    /\ UNCHANGED <<inputs, items, labels, size, encoded, body>>

Next ==
    \/ \E l \in Labels : MeasureLabel(l) \/ RejectLabel(l)
    \/ \E n \in DataSizes : MeasureData(n)
    \/ RejectData
    \/ MeasureRaw
    \/ MeasureInstruction
    \/ \E kind \in Branches, name \in Labels \cup {End, Start} : MeasureBranch(kind, name)
    \/ \E kind \in Branches, a \in Addresses : MeasureAddressedBranch(kind, a)
    \/ StartEmit
    \/ EmitNothing
    \/ EmitData
    \/ EmitWord
    \/ EmitBranch
    \/ RejectBranch
    \/ EmitFails
    \/ Finish

Spec == Init /\ [][Next]_vars

----------------------------------------------------------------------------
(* What a finished block means to the Gecko handler and to the processor *)

Done == phase = "done"

\* The word with the code type, which the payload follows at the next line.
HeadIndex == CHOOSE h \in DOMAIN words : words[h].op \in {"c0", "06", "16", "c2"}
PayloadAt == HeadIndex + 1

\* The words the handler takes for the payload of the code.
PayloadWords ==
    LET count == words[HeadIndex + 1].arg
    IN  IF block = "code" THEN 2 * ((count + 7) \div 8) ELSE 2 * count

\* The address word k of the block runs at.
RuntimeAddress(k) ==
    (IF block = "code" THEN address + 4 * (k - 1 - PayloadAt)
                       ELSE base + gctOffset + 4 * (k - 1)) % Space

\* The first n words of the block are those of what comes before position d of
\* the body, the other ones of what comes after it.
StandsAt(d, n) ==
    /\ n \in 0..Len(words)
    /\ \A k \in DOMAIN words : IF k <= n THEN words[k].src < d ELSE words[k].src > d

IsDefinition(d, l) == d \in DOMAIN items /\ items[d].kind = "label" /\ items[d].name = l
Defined(l) == \E d \in DOMAIN items : IsDefinition(d, l)

\* The position a name stands for: that of its first definition.
Place(name) ==
    CASE name = Start -> 0
      [] name = End -> AtEnd
      [] OTHER -> CHOOSE d \in DOMAIN items :
                      IsDefinition(d, name) /\ \A e \in 1..(d - 1) : ~IsDefinition(e, name)

BranchDistance(w) == Signed(w.arg, Reach[w.op])

\* A branch to a label of the block, to %START% or to %END% leads to the very
\* word that follows it in the source, wherever data, raw words and repeated
\* definitions are: the second pass of encodeBlock meets the places of the first.
BranchesLand ==
    Done /\ policy["BranchRanges"] =>
        \A k \in DOMAIN words :
            LET w == words[k]
            IN  w.op \in Branches =>
                    LET name == items[w.src].name
                    IN  name \in {Start, End} \/ (name \in Labels /\ Defined(name)) =>
                            /\ BranchDistance(w) % 4 = 0
                            /\ StandsAt(Place(name), k - 1 + BranchDistance(w) \div 4)

\* A branch to an address leads there from where its word will run: in the
\* target of a CODE block, or in the file loaded at the base address. The
\* program counter that encodeBlock predicts is the one the word ends up with.
AddressedBranchesLand ==
    Done /\ policy["BranchRanges"] =>
        \A k \in DOMAIN words :
            LET w == words[k]
            IN  w.op \in Branches /\ items[w.src].name = NoLabel =>
                    /\ block = "code" \/ base # NoBase
                    /\ (RuntimeAddress(k) + BranchDistance(w)) % Space = items[w.src].arg

\* The handler, reading on from the payload, meets the end of the block or the
\* reset of BA and PO, at the start of a line; and a CODE block copies its body,
\* all of it and no padding, to its address.
HandlerTakesWholeBlock ==
    Done =>
        LET after == PayloadAt + PayloadWords
        IN  /\ Len(words) % 2 = 0
            /\ HeadIndex % 2 = 1
            /\ IF HeadIndex = 1 THEN after = Len(words)
               ELSE after + 2 = Len(words) /\ words[after + 1].op = "reset"
            /\ block = "code" =>
                   \A k \in (PayloadAt + 1)..Len(words) :
                       (4 * (k - PayloadAt) <= words[PayloadAt].arg)
                           <=> (words[k].src \in DOMAIN items)

\* A hook's payload ends in the word that the handler overwrites with the branch
\* back, and whatever falls through its body or branches to %END% gets there.
HookReturns ==
    Done /\ block = "hook" =>
        LET slot == PayloadAt + PayloadWords
        IN  /\ words[slot].op = "zero"
            /\ \A k \in (PayloadAt + 1)..(slot - 1) :
                   words[k].src \notin DOMAIN items => words[k].op = "nop"

\* The address the handler writes or hooks, from BA, PO and the code's operand
\* (geckoTargets in assembler/format_validation_test.go).
EffectiveAddress ==
    LET ba == IF words[1].op = "ba" THEN words[2].arg ELSE Base
        po == IF words[1].op = "po" THEN words[2].arg ELSE Base
        head == words[HeadIndex]
    IN  (IF head.op = "16" THEN po ELSE ba - (ba % Low)) + head.arg

\* From the handler's initial BA and PO, a block takes effect at its address
\* (MEM2 hooks only with the correction), if the address is one of memory.
TargetsItsAddress ==
    Done /\ block # "pulse" /\ address >= Base /\ (block = "hook" => policy["MEM2Hooks"]) =>
        EffectiveAddress = address
=============================================================================
