---------------------------- MODULE GeckoHandler ----------------------------
(***************************************************************************)
(* Addressed writes (encodeWrite, assembler/assembler.go), HOOK blocks     *)
(* (encodeBlock), the directives that set BA and PO and end conditions     *)
(* (directives.go, legacy.go) and raw lines with conditions, followed by   *)
(* the code handler that runs the codes.  The handler is that of the       *)
(* repository's own reader of Gecko codes, geckoTargets in                 *)
(* assembler/format_validation_test.go, with the execution status that     *)
(* conditions have.  Addresses live in a space of Space bytes with memory  *)
(* from Base on (0x80000000); an operand holds Low (2^25) of them, and     *)
(* from Base + Low on an address is far.                                   *)
(***************************************************************************)
EXTENDS Integers, Sequences, FiniteSets, SequencesExt

CONSTANTS
    Space,         \* 2^32
    Base,          \* 2^31
    Low,           \* 2^25
    Addresses,     \* of writes
    Registers,     \* values that .BA and .PO set
    Arrays,        \* sizes of arrays
    Scripts        \* bounds: the kinds of the statements, in their order, with
                   \* the corrections that are on

Flags == {"AddressAlignment", "MEM2Writes", "MEM2Hooks", "DirectiveBit31"}
Kinds == {"op", "scalar", "array", "hook", "ba", "po", "reset", "other", "if", "endif", "endif reset"}

ASSUME HandlerAssumption ==
    /\ Low \in Nat \ {0} /\ Base \in Nat \ {0} /\ Space = 2 * Base
    /\ Base % Low = 0 /\ Low % 4 = 0
    /\ Addresses \subseteq 0..(Space - 1) /\ Registers \subseteq 0..(Space - 1)
    /\ Arrays \subseteq Nat
    /\ \A script \in Scripts : script.policy \subseteq Flags /\ \A k \in DOMAIN script.kinds : script.kinds[k] \subseteq Kinds

\* A write, of an instruction, a scalar or an array; a HOOK, of one line; a
\* register that is set; a condition, which holds at address 1; what ends one
\* or all; and any other command of two words.
Write == [kind : {"op"}, address : Addresses, size : {4}]
         \cup [kind : {"scalar"}, address : Addresses, size : {1, 2, 4, 8}]
         \cup [kind : {"array"}, address : Addresses, size : Arrays]
Setting == [kind : {"ba", "po"}, address : Registers, size : {0}]
Hook == [kind : {"hook"}, address : Addresses, size : {4}]
Condition == [kind : {"if"}, address : {0, 1}, size : {0}]
Other == [kind : {"reset", "endif", "endif reset", "other"}, address : {0}, size : {0}]
Statement == Write \cup Hook \cup Setting \cup Condition \cup Other

VARIABLES
    policy, script,
    phase,       \* "encode", "run", "done" or "failed"
    statements,  \* history: the statements
    words,       \* of the section
    starts,      \* history: where each statement begins in words
    ip,          \* the handler's place in words
    ba, po,      \* its registers
    status,      \* the conditions it is in: whether each one holds, with those around it
    effects      \* history: the bytes written

vars == <<policy, script, phase, statements, words, starts, ip, ba, po, status, effects>>
handler == <<ip, ba, po, status, effects>>
program == <<policy, script, statements, words, starts>>

----------------------------------------------------------------------------
(* encodeWrite *)

\* A word is the head of a command with its operand, a value, or four bytes:
\* Zero, or which byte of which statement.
Zero == [src |-> 0, at |-> 0]
HeadWord(op, operand) == [op |-> op, n |-> operand, bytes |-> <<>>]
Number(n) == [op |-> "number", n |-> n, bytes |-> <<>>]
Bytes(bs) == [op |-> "bytes", n |-> 0, bytes |-> bs]

Zeros(n) == [k \in 1..n |-> Zero]
Data(st) == [k \in 1..st.size |-> [src |-> Len(statements) + 1, at |-> k]]
InWords(bs) == [k \in 1..(Len(bs) \div 4) |-> Bytes(SubSeq(bs, 4 * k - 3, 4 * k))]

\* Mutated form: what is left for the first line is added to full lines, too.
PaddingPlusLine(size) == 8 - (size % 8)
\* The bytes up to the end of a line.
Padding(size) == (8 - (size % 8)) % 8

IsFar(st) == st.address >= Base + Low
IsString(st) == st.kind = "array" \/ st.size \notin {1, 2, 4}
Segment(address) == address - (address % Low)

\* A far write sets PO for a string and BA for other data.
Prefix(st) ==
    IF ~IsFar(st) THEN <<>>
    ELSE IF IsString(st) THEN <<HeadWord("po", 0), Number(st.address)>>
    ELSE <<HeadWord("ba", 0),
           Number(IF "MEM2Writes" \in policy THEN Segment(st.address) ELSE st.address)>>

Operand(st) ==
    IF IsFar(st) /\ (IsString(st) \/ "MEM2Writes" \notin policy) THEN 0
    ELSE st.address % Low

\* A scalar is padded in front, so that the repetitions in its upper half are
\* none; a string has its size and is padded to lines.
Payload(st) ==
    IF IsString(st)
    THEN <<Number(st.size)>> \o InWords(Data(st) \o Zeros(Padding(st.size)))
    ELSE InWords(Zeros(4 - st.size) \o Data(st))

Code(st) ==
    IF IsString(st) THEN (IF IsFar(st) THEN "16" ELSE "06")
    ELSE CASE st.size = 1 -> "00" [] st.size = 2 -> "02" [] st.size = 4 -> "04"

ResetWords == <<HeadWord("reset", 0), Number(0)>>

\* Mutated form: BA and PO stay as they are after a far write.
WriteWordsWithoutReset(st) ==
    Prefix(st) \o <<HeadWord(Code(st), Operand(st))>> \o Payload(st)

WriteWords(st) ==
    Prefix(st) \o <<HeadWord(Code(st), Operand(st))>> \o Payload(st)
    \o (IF IsFar(st) THEN ResetWords ELSE <<>>)

\* A far HOOK sets BA; without the correction, PO, which it does not use.
HookWords(st) ==
    LET far == IsFar(st)
        corrected == "MEM2Hooks" \in policy
    IN  (IF ~far THEN <<>>
         ELSE IF corrected THEN <<HeadWord("ba", 0), Number(Segment(st.address))>>
         ELSE <<HeadWord("po", 0), Number(st.address)>>)
        \o <<HeadWord("c2", IF far /\ ~corrected THEN 0 ELSE st.address % Low), Number(1)>>
        \o InWords(Data(st) \o Zeros(4))
        \o (IF far THEN ResetWords ELSE <<>>)

\* .BA = value and .PO = value; the correction keeps the value's upper bit.
SettingWords(st) ==
    <<HeadWord(st.kind, 0),
      Number(IF "DirectiveBit31" \in policy THEN st.address ELSE st.address % Base)>>

Encoding(st) ==
    CASE st \in Write -> WriteWords(st)
      [] st \in Setting -> SettingWords(st)
      [] st \in Hook -> HookWords(st)
      [] st.kind = "reset" -> ResetWords
      [] st.kind = "endif" -> <<HeadWord("endif", 1), Number(0)>>
      [] st.kind = "endif reset" -> <<HeadWord("endif", 1), Number(Base)>>
      [] st.kind = "if" -> <<HeadWord("if", st.address), Number(0)>>
      [] st.kind = "other" -> <<HeadWord("other", 0), Number(0)>>

----------------------------------------------------------------------------

Init ==
    /\ \E sc \in Scripts : policy = sc.policy /\ script = sc.kinds
    /\ phase = "encode"
    /\ statements = <<>>
    /\ words = <<>>
    /\ starts = <<>>
    /\ ip = 1
    /\ ba = Base
    /\ po = Base
    /\ status = <<>>
    /\ effects = {}

Misaligned(st) == st.kind \in {"op", "hook"} /\ "AddressAlignment" \in policy /\ st.address % 4 # 0

Encode(st) ==
    /\ phase = "encode"
    /\ script # <<>> /\ st.kind \in Head(script)
    /\ ~Misaligned(st)
    /\ statements' = Append(statements, st)
    /\ starts' = Append(starts, Len(words) + 1)
    /\ words' = words \o Encoding(st)
    /\ script' = Tail(script)
    /\ UNCHANGED <<policy, phase, handler>>

Reject(st) ==
    /\ phase = "encode"
    /\ script # <<>> /\ st.kind \in Head(script)
    /\ Misaligned(st)
    /\ phase' = "failed"
    /\ UNCHANGED <<program, handler>>

Load ==
    /\ phase = "encode"
    /\ statements # <<>>
    /\ phase' = "run"
    /\ UNCHANGED <<program, handler>>

----------------------------------------------------------------------------
(* The handler *)

Running == phase = "run" /\ ip < Len(words)
Command == words[ip]
Argument == words[ip + 1]

\* A code is executed unless a condition around it does not hold.
Holds(conditions) == conditions = <<>> \/ Last(conditions)
Executing == Holds(status)

SetRegister ==
    /\ Running
    /\ Command.op \in {"ba", "po"}
    /\ ba' = IF Executing /\ Command.op = "ba" THEN Argument.n ELSE ba
    /\ po' = IF Executing /\ Command.op = "po" THEN Argument.n ELSE po
    /\ ip' = ip + 2
    /\ UNCHANGED <<program, phase, status, effects>>

\* The full terminator ends all conditions; so does no other code.
ResetRegisters ==
    /\ Running
    /\ Command.op = "reset"
    /\ ba' = Base /\ po' = Base
    /\ status' = <<>>
    /\ ip' = ip + 2
    /\ UNCHANGED <<program, phase, effects>>

\* Within a condition that does not hold, none does.
BeginCondition ==
    /\ Running
    /\ Command.op = "if"
    /\ status' = Append(status, Executing /\ Command.n = 1)
    /\ ip' = ip + 2
    /\ UNCHANGED <<program, phase, ba, po, effects>>

EndCondition ==
    /\ Running
    /\ Command.op = "endif"
    /\ status' = IF status = <<>> THEN <<>> ELSE Front(status)
    /\ IF Argument.n = Base THEN ba' = Base /\ po' = Base ELSE UNCHANGED <<ba, po>>
    /\ ip' = ip + 2
    /\ UNCHANGED <<program, phase, effects>>

Target == (IF Command.op = "16" THEN po ELSE Segment(ba)) + Command.n

Written(bs) == {[src |-> bs[k].src, at |-> bs[k].at, address |-> (Target + k - 1) % Space] :
                   k \in DOMAIN bs}
Writes(bytes) == effects' = IF Executing THEN effects \cup bytes ELSE effects

\* A write of 8 or 16 bits is repeated as often as its upper half says; the
\* repetitions are those of the byte or half word that the upper half is not.
WriteScalar ==
    /\ Running
    /\ Command.op \in {"00", "02", "04"}
    /\ LET skip == CASE Command.op = "00" -> 3 [] Command.op = "02" -> 2 [] OTHER -> 0
           bs == SubSeq(Argument.bytes, skip + 1, 4)
       IN  Writes(Written(bs)
                  \cup (IF skip > 0 /\ SubSeq(Argument.bytes, 1, 2) # Zeros(2)
                        THEN {[b EXCEPT !.address = @ + Len(bs)] : b \in Written(bs)}
                        ELSE {}))
    /\ ip' = ip + 2
    /\ UNCHANGED <<program, phase, ba, po, status>>

\* What is not executed has the same length.
WriteString ==
    /\ Running
    /\ Command.op \in {"06", "16"}
    /\ LET lines == (Argument.n + 7) \div 8
           bs == FlattenSeq([k \in 1..(2 * lines) |-> words[ip + 1 + k].bytes])
       IN  /\ Writes(Written(SubSeq(bs, 1, Argument.n)))
           /\ ip' = ip + 2 + 2 * lines
    /\ UNCHANGED <<program, phase, ba, po, status>>

\* The instruction at the target becomes a branch to the body: its bytes stand
\* for those of the branch.
InsertHook ==
    /\ Running
    /\ Command.op = "c2"
    /\ Writes(Written(words[ip + 2].bytes))
    /\ ip' = ip + 2 + 2 * Argument.n
    /\ UNCHANGED <<program, phase, ba, po, status>>

Skip ==
    /\ Running
    /\ Command.op = "other"
    /\ ip' = ip + 2
    /\ UNCHANGED <<program, phase, ba, po, status, effects>>

Return ==
    /\ phase = "run"
    /\ ip > Len(words)
    /\ phase' = "done"
    /\ UNCHANGED <<program, handler>>

Next ==
    \/ \E st \in Statement : Encode(st)
    \/ \E st \in Statement : Reject(st)
    \/ Load
    \/ SetRegister
    \/ ResetRegisters
    \/ BeginCondition
    \/ EndCondition
    \/ WriteScalar
    \/ WriteString
    \/ InsertHook
    \/ Skip
    \/ Return

Spec == Init /\ [][Next]_vars

----------------------------------------------------------------------------

IsWrite(st) == st.kind \in {"op", "scalar", "array", "hook"}

\* The handler takes for commands what begins a statement, and what a far write
\* puts around its code, and never a value or data, whether it executes the
\* statement or not.
HandlerKeepsStep ==
    phase = "run" /\ ip <= Len(words) =>
        LET k == CHOOSE n \in DOMAIN starts :
                     starts[n] <= ip /\ \A m \in DOMAIN starts : starts[m] <= ip => m <= n
            far == IsWrite(statements[k]) /\ IsFar(statements[k])
        IN  /\ words[ip].op \notin {"number", "bytes"}
            /\ \/ ip = starts[k]
               \/ far /\ (ip = starts[k] + 2 \/ words[ip].op = "reset")

\* What statement k means to the reader of the source, who sees the segment that
\* near addresses are in, the conditions, and what has been written. A far
\* write goes to its address, and is a reset as well.
Segments == [segment |-> Base, conditions |-> <<>>, written |-> {}]
Meaning(s, k) ==
    LET st == statements[k]
        address == IF IsFar(st) THEN st.address ELSE s.segment + (st.address % Low)
        bytes == {[src |-> k, at |-> j, address |-> (address + j - 1) % Space] : j \in 1..st.size}
        executes == Holds(s.conditions)
        reset == [s EXCEPT !.segment = Base, !.conditions = <<>>]
    IN  CASE IsWrite(st) ->
                 [IF IsFar(st) THEN reset ELSE s EXCEPT !.written = IF executes THEN @ \cup bytes ELSE @]
          [] st.kind = "ba" -> IF executes THEN [s EXCEPT !.segment = Segment(st.address)] ELSE s
          [] st.kind = "reset" -> reset
          [] st.kind = "if" -> [s EXCEPT !.conditions = Append(@, executes /\ st.address = 1)]
          [] st.kind \in {"endif", "endif reset"} ->
                 [s EXCEPT !.conditions = IF @ = <<>> THEN @ ELSE Front(@),
                           !.segment = IF st.kind = "endif" THEN @ ELSE Base]
          [] OTHER -> s

\* Every byte of a write and every HOOK gets to its address, and nothing else,
\* no padding and no repetition, is written: a far one goes where it says
\* whatever BA and PO are, a near one to the segment that the source has set,
\* and both only where the conditions around them hold, of which a reset or a
\* far write leaves none, even one that is not executed.
EffectsFollowSource ==
    phase = "done" /\ Flags \ {"AddressAlignment"} \subseteq policy =>
        effects = FoldLeft(Meaning, Segments, [k \in DOMAIN statements |-> k]).written
=============================================================================
