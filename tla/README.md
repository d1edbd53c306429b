# GCTRealMate in Go: a verification project

GCTRealMate assembles Gecko codesets and the PowerPC code in them into GCT
files, which a code handler interprets on the console. This directory holds
TLA+ modules that model the program, configurations with which TLC checks them
on small instances, and theorems that TLAPS proves for all instances. The
references below are to the source (`src/`) the modules are translated from.

## The system

| Part | State | Operations | Source | Modules |
|---|---|---|---|---|
| Command line | sticky flags, pending options, jobs | `plan`, `configArguments`, `apply`, `iniOptions` | `internal/cli` | `CliPlan` |
| Job processing | exit status, temporary and output files | the loop of `Run`, `writeAtomic` | `internal/cli/cli.go` | `CliRun`, `AtomicStore` |
| Scanner | position, quote, comment, pending text | `scanPolicy`; `splitArgs`, `splitAddress` | `assembler/source.go` | `Scanner`; `DataWords` |
| Frontend | call stack, sections, scopes, active files, counter, log | `frontend.parse` and its recursive calls | `assembler/frontend.go` | `Frontend` |
| Section encoder | words, pending data, labels, fixups, offset | `encodeSection`, loop of `Assemble` | `assembler/assembler.go` | `SectionLayout` |
| Block encoder | labels, sizes, body | `encodeBlock`, branch targets | `assembler/assembler.go`, `internal/ppc/branch.go` | `BlockLayout` |
| Writes, hooks, conditions | none (the handler's BA, PO, place and status) | `encodeWrite`, HOOKs of `encodeBlock`, the directives behind them | `assembler/assembler.go`, `directives.go`, `legacy.go` | `GeckoHandler`; counts in `SectionLayout` |
| Directives | none | `encodeDirective`, `encodeDirectivePolicy`, `addressModifiers` | `assembler/directives.go`, `legacy.go` | `DirectiveWords`, `Encoders` |
| Expressions | place in the source, nesting depth | `EvalRules`, `AliasRules`, `checkSyntax` | `internal/expr` | `Expressions` |
| Data | none | `encodeData`, `parseSourceAddress` | `assembler/data.go`, `frontend.go` | `DataWords`, `Encoders`; sizes in `SectionLayout`, `BlockLayout` |
| Instructions | none | `ppc.Encode`, its tables, validation and legacy forms | `internal/ppc` | `Instructions`, `BranchWords`, `Encoders` |
| Corrections | none | `fixes.Policy` and what reads it | `fixes`, everywhere | the `policy` of each module |

`main` gives `Run` a context that an interrupt cancels. `Run` plans all jobs,
then compiles each (`Compile` reads the file, scans it, runs the frontend over
the statements, and encodes section after section), and writes its files. The
parts of the assembler run one after the other in one goroutine; they interact
by what they return. Concurrency comes from outside: interrupts, and other
gctrm processes on the same files.

What is hard about it:

* *Layout.* Data is buffered and flushed late, labels and offsets are taken on
  the way, references are patched at the end, blocks are encoded in two passes
  with offsets that must not change any more, and every correction of the C++
  assembler's behaviour can be on or off.
* *The walk.* Files, macros and blocks nest in any order, in enabled and
  disabled sections, and a title anywhere replaces the scope.
* *Two readings of one thing.* Two passes over the command line, two passes over
  a block, an encoder and the handler that decodes, two evaluators of aliases:
  each pair has to agree for every input.
* *The files.* Every system call may fail, the process may be killed, and two
  processes may write the same files.

What makes each part correct is stated under *Modules and runs*; the full list
of hazards, with the properties that cover each, is in `PROJECT.json`.

## Modules and runs

An action stands for one iteration of a loop, one call or one system call of
the code, with everything that it changes. The operators whose comment begins
with *Mutated form* are plausible errors of the definition after them: with one
of them in its place, TLC finds the property listed beside it in `PROJECT.json`
violated. They are not used otherwise.

### SectionLayout: sections, labels and offsets

One statement of `encodeSection` per action. What a statement encodes to is
abstracted to how many words it adds, of which kind; each word remembers the
statements it comes from (`src`, a history variable). `codes` are the finished
sections of `Assemble`, `offset`, `words`, `data`, `labels` and `fixes` the
variables of the same names. The half word of a displacement is a signed number
below `Half`; `hi` is what a legacy fixup borrows from the upper half.

Run `sections` (`SectionLayout.cfg`): up to four statements in up to two
sections, two labels, data of 4 and 9 bytes (one that fills half a line and one
that takes two lines), blocks of one and two lines, under three policies: all
corrections, none, and a mix in which corrections meet that the first two keep
apart. `Half` is 12, so that four statements can exceed it in both directions.

* `JumpsLand`: with corrected offsets, a GOTO or BA reference takes the handler
  to the first definition of its label, with all earlier statements before it
  and all later ones behind it.
* `ReferencesResolved`: a reference to a label that the section does not define
  is an error or left alone.
* `LinesFramed`: sections are whole lines and commands start lines, but for a
  legacy `.GOTO_F` without `gecko_line_framing`.
* `BlockOffsetsAreFinal`, `OffsetsAreFinal`: the offset `encodeBlock` was told,
  and the offset in the log, are where block and section are in the file.
* `DataReachesImage`: no data statement is lost, but at the very end without
  `raw_data_eof`.

Deadlock is not checked in this and the other assembler runs: the assembler
ends.

### BlockLayout: the two passes over a block

The first pass reads any body; the second one goes over the items read. Items
are labels, data, raw words, instructions, and branches `b` and `bc` to a name
or to an address. Words remember the item they come from. Addresses live in a
space of `Space` bytes; `Base` (2^31) is where memory starts, `Low` (2^25) what
the operand of a code can hold. The handler's view (`EffectiveAddress`,
`PayloadWords`) follows the repository's own reader of Gecko codes in
`assembler/format_validation_test.go`.

Run `blocks` (`BlockLayout.cfg`): bodies of up to three items, two labels, data
of one and three words, an address below memory, a near and a far one, no base
address and two, all corrections on, off, and on with all validation. The space
has 256 bytes and conditional branches reach 12, so that three items can leave
the reach; from the second base address on, addresses wrap around.

* `BranchesLand`: a branch to a label, `%START%` or `%END%` leads to what
  follows it in the source.
* `AddressedBranchesLand`: a branch to an address leads there from where its
  word runs.
* `HandlerTakesWholeBlock`: reading on from the payload, the handler meets the
  end of the block or the reset; a CODE block copies its body and no padding.
* `HookReturns`: a hook ends in the slot of the branch back, and what falls
  through its body gets there.
* `TargetsItsAddress`: from the initial BA and PO, a block takes effect at its
  address.

### Frontend: the walk over statements

`stack` is the Go call stack of `frontend.parse`. The statements that a frame
still has to read are arbitrary, so each step chooses any statement or the end
of the frame: a file or macro may contain whatever the walk can meet.
Definitions remember where they were made, nodes where the names they see were
defined, so that scoping can be stated.

Run `frontend` (`Frontend.cfg`): five statements, three files, include and
expansion depth up to two, one alias and one macro. Two titles, an include, a
block and an expansion fit in five statements; depth two is the least at which a
cycle through another file and a nested expansion occur.

* `NestingIsBounded`: active files and depth parameters agree with the calls
  that are active; nothing is active twice.
* `LogFollowsSections`: one log entry per section, in order, properly nested.
* `NamesStayInScope`: names do not cross a title or leave a block.
* `OpenBlocksHoldTheSection`: while a block is open no section begins and none
  is disabled.
* `DisabledIsSilent`: nothing is added to the result in a disabled section.
* `Terminates`: the walk ends, under weak fairness of `Next`: one goroutine runs
  it and never waits.

### CliRun and AtomicStore: jobs, files, failures

Each process is at one step of `Run` or `writeAtomic`; `disk` are the files,
`temp` its temporary file. Any system call may fail, a failed write leaves a
part of the output in the temporary file, an interrupt only makes later
compilations fail, and a crash ends a process between any two steps.
`AtomicStore` is the promise of the documentation: a file changes only as a
whole, to a complete output that belongs there. `CliRun` implements it
(`FilesChangeAsAWhole`, a refinement).

Run `cli` (`CliRun.cfg`): two processes, one with two jobs and five outputs, the
other one with the same first job and missing files excused.

* `StatusZeroMeansDone`: status zero, and every output is in place.
* `SidecarsFollowTheirGct`: no text or log without its GCT.
* `NoTemporaryFilesLeft`: only a crash leaves a temporary file behind.
* `EveryJobIsTried`, under weak fairness of the steps of each process (the
  operating system runs it): unless it crashes, a process ends, and has then gone
  through all of its jobs. With any status, an output that is not in place has
  failed itself, or its GCT has; a failure ends neither the loop over the jobs nor,
  but for the GCT, the outputs of its job. The history `failures` keeps what failed.
  Interrupts and crashes are not fair: they need not happen.

Assumed of the file system: a rename replaces a file in one step, the names of
temporary files are unique, and a temporary file that exists can be removed.
Data that has not reached the disk when the machine loses power is not modelled
(the code does not call fsync).

### CliPlan: the command line

`configArguments` reads the arguments first; each of its iterations types an
argument, so that every command line up to the bound is considered. Then the
configuration is loaded, and the loop of `plan` goes over what is left. A second
loop checks the outputs one by one against the configuration, the inputs, and the
outputs before them (`which`, `nth` and `destinations`). Behind it is the loop of
`Run`, which makes the names of the outputs again: it writes some of those that a
job asks for (`RunJob`), because any of them may fail. `CliRun` has its steps. A flag of
each kind stands for the others: the corrections (`fixes`), which one option
sets together, the other settings (`choice`), options that assign several flags
(`-g`, `-*`), and those of one input. The files are what they assign (`toml`)
and which inputs their lines match (`ini`). The history variables `given` and
`inputs` keep what the user wrote, and `written` what `Run` has put in place.

Run `plan` (`CliPlan.cfg`) has two sets of arguments. Four arguments out of ten
for the settings, with two configurations and five INI files: none; one whose
first line begins with the name of an input without being it; one that sets
sticky options, for each input; one without colon; one with an error. And five
arguments out of twelve for the passes and the collisions, with inputs of one
stem, one of them the name of another one's GCT: an input, an option with its
value and a second input take four arguments, `--` a fifth.

* `PrecedenceHolds`: the value of each flag of each job is the last one given in
  front of its input, else the one of its INI line, else inherited.
* `PassesAgree`: both passes take the same arguments for inputs.
* `NothingIsOverwritten`: no file that `Run` writes is the configuration, an input
  of any job, done or to come, or a file that it has written before. This relates
  what is written to what the checks have seen, output by output, under the names of
  another piece of code; the mutated form forgets the outputs of a job with the
  job. `CliRun` assumes the same of its jobs (`Planned`).

The documented order, defaults < TOML < INI < command line, is that of one
input. For later inputs a persistent option is a default only, which their INI
lines override, as `PrecedenceHolds` has it.

### Scanner: from characters to statements

One iteration of the loop of `scanPolicy` per action. A character is one of
thirteen kinds; two of them stand for the words `.alias` and `op`, whose
statements are read differently. A statement is the list of the places of its
characters, so that the properties can relate it to the file. Carriage returns,
which are dropped, tabs, which are blanks, and `}`, which is read like `{`, are
left out.

Run `scanner` (`Scanner.cfg`): all files of up to five characters of all kinds;
five suffice for a string with an escape, or a block comment with a character
inside, and something around it; and all files of up to seven characters of the
kinds that move lines.

* `NoLetterIsLost`: what is in no statement is behind something that hides it.
* `StringsStayWhole`: a string in a statement is the one of the file.
* `LinesEndStatements`: a statement crosses the end of a line only in a string,
  by a continuation or over a block comment.
* `PositionsAreOrdered`: lines of statements never decrease, and are never
  behind the statement's first character.

They are not always exact: a statement behind a block comment of several lines
with a blank in front of it has the line where the comment begins.

### Expressions: parser against grammar

A source is a list of tokens, evaluated in one step by the entry point and the
rules of `selection`. `Parse`, `Climb` and `Atom` are the functions of the code
with the place in the source as a value; `Meaning` is the reference: it splits a
source at its last weakest operator. Words have three bits and integers six
instead of 32 and 64, so that TLC meets every overflow; the code uses the widths
only as a modulus, as the limits of shifts and as that of literals.

Run `expressions` (`Expressions.cfg`): all sources of up to four tokens with all
operators under all entry points; of five with all binary operators (two levels
in either order); of six with `+`, `-`, `*` and `&` without the extension and
with the legacy accumulators; and of six with signs and parentheses, where the
bound on nesting, down from 128 to 5, rejects `((-2))`.

* `ParserFollowsGrammar`: the parser accepts what the grammar accepts, and gives
  it the same value, with 32-bit aliases narrowed at the places of the grammar;
  a legacy alias has the value of its part up to the operand of its first sum.
* `OperandsNeedNoPrecedence`: without the extension, the value of an operand does
  not depend on the order of evaluation.

### GeckoHandler: codes and their effect

`GeckoHandler` encodes a sequence of writes, HOOKs, `.BA`/`.PO` settings, resets,
conditions, their ends and other commands, and then lets the code handler run
it. The handler's addresses are those of the repository's own reader
(`geckoTargets` in `assembler/format_validation_test.go`); what it writes, and
the execution status that conditions give it, are external: the documented
effect of the codes that are encoded. Every byte knows its statement.

Run `gecko_handler` (`GeckoHandler.cfg`): `Scripts` are three statements of any
kind, with all corrections, none, and all but `directive_bit31`; and sequences of
five in and around nested conditions. Addresses are below memory, near, at the
end of a segment, and far; BA and PO in the first segment and elsewhere; all
sizes of scalars, arrays of 3 and 8 bytes. Three statements are what it takes to
set a register, undo it by a far write, and depend on it; five, to do so in a
condition and look behind it.

* `HandlerKeepsStep`: the handler takes no data for a command, whether it executes
  a statement or skips it.
* `EffectsFollowSource`: what is written is what a reader of the source expects,
  who knows the last BA, the conditions, and that a far write is a reset, too.

`.ELSE` is encoded in `DirectiveWords`, but the handler does not run it: nothing
in the repository says what it does to nested conditions.

### Instructions, BranchWords, DirectiveWords, DataWords, Encoders: words

Four modules without state translate the encoders of one line, under any set of
corrections: `ppc.Encode` with its tables, its special forms, its validation and
its legacy forms (`Instructions`); its conditional branches and hints
(`BranchWords`); directives as sets of bits (`DirectiveWords`); and `encodeData`
with the functions that split its text (`DataWords`). `Encoders` encodes one line
in one step and states what its words have to do with those of other lines and
of other corrections, with the processor, and with the source. A word is its
primary opcode and its lower 26 bits, since 32 bits are more than TLC's integers
have; for the same reason the bytes of `DataWords` have `ByteBits` = 7 bits,
which the code uses as a modulus and as the bound of fields only.

Run `encoders` (`Encoders.cfg`), the lines of `MCEncoders`: every mnemonic of the
tables with the operands at the bounds of its fields; a mnemonic of each layout
and of each special form with operands just outside, of the wrong kind, too few
and too many, and all suffixes; shifts by 0 to 33; comparisons in all their
forms; branches of every condition to both ends of their reach; every form of
directive over four registers, which have every bit set and clear; numbers on
both sides of the bound of each field under every set of settings of data; all
lists of four tokens and all strings of six. Corrections are on, off, and off in
groups: those that read the same operand or the same bit are together.

* `EncodingsDiffer`: two instructions, or two directives, never have one word,
  but for the register numbers that directives without `gr_index` lose.
* `CorrectionsAreIndependent`: corrections that one by one make no difference to
  an instruction make none together.
* `TargetIgnoresCorrections`: without `non_console_instructions` no set of
  corrections lets a 64-bit instruction through.
* `WordsDoWhatTheirNamesSay`: a shift by `rlwinm` moves the bits its name says,
  and an operation on condition bits has the truth table of its name.
* `BranchesTestTheirCondition`: a branch tests what its name says, goes where its
  operand says, and is predicted as its hint says, backwards and forwards.
* `DataHoldsItsValues`: data is as long as its list, every value is read back
  from its own place, one that fits its type unchanged by a slot of four bytes, and a
  check of the range lets no other one through. Of a number that does not fit and
  is not checked, it asks for the lower bytes only, and for zeros above them without
  `sign_extend_data_slots`; what is above them otherwise, and an address that is a
  name alone, are the questions of the runs below.

The model's words were compared with the repository's vectors in
`internal/ppc/testdata` and in the tests beside it (GNU: 4900 lines, non-console:
83, the C++ reference: 327, rejected forms: 92). They agree, but for lines that
have two hints in one mnemonic, which are outside the modelled lines.

Runs `overflow_is_truncated` and `address_names_are_values` show where data differs
from the documentation (see *Findings*).

## Proofs

Every theorem below holds for all values of the constants that satisfy the named
assumption of the module it is about. The invariants were found with TLC first: each
of them was checked as an invariant of the module's run before it was proved.

**Sections** (`SectionLayoutProofs`, from `LayoutAssumption`): `TypeCorrect`,
`BlocksStayPut` (`BlockOffsetsAreFinal`) and `SectionsAreLines` (`LinesFramed`).
The last two are not inductive: they speak of finished sections, and the step
that finishes a section depends on what was true while it was encoded. The
invariant `LayoutInv` adds that the blocks encoded so far know their offset
(`Placed`), that with two-word `.GOTO_F` the words so far are whole lines with the
commands at their start (`WholeLines`), that the section itself starts on a line,
and that every fixup names the first word of a reference (`FixesNameJumps`), so
that patching cannot change a block. Lemmas about the operators (`FlushedLemma`,
`BlockWordsLemma`, `ReferenceLemma`, `PatchedLemma`) reduce each action to a
statement about the words it appends (`EmitsSection`). `SectionsAreFound`
(`OffsetsAreFinal`) rests on the chain of the sections (`Chained`: each one starts
where the one before it ends) and on `FlattenLemma`, which says where `FlattenSeq`
puts the lists it is given.

`LayoutAssumption` says that blocks and writes have an even number of words, at
least two. That blocks have is `HandlerTakesIt` below; `encodeWrite` pads its
payload to lines in both of its forms.

**Jumps and data** (second half of `SectionLayoutProofs`):
`LabelsAreReached` (`JumpsLand`), `MissingLabelsAreSeen` (`ReferencesResolved`) and
`DataIsKept` (`DataReachesImage`). The invariant `JumpsInv` says of the open section
that no word is from a statement not yet read (`SourcesRead`), that each label is
where its first definition parts the words (`LabelPlaced`: the words before it and
the pending data are on the right sides), that references and fixups name each other
and nothing is patched yet (`ReferencesOK`), and that the bytes of a data statement
are pending or in the words (`DataKept`). The step that finishes the section turns
this into what is said of the finished ones (`Lands`, `Resolved`, `KeepsData`). The
arithmetic of a 16-bit displacement, negative ones included, is in lemmas of its own.

**Blocks** (`BlockLayoutProofs`, from `BlockAssumption`, which leaves the widths of
displacements, operands and addresses open): `BranchesLeadHome` (`BranchesLand`),
`AddressesAreReached` (`AddressedBranchesLand`), `HandlerTakesIt`
(`HandlerTakesWholeBlock`), `HooksReturn` (`HookReturns`), `TargetsAreHit`
(`TargetsItsAddress`) and `TypeCorrect`. All of them speak of a finished block, and
none is inductive. `BlockInv` says that there is a measure `m`, the words of the
first `k` items, such that the first pass's labels and size are those of `m`
(`Measured`: a label is at the measure of its first definition), that the second
pass is at `m[encoded]`, each of its words within the measure of its item, and that
every branch has the field of its own displacement (`Emitted`); and that a finished
block is its body in its frame (`PhasesOK`). `Parts` and `Regions` take a finished
block apart; `Division`, `Remainders`, `FieldLemma` and `DistanceLemma` are the
arithmetic of fields and addresses with a variable width.

**Walk of the statements** (`FrontendProofs`, from `FrontendAssumption`):
`CallsAreBounded` (`NestingIsBounded`), `LogIsComplete` (`LogFollowsSections`),
`ScopesHold` (`NamesStayInScope`), the action properties `BlocksHoldTheirSection`
(`OpenBlocksHoldTheSection`) and `DisabledSectionsAreSilent` (`DisabledIsSilent`), and
`TypeCorrect`. `WalkInv` says of the active calls that the depths passed as parameters
count the frames below, that no file is read by two of them and at most one is a block
(`StackOK`), that no call is deeper than the log shows (`DepthOK`), that the names in
scope are of this section and block (`ScopeOK`), and that a macro under expansion could
be seen where it was called (`CallsOK`); of the result, that the statements of every
section and block see only names of theirs (`SectionsScoped`, `BlocksScoped`).

**Output files** (`CliRunProofs`, from `RunAssumption`): `LittersOnlyByCrashing`
(`NoTemporaryFilesLeft`), `ZeroMeansDone` (`StatusZeroMeansDone`), `GctComesFirst`
(`SidecarsFollowTheirGct`), `TypeCorrect`, and `ImplementsAtomicStore`: `CliRun`
implements `AtomicStore`, each step of a process being one of the store or a stutter.
`FailuresCostNoOther` proves `FailuresStayApart`, the part of `EveryJobIsTried` that
is about a process that has ended; `OwnInputsSurvive` states `InputsSurvive`, which no
run checks. `RunInv`
says of each process where it is in `writeAtomic` and what its temporary file holds
there (`PlaceOK`), that the GCT of the job is in place before its other outputs
(`OrderOK`), that with status zero all the loop has passed is in place
(`StatusOK`), and that with any status it is in place or has failed
(`OutcomeOK`); and of the files that what was renamed is a planned, complete output
(`RenamedOK`) and that there are no more temporary files than crashed processes
(`LitterOK`). `RunAssumption` includes that what a file held before is no output of
these processes (`Before \notin Content`).

**Planning** (`CliPlanProofs`, from `PlanAssumption`): `PassesReadAlike`
(`PassesAgree`), `RunOverwritesNothing` (`NothingIsOverwritten`) and
`FlagsHavePrecedence` (`PrecedenceHolds`). `PlanInv` says that there is one reading of the arguments kept so
far, as dashes, options, values, inputs and literals (`Reading`), and places of the
inputs among them (`Located`), that the first pass is at the end of this reading
(`FirstPassOK`) and the second one at a part that is no value (`AtPart`), with the jobs
of the inputs behind it (`JobsOK`). For `NothingIsOverwritten`, `CollisionInv` says that the outputs the checks have
passed are destinations, no two of them one file and none of them an input or the
configuration (`ChecksOK`); that this is so of all outputs once the loop has ended
(`Apart`, which is what `CliRun` assumes of its jobs); and that what is written are
outputs that the jobs ask for (`WrittenOK`). `FilesLemma` shows that the names `Run`
makes are those of the list that was checked, each at a place of its own. For the flags, `ApplyAllLemma` says
that a setting has the value of the last option that assigns it, by induction over the
list, `EarlyLemma` that the early pass over the pending options decides about the INI
line as they do and changes nothing else for good, and `FlagsInv` that each job follows
from its options, its line and the flags before it (`Follows`), which the next one
starts from.

**Handler** (`GeckoHandlerProofs`, from `HandlerAssumption`): `StepIsKept`
(`HandlerKeepsStep`) and `TypeCorrect`, for scripts of any length. `HandlerInv` says that
the words of every statement, at its place among all words, are laid out in commands from
each of which the handler gets to another one of the same statement or to the next
statement (`Laid`, `LayoutOK`), and that the handler is at one of them (`PlaceOK`).
`Fits` is proved of the words of each kind of statement (`WriteFits`, `HookFits`), for
payloads of any size; `LaidBehind` and `LaidBefore` carry it to the place where they are.

`EffectsFollow` (`EffectsFollowSource`) is about two readers: one of the words, which is
the handler, and one of the source, which is a fold over the statements. `EffectsInv`
adds to `HandlerInv` what the words of each statement say (`ContentsOK`: the registers,
the operand, and each byte of the payload in its order behind the padding), and that the
two readers are in step (`EffectsOK`): before a statement they agree on what is written,
on the conditions and on the segment that BA points to (`Agrees`); within a far write the
handler has the register that the frame set, if it executes at all (`Entered`), and
before the reset behind it, it has written what the reader has (`Follows`). The two
halves are proved apart: `EncodingSays` shows that each encoding says its statement, and
`SaysBefore` and `SaysBehind` that it still does among other words; `BeginStep`,
`CodeStep` and `ResetStep` show what the handler does with such words. That BA may differ
from the reader's within a segment is why the operand of a near write is enough, and that
PO may differ is why a far string is relative to it only behind its own `.PO`. The
assumption says that `Base` is not zero: otherwise the argument of an `.ENDIF` that
resets would be that of one that does not.

**Scanner** (`ScannerProofs`, from `ScannerAssumption`): `LettersAreKept`
(`NoLetterIsLost`), `StatementsEndWithLines` (`LinesEndStatements`), `PositionsOrdered`
(`PositionsAreOrdered`), `StringsAreWhole` (`StringsStayWhole`) and `TypeCorrect`, for files of any length. `ScanInv` says that
the line number is that of the place (`LineOK`); that the statement being read consists
of places read since its start, its last one a neighbour of the next (`BufferOK`); that
the statements so far are sound and in order (`OutGood`); that each letter read is
somewhere or hidden by something before it (`LettersOK`); and that an `.alias` at the
beginning of the file stays at the front of the buffer until something ends it
(`AliasOK`), which is what the exception of `ScannerOR` for `|` rests on. The next
newline and the ends of a trimmed statement are CHOOSEn; that they exist is `Smallest`.
For strings, `StringInv` adds that what a reader of the buffer knows (`EndsIn`: in a
string or not, behind a backslash or not, and the place it is at) is what the scanner's
flags say (`StringOK`), and that no statement so far has lost a part of a string
(`OutWhole`). Blanks at the ends of the buffer are trimmed: since a trimmed statement
begins outside of strings and the scanner is outside of them when it emits, none is cut.

**Lists** (`Lists`, without constants): a set of numbers has a smallest member, found
with the well-foundedness of strict subset of finite sets (`Smallest`, `Largest`), and
so what holds of 1 and, with any number, of the next one holds up to a bound (`UpTo`).
This is the induction that the proofs above use: the predicate is a set, which the
provers can instantiate, where the library's theorems have an operator. `FoldLeft` is
defined by a recursion over sets of places, from which the largest is taken each time;
`FoldsExist` says that there is such a function for any step that stays in its type, so
that the CHOOSE finds one, and `MaxOfPlaces` that it goes through a list from left to
right. `FlattenLemma` says at which place FlattenSeq puts each member of each list.
`Division`, `Remainders` and `NearLemma` are about quotients, with any divisor.

### What stays with TLC, and why

* `Terminates` of `Frontend`, and that the processes of `CliRun` end (in
  `EveryJobIsTried`): liveness under fairness needs ENABLED, which the provers do
  not have.
* `ParserFollowsGrammar` and `OperandsNeedNoPrecedence`: the operators of `Expressions`
  are RECURSIVE.
* The properties of `Encoders`: they compare tables of mnemonics, condition bits and
  corrections, which are finite and which the run goes through entry by entry. Only
  registers and the width of a byte are samples there; a proof for all of them would
  be the same case analysis over the tables again.

## Findings

A run shows each of these:

* `SourcesSurvive`: CONFIGURATION.md promises that output paths cannot overwrite
  source files. Files that a source includes are not checked.
* `OverflowIsTruncated`: without `reject_data_overflow`, CONFIGURATION.md promises
  truncation to the declared width, *including `byte 256` becoming zero*. In a block
  with `sign_extend_data_slots` the whole number is in the slot, 00000100 (the bytes
  of the model have 7 bits, so that the run has 2^7 in place of 256), because the
  mask of `assembler/data.go:211` depends on the other setting.
* `AddressNamesAreValues`: CONFIGURATION.md says that named constants can be used in
  data. A name alone is replaced by the decimal digits of its value
  (`assembler/data.go:76`), which `address` reads as hexadecimal: with `.alias x =
  0x1234`, `address x` gives 4660h, while `address x+0` (with `expression_syntax`)
  gives 1234h. `AsHex` in `DataWords` is this reading.

These were met while modelling, and are what the modules do; no run is about them:

* CONFIGURATION.md:53 promises that content without a title is
  an error unless `implicit_sections` is set. A labelled directive or raw line,
  or a bare `BA`/`PO` directive, passes the check and opens the section *Codes*.
  The same test, in a disabled section, takes them for titles.
* CONFIGURATION.md:31 says that `additional_console_instructions`
  covers moves that name their special register beyond LR, CTR and XER. Those
  whose name begins `mtspr` or `mfspr` (`mtsprg0`, `mfsprg0`, `mtspr912`) are
  taken for `mtspr` and `mfspr` (`internal/ppc/encode.go:90`) and rejected,
  although `addedConsoleInstruction` counts them (`extensions.go:22`).

## Plan

Done, in this order: `SectionLayout` with its first proofs, `BlockLayout`,
`Frontend`, `CliRun` over `AtomicStore`, `CliPlan`, `Scanner`, `Expressions`,
`GeckoHandler` with hooks and conditions, the encoders. To do:

1. `Assembler`: frontend, section and block encoder composed over one list of
   statements, so that the offset a block is told, its size and its branches
   are related across modules, and an error of any part leaves no result.
2. `Session`: `CliPlan` and `CliRun` composed, with the `Outputs` of the accepted
   plan as the files that `CliRun` writes.
3. `GeckoHandler` with GOTO: jumps out of and into conditions, over the layout of
   `SectionLayout`.
4. `Expressions` with recursive functions over the places of the text in place of
   RECURSIVE operators, which is what a proof about its parser would need.

## Not modelled

* How the text of an instruction is cut into operands (`operands`), operands of
  2^31 and more, two hints in one mnemonic, and `op` with data in place of an
  instruction. Branches to unknown labels without `missing_labels` are in
  `BlockLayout` only.
* The values of float, double and scalar data: they are those of Go's `strconv`
  and of `float32` arithmetic, which TLA+ does not have.
* `.ELSE` and GOTO in the handler.
* The wording of text, log and diagnostics.
* The Python scripts under `tools`, which compare the program with others.
* File identity beyond the path (links), in the collision checks of `CliPlan`.
