------------------------------ MODULE Frontend ------------------------------
(***************************************************************************)
(* frontend.parse (assembler/frontend.go): the recursive walk over the     *)
(* statements of the root file, of included files, of macro expansions and *)
(* of assembly blocks, which produces the sections, their scopes and the   *)
(* log.  The Go call stack is the variable stack; the statements a frame   *)
(* has left to read are any, so that a file or a macro body may hold       *)
(* whatever the walk can meet, and a frame may end at any time.            *)
(***************************************************************************)
EXTENDS Integers, Sequences, FiniteSets, SequencesExt

CONSTANTS
    Files,       \* cleaned paths
    Root,        \* the file being assembled
    NoFile,      \* the file of a frame that is no file
    Aliases,     \* alias names
    Macros,      \* macro names
    MaxInclude,  \* 16: bound of the include depth
    MaxMacro,    \* 32: bound of the macro expansion depth
    Limit        \* 1,000,000: bound of the statements read

ASSUME FrontendAssumption ==
    /\ Root \in Files /\ NoFile \notin Files
    /\ Aliases \cap Macros = {}
    /\ MaxInclude \in Nat /\ MaxMacro \in Nat /\ Limit \in Nat

Names == Aliases \cup Macros

\* Where a name was defined: after how many section titles, and in which of
\* the blocks so far (0 for outside of a block).
Def == [section : Nat, block : Nat]
NoDef == [section |-> 0, block |-> -1]
Scope == [Names -> Def \cup {NoDef}]
NewScope == [n \in Names |-> NoDef]

\* A statement outside of blocks: whether a label stands in front of it, and
\* whether looksLikeStatement accepts its text. A line without "@" loses that
\* when it is labelled; a BA or PO directive without dot never has it, and is
\* none when it is labelled.
Form == [kind : {"line", "pulse"}, labelled : {TRUE}, looks : {FALSE}]
        \cup [kind : {"line", "pulse"}, labelled : {FALSE}, looks : {TRUE}]
        \cup [kind : {"write", "hook"}, labelled : BOOLEAN, looks : {TRUE}]
        \cup [kind : {"bare"}, labelled : {FALSE}, looks : {FALSE}]
        \cup [kind : {"label"}, labelled : {TRUE}, looks : {FALSE}]
Blocks == {"hook", "pulse"}

Frame == [kind : {"file", "macro", "block"},
          file : Files \cup {NoFile},
          includeDepth : Nat, macroDepth : Nat,
          inBlock : BOOLEAN,
          def : Def \cup {NoDef},   \* history: the macro's definition,
          at : Def]                 \* and where it is expanded
Node == [kind : {"label", "statement", "block"}, values : Scope,
         block : Nat, body : Nat]
Inner == [values : Scope, block : Nat]
Entry == [include : BOOLEAN, section : Nat, depth : Nat]

VARIABLES
    implicit,    \* opts.ImplicitSections
    phase,       \* "parse", "done" or "failed"
    stack,       \* the active calls of parse, the innermost one last
    sections,    \* f.sections: how each was opened, and its nodes
    scope,       \* f.scope
    local,       \* the scope of the open block
    target,      \* the nodes of the open block
    activeFiles, \* f.activeFiles
    expanded,    \* f.expanded
    disabled,    \* f.disabled
    log,         \* f.logEntries
    blocks,      \* history: number of blocks opened
    inner        \* history: the nodes of the closed blocks

vars == <<implicit, phase, stack, sections, scope, local, target, activeFiles,
          expanded, disabled, log, blocks, inner>>

----------------------------------------------------------------------------

Top == stack[Len(stack)]
InBlock == Top.inBlock

\* The scope a declaration goes to is the innermost one; a name is looked up in
\* the block first.
Env == IF InBlock
       THEN [n \in Names |-> IF local[n] # NoDef THEN local[n] ELSE scope[n]]
       ELSE scope
Here == [section |-> Len(sections), block |-> IF InBlock THEN blocks ELSE 0]

\* The values of a node: aliases only.
Snapshot == [n \in Names |-> IF n \in Aliases THEN Env[n] ELSE NoDef]

LabelNode == [kind |-> "label", values |-> NewScope, block |-> 0, body |-> 0]

Push(frame) == stack' = Append(stack, frame)

\* One more statement is read.
Reads ==
    /\ phase = "parse"
    /\ expanded < Limit
    /\ expanded' = expanded + 1

Fail ==
    /\ phase' = "failed"
    /\ UNCHANGED <<implicit, stack, sections, scope, local, target, activeFiles,
                   disabled, log, blocks, inner>>

Init ==
    /\ implicit \in BOOLEAN
    /\ phase = "parse"
    /\ stack = <<[kind |-> "file", file |-> Root, includeDepth |-> 0,
                  macroDepth |-> 0, inBlock |-> FALSE, def |-> NoDef,
                  at |-> [section |-> 0, block |-> 0]]>>
    /\ sections = <<>>
    /\ scope = NewScope
    /\ local = NewScope
    /\ target = <<>>
    /\ activeFiles = {Root}
    /\ expanded = 0
    /\ disabled = FALSE
    /\ log = <<>>
    /\ blocks = 0
    /\ inner = {}

----------------------------------------------------------------------------

SectionEntry == [include |-> FALSE, section |-> Len(sections) + 1,
                 depth |-> Top.includeDepth]

\* Mutated form: the names of the section before stay visible.
NewSectionKeepingScope(how) ==
    /\ log' = Append(log, SectionEntry)
    /\ sections' = Append(sections, [opened |-> how, nodes |-> <<>>])
    /\ disabled' = FALSE
    /\ UNCHANGED scope

\* newSection: a title, or a line that passes for one in a disabled section.
NewSection(how) ==
    /\ log' = Append(log, SectionEntry)
    /\ sections' = Append(sections, [opened |-> how, nodes |-> <<>>])
    /\ scope' = NewScope
    /\ disabled' = FALSE

\* Mutated form: the section opened for the node is not logged.
AppendNodesUnlogged(ns) ==
    /\ sections' = IF sections = <<>> THEN <<[opened |-> "implicit", nodes |-> ns]>>
                   ELSE [sections EXCEPT ![Len(sections)].nodes = @ \o ns]
    /\ UNCHANGED log

\* appendNode outside of a block, with ensureSection.
AppendNodes(ns) ==
    IF sections = <<>>
    THEN /\ sections' = <<[opened |-> "implicit", nodes |-> ns]>>
         /\ log' = Append(log, SectionEntry)
    ELSE /\ sections' = [sections EXCEPT ![Len(sections)].nodes = @ \o ns]
         /\ UNCHANGED log

\* Mutated form: a title is recognised in a block, too.
TitleAnywhere ==
    /\ Reads
    /\ NewSection("title")
    /\ UNCHANGED <<implicit, phase, stack, local, target, activeFiles, blocks, inner>>

\* A section title; CODE or HOOK without address and body is one, too.
Title ==
    /\ Reads
    /\ ~InBlock
    /\ NewSection("title")
    /\ UNCHANGED <<implicit, phase, stack, local, target, activeFiles, blocks, inner>>

\* "!" disables what follows.
Disable ==
    /\ Reads
    /\ ~InBlock
    /\ disabled' = TRUE
    /\ UNCHANGED <<implicit, phase, stack, sections, scope, local, target,
                   activeFiles, log, blocks, inner>>

\* A statement without effect: .op where it is no extension, a call of an
\* undefined macro, a braced body in a disabled section.
Ignore ==
    /\ Reads
    /\ UNCHANGED <<implicit, phase, stack, sections, scope, local, target,
                   activeFiles, disabled, log, blocks, inner>>

Declare(n) ==
    IF InBlock
    THEN local' = [local EXCEPT ![n] = Here] /\ UNCHANGED scope
    ELSE scope' = [scope EXCEPT ![n] = Here] /\ UNCHANGED local

\* Mutated form: a definition in a disabled section counts.
DefineAlways(n) ==
    /\ Reads
    /\ Declare(n)
    /\ UNCHANGED <<implicit, phase, stack, sections, target, activeFiles,
                   disabled, log, blocks, inner>>

\* A macro definition of a disabled section has no effect, nor has an alias.
Define(n) ==
    /\ Reads
    /\ InBlock \/ ~disabled
    /\ Declare(n)
    /\ UNCHANGED <<implicit, phase, stack, sections, target, activeFiles,
                   disabled, log, blocks, inner>>

\* Mutated form: a file that is being read is included again.
IncludeAgain(f) ==
    /\ Reads
    /\ Top.includeDepth < MaxInclude
    /\ log' = Append(log, [include |-> TRUE, section |-> 0, depth |-> Top.includeDepth])
    /\ activeFiles' = activeFiles \cup {f}
    /\ Push([Top EXCEPT !.kind = "file", !.file = f, !.includeDepth = @ + 1])
    /\ UNCHANGED <<implicit, phase, sections, scope, local, target, disabled,
                   blocks, inner>>

\* .include, in a disabled section too, and in a block.
Include(f) ==
    /\ Reads
    /\ Top.includeDepth < MaxInclude
    /\ f \notin activeFiles
    /\ log' = Append(log, [include |-> TRUE, section |-> 0, depth |-> Top.includeDepth])
    /\ activeFiles' = activeFiles \cup {f}
    /\ Push([Top EXCEPT !.kind = "file", !.file = f, !.includeDepth = @ + 1])
    /\ UNCHANGED <<implicit, phase, sections, scope, local, target, disabled,
                   blocks, inner>>

Expands(m) ==
    /\ InBlock \/ ~disabled
    /\ Env[m] # NoDef
    /\ Top.macroDepth < MaxMacro
    /\ Push([Top EXCEPT !.kind = "macro", !.file = NoFile, !.macroDepth = @ + 1,
                        !.def = Env[m], !.at = Here])
    /\ UNCHANGED <<implicit, phase, sections, scope, local, target, activeFiles,
                   disabled, log, blocks, inner>>

\* Mutated form: the calls of macros are not counted.
CallUncounted(m) ==
    /\ phase = "parse"
    /\ expanded < Limit
    /\ Expands(m)
    /\ UNCHANGED expanded

\* %macro(...), with the body's parameters replaced by the arguments.
Call(m) ==
    /\ Reads
    /\ Expands(m)

\* In a disabled section a statement is skipped, but one that does not look
\* like a statement opens the next section.
SkipDisabled(form) ==
    /\ Reads
    /\ ~InBlock
    /\ disabled
    /\ IF form.looks THEN UNCHANGED <<sections, scope, disabled, log>>
                     ELSE NewSection("statement")
    /\ UNCHANGED <<implicit, phase, stack, local, target, activeFiles, blocks, inner>>

\* Without the extension, what looks like a statement needs a section.
Admitted(form) ==
    sections # <<>> \/ implicit \/ ~(form.looks \/ form.kind = "label")

Statements(form) ==
    (IF form.labelled THEN <<LabelNode>> ELSE <<>>)
    \o (IF form.kind \in Blocks \cup {"label"} THEN <<>>
        ELSE <<[kind |-> "statement", values |-> Snapshot, block |-> 0, body |-> 0]>>)

\* A label, line, write or directive outside of a block.
Emit(form) ==
    /\ Reads
    /\ ~InBlock /\ ~disabled
    /\ form.kind \notin Blocks
    /\ Admitted(form)
    /\ AppendNodes(Statements(form))
    /\ UNCHANGED <<implicit, phase, stack, scope, local, target, activeFiles,
                   disabled, blocks, inner>>

\* HOOK, CODE or PULSE: the label is appended, then the body is parsed.
OpenBlock(form) ==
    /\ Reads
    /\ ~InBlock /\ ~disabled
    /\ form.kind \in Blocks
    /\ Admitted(form)
    /\ IF form.labelled THEN AppendNodes(<<LabelNode>>) ELSE UNCHANGED <<sections, log>>
    /\ Push([Top EXCEPT !.kind = "block", !.file = NoFile, !.inBlock = TRUE])
    /\ local' = NewScope
    /\ target' = <<>>
    /\ blocks' = blocks + 1
    /\ UNCHANGED <<implicit, phase, scope, activeFiles, disabled, inner>>

\* A label, instruction or data item in a block.
EmitInBlock ==
    /\ Reads
    /\ InBlock
    /\ target' = Append(target, [values |-> Snapshot, block |-> blocks])
    /\ UNCHANGED <<implicit, phase, stack, sections, scope, local, activeFiles,
                   disabled, log, blocks, inner>>

\* Any error of a statement, among them a cycle or too deep a nesting, and the
\* cancellation of the context before a statement.
StatementFails == Reads /\ Fail

\* expanded exceeds its limit.
TooLong ==
    /\ phase = "parse"
    /\ expanded = Limit
    /\ expanded' = expanded + 1
    /\ Fail

----------------------------------------------------------------------------
(* The end of the statements of a frame *)

Pop == stack' = SubSeq(stack, 1, Len(stack) - 1)

ReturnFromRoot ==
    /\ phase = "parse"
    /\ Len(stack) = 1
    /\ phase' = "done"
    /\ Pop
    /\ UNCHANGED <<implicit, sections, scope, local, target, activeFiles,
                   expanded, disabled, log, blocks, inner>>

ReturnFromFile ==
    /\ phase = "parse"
    /\ Len(stack) > 1 /\ Top.kind = "file"
    /\ Pop
    /\ activeFiles' = activeFiles \ {Top.file}
    /\ UNCHANGED <<implicit, phase, sections, scope, local, target, expanded,
                   disabled, log, blocks, inner>>

ReturnFromMacro ==
    /\ phase = "parse"
    /\ Top.kind = "macro"
    /\ Pop
    /\ UNCHANGED <<implicit, phase, sections, scope, local, target, activeFiles,
                   expanded, disabled, log, blocks, inner>>

\* The body is complete: the block is appended to the last section.
CloseBlock ==
    /\ phase = "parse"
    /\ Top.kind = "block"
    /\ Pop
    /\ AppendNodes(<<[kind |-> "block", values |-> NewScope, block |-> blocks,
                      body |-> Len(target)]>>)
    /\ local' = NewScope
    /\ target' = <<>>
    /\ inner' = inner \cup ToSet(target)
    /\ UNCHANGED <<implicit, phase, scope, activeFiles, expanded, disabled, blocks>>

Next ==
    \/ Title
    \/ Disable
    \/ Ignore
    \/ \E n \in Names : Define(n)
    \/ \E f \in Files : Include(f)
    \/ \E m \in Macros : Call(m)
    \/ \E form \in Form : SkipDisabled(form)
    \/ \E form \in Form : Emit(form)
    \/ \E form \in Form : OpenBlock(form)
    \/ EmitInBlock
    \/ StatementFails
    \/ TooLong
    \/ ReturnFromRoot
    \/ ReturnFromFile
    \/ ReturnFromMacro
    \/ CloseBlock

Spec == Init /\ [][Next]_vars

\* One goroutine runs the walk and never waits.
FairSpec == Spec /\ WF_vars(Next)

----------------------------------------------------------------------------

FramesOf(kind) == {d \in DOMAIN stack : stack[d].kind = kind}

\* The guard against include cycles and the depth parameters of the recursive
\* calls agree with the calls that are really active, and the walk never has
\* more of them open than its bounds allow.
NestingIsBounded ==
    phase = "parse" =>
        /\ activeFiles = {stack[d].file : d \in FramesOf("file")}
        /\ \A d, e \in FramesOf("file") : stack[d].file = stack[e].file => d = e
        /\ \A d \in DOMAIN stack :
               /\ stack[d].includeDepth = Cardinality({e \in FramesOf("file") : e <= d}) - 1
               /\ stack[d].macroDepth = Cardinality({e \in FramesOf("macro") : e <= d})
        /\ Top.includeDepth <= MaxInclude
        /\ Top.macroDepth <= MaxMacro
        /\ Cardinality(FramesOf("block")) = (IF InBlock THEN 1 ELSE 0)

SectionEntries == {k \in DOMAIN log : ~log[k].include}

\* The log has one entry for every section, in order, so that Result.Log finds
\* the code of every entry; and it nests: an entry is deeper than the one before
\* only if that one is the include it belongs to.
LogFollowsSections ==
    /\ Cardinality(SectionEntries) = Len(sections)
    /\ \A k \in SectionEntries :
           log[k].section = Cardinality({j \in SectionEntries : j <= k})
    /\ \A k \in DOMAIN log :
           log[k].depth <= IF k = 1 THEN 0
                           ELSE log[k - 1].depth + (IF log[k - 1].include THEN 1 ELSE 0)

\* A name seen in section k was defined after the section's title: names never
\* cross a title, except into the implicit section, which does not follow one.
SeenIn(def, k) ==
    def = NoDef \/ def.section = k
        \/ (k = 1 /\ sections[1].opened = "implicit" /\ def.section = 0)

\* Outside of blocks no statement sees a name of a block, and in a block none
\* sees a name of another block.
NamesStayInScope ==
    /\ \A k \in DOMAIN sections : \A j \in DOMAIN sections[k].nodes :
           \A n \in Names :
               LET def == sections[k].nodes[j].values[n]
               IN  SeenIn(def, k) /\ (def # NoDef => def.block = 0)
    /\ \A node \in inner \cup ToSet(target) : \A n \in Names :
           node.values[n] # NoDef => node.values[n].block \in {0, node.block}
    /\ phase = "parse" =>
           \A d \in FramesOf("macro") :
               /\ SeenIn(stack[d].def, stack[d].at.section)
               /\ stack[d].def.block \in {0, stack[d].at.block}

\* A block belongs to the section it was opened in, whatever its body includes
\* and expands: while it is open, no section begins and none is disabled.
OpenBlocksHoldTheSection ==
    [][phase = "parse" /\ InBlock /\ phase' = "parse" =>
          /\ ~disabled'
          /\ \/ Len(sections') = Len(sections)
             \/ sections = <<>> /\ Len(sections') = 1 /\ ~InBlock']_vars

\* While a section stays disabled nothing is added to the result, though its
\* includes are read and its macro definitions consumed.
DisabledIsSilent ==
    [][disabled /\ disabled' => UNCHANGED <<sections, scope, inner>>]_vars

\* The walk ends, even for macros and includes that would unfold for ever.
Terminates == <>(phase \in {"done", "failed"})
=============================================================================
