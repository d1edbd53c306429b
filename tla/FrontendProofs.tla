--------------------------- MODULE FrontendProofs ---------------------------
(***************************************************************************)
(* Theorems about Frontend, for all files, names and bounds: the nesting   *)
(* of the calls, the log, the scopes, and what a step of the walk may not  *)
(* do while a block is open or a section disabled.                         *)
(***************************************************************************)
EXTENDS Frontend, FiniteSetTheorems, SequenceTheorems, TLAPS

----------------------------------------------------------------------------
(* The inductive invariant *)

Section == [opened : {"title", "statement", "implicit"}, nodes : Seq(Node)]

TypeOK ==
    /\ implicit \in BOOLEAN
    /\ phase \in {"parse", "done", "failed"}
    /\ stack \in Seq(Frame)
    /\ sections \in Seq(Section)
    /\ scope \in Scope
    /\ local \in Scope
    /\ target \in Seq(Inner)
    /\ activeFiles \subseteq Files
    /\ expanded \in 0..(Limit + 1)
    /\ disabled \in BOOLEAN
    /\ log \in Seq(Entry)
    /\ blocks \in Nat
    /\ inner \subseteq Inner

FramesUpTo(k, d) == {e \in FramesOf(k) : e <= d}

\* The parameters of a call follow from the calls below it.
FrameOK(d) ==
    /\ stack[d].includeDepth = Cardinality(FramesUpTo("file", d)) - 1
    /\ stack[d].macroDepth = Cardinality(FramesUpTo("macro", d))
    /\ stack[d].includeDepth <= MaxInclude /\ stack[d].macroDepth <= MaxMacro
    /\ stack[d].inBlock <=> (\E e \in FramesOf("block") : e <= d)

\* The active calls: the root file is the outermost one, no file is read by two of
\* them, and at most one of them is a block, of a section that is not disabled.
StackOK ==
    /\ Len(stack) > 0 /\ stack[1].kind = "file"
    /\ activeFiles = {stack[d].file : d \in FramesOf("file")}
    /\ \A d, e \in FramesOf("file") : stack[d].file = stack[e].file => d = e
    /\ \A d, e \in FramesOf("block") : d = e
    /\ \A d \in DOMAIN stack : FrameOK(d)
    /\ InBlock => ~disabled

\* What the next entry of the log may be nested in.
LogDepth ==
    IF log = <<>> THEN 0
    ELSE log[Len(log)].depth + (IF log[Len(log)].include THEN 1 ELSE 0)

\* No call is nested deeper than the log shows.
DepthOK ==
    /\ \A d \in DOMAIN stack : stack[d].includeDepth <= LogDepth
    /\ \A d, e \in DOMAIN stack : d <= e => stack[d].includeDepth <= stack[e].includeDepth

\* All of the values may be seen in section k, outside of blocks.
Visible(values, k) ==
    \A n \in Names : SeenIn(values[n], k) /\ (values[n] # NoDef => values[n].block = 0)

\* What the statements of the result see (NamesStayInScope).
SectionsScoped ==
    \A k \in DOMAIN sections : \A j \in DOMAIN sections[k].nodes :
        Visible(sections[k].nodes[j].values, k)

\* A statement of a block sees no name of another block.
OwnNames(node) ==
    \A n \in Names : node.values[n] # NoDef => node.values[n].block \in {0, node.block}

BlocksScoped == \A node \in inner \cup ToSet(target) : OwnNames(node)

\* The names that can be seen now are those of the last section and, in a block,
\* of that block.
ScopeOK ==
    /\ Visible(scope, Len(sections))
    /\ InBlock => \A n \in Names :
           SeenIn(local[n], Len(sections)) /\ (local[n] # NoDef => local[n].block = blocks)

\* The macro of an expansion could be seen where it is expanded.
SeenAtCall(frame) ==
    SeenIn(frame.def, frame.at.section) /\ frame.def.block \in {0, frame.at.block}

CallsOK ==
    \A d \in DOMAIN stack :
        /\ stack[d].at.section <= Len(sections)
        /\ stack[d].kind = "macro" => SeenAtCall(stack[d])

WalkInv ==
    /\ TypeOK
    /\ LogFollowsSections
    /\ SectionsScoped
    /\ BlocksScoped
    /\ phase = "parse" => StackOK /\ DepthOK /\ ScopeOK /\ CallsOK

----------------------------------------------------------------------------
(* The operators of the walk *)

\* The innermost call is one of the active ones.
LEMMA TopLemma ==
    ASSUME TypeOK, Len(stack) > 0
    PROVE  /\ Len(stack) \in Nat /\ DOMAIN stack = 1..Len(stack) /\ Len(stack) \in DOMAIN stack
           /\ Top \in Frame
           /\ \A d \in DOMAIN stack : stack[d] \in Frame
  BY DEF TypeOK, Top

\* Where names are defined and what a statement sees of them.
LEMMA ScopeLemma ==
    ASSUME TypeOK
    PROVE  /\ NoDef \notin Def
           /\ NewScope \in Scope /\ (\A n \in Names : NewScope[n] = NoDef)
           /\ Len(sections) \in Nat /\ DOMAIN sections = 1..Len(sections)
           /\ Here \in Def /\ Here.section = Len(sections)
           /\ Here.block = (IF InBlock THEN blocks ELSE 0)
           /\ Env \in Scope /\ Snapshot \in Scope
           /\ \A n \in Names : Env[n] \in {local[n], scope[n]} /\ (~InBlock => Env[n] = scope[n])
           /\ \A n \in Names : Snapshot[n] \in {NoDef, Env[n]}
<1>1. Len(sections) \in Nat /\ DOMAIN sections = 1..Len(sections)
  BY DEF TypeOK
<1>2. Here \in Def /\ Here.section = Len(sections) /\ Here.block = (IF InBlock THEN blocks ELSE 0)
  BY <1>1 DEF TypeOK, Here, Def
<1>3. NoDef \notin Def
  BY DEF NoDef, Def
<1>4. NewScope \in Scope /\ \A n \in Names : NewScope[n] = NoDef
  BY DEF NewScope, Scope
<1>5. Env \in Scope /\ \A n \in Names : Env[n] \in {local[n], scope[n]} /\ (~InBlock => Env[n] = scope[n])
  BY DEF TypeOK, Env, Scope
<1>6. Snapshot \in Scope /\ \A n \in Names : Snapshot[n] \in {NoDef, Env[n]}
  BY <1>5 DEF Snapshot, Scope
<1> QED
  BY <1>1, <1>2, <1>3, <1>4, <1>5, <1>6

\* A call of parse adds a frame to the active ones.
LEMMA PushShape ==
    ASSUME TypeOK, NEW frame \in Frame, Push(frame)
    PROVE  /\ stack' \in Seq(Frame) /\ Len(stack) \in Nat /\ Len(stack') = Len(stack) + 1
           /\ DOMAIN stack = 1..Len(stack) /\ DOMAIN stack' = 1..(Len(stack) + 1)
           /\ \A d \in 1..Len(stack) : stack'[d] = stack[d]
           /\ stack'[Len(stack) + 1] = frame
           /\ Top' = frame
<1>1. stack \in Seq(Frame) /\ stack' = Append(stack, frame)
  BY DEF TypeOK, Push
<1>2. /\ stack' \in Seq(Frame) /\ Len(stack') = Len(stack) + 1
      /\ \A d \in 1..Len(stack) : stack'[d] = stack[d]
      /\ stack'[Len(stack) + 1] = frame
  BY <1>1, AppendProperties
<1>3. /\ Len(stack) \in Nat /\ DOMAIN stack = 1..Len(stack)
      /\ DOMAIN stack' = 1..(Len(stack) + 1)
  BY <1>1, <1>2, LenProperties
<1> QED
  BY <1>2, <1>3 DEF Top

\* A return from parse takes the innermost one away.
LEMMA PopShape ==
    ASSUME TypeOK, Len(stack) > 0, Pop
    PROVE  /\ stack' \in Seq(Frame) /\ Len(stack) \in Nat /\ Len(stack') = Len(stack) - 1
           /\ DOMAIN stack = 1..Len(stack) /\ DOMAIN stack' = 1..(Len(stack) - 1)
           /\ \A d \in 1..(Len(stack) - 1) : stack'[d] = stack[d]
           /\ Len(stack) > 1 => Top' = stack[Len(stack) - 1]
<1>1. /\ stack \in Seq(Frame) /\ Len(stack) \in Nat /\ DOMAIN stack = 1..Len(stack)
      /\ \A d \in 1..(Len(stack) - 1) : stack[d] \in Frame
      /\ stack' = SubSeq(stack, 1, Len(stack) - 1)
  BY DEF TypeOK, Pop
<1>2. /\ stack' \in Seq(Frame)
      /\ Len(stack') = IF 1 <= Len(stack) - 1 THEN (Len(stack) - 1) - 1 + 1 ELSE 0
      /\ \A d \in 1..((Len(stack) - 1) - 1 + 1) : stack'[d] = stack[1 + d - 1]
  BY <1>1, SubSeqProperties
<1>3. Len(stack') = Len(stack) - 1 /\ \A d \in 1..(Len(stack) - 1) : stack'[d] = stack[d]
  BY <1>1, <1>2
<1>4. DOMAIN stack' = 1..(Len(stack) - 1)
  BY <1>2, <1>3, LenProperties
<1> QED
  BY <1>1, <1>2, <1>3, <1>4 DEF Top

\* A frame with another field is a frame.
LEMMA FieldLemma ==
    ASSUME NEW t \in Frame
    PROVE  /\ \A k \in {"file", "macro", "block"} : [t EXCEPT !.kind = k] \in Frame
           /\ \A f \in Files \cup {NoFile} : [t EXCEPT !.file = f] \in Frame
           /\ \A n \in Nat : [t EXCEPT !.includeDepth = n] \in Frame
           /\ \A n \in Nat : [t EXCEPT !.macroDepth = n] \in Frame
           /\ [t EXCEPT !.inBlock = TRUE] \in Frame
           /\ \A d \in Def : [t EXCEPT !.def = d] \in Frame
           /\ \A d \in Def : [t EXCEPT !.at = d] \in Frame
<1>1. \A k \in {"file", "macro", "block"} : [t EXCEPT !.kind = k] \in Frame
  BY DEF Frame
<1>2. \A f \in Files \cup {NoFile} : [t EXCEPT !.file = f] \in Frame
  BY DEF Frame
<1>3. \A n \in Nat : [t EXCEPT !.includeDepth = n] \in Frame
  BY DEF Frame
<1>4. \A n \in Nat : [t EXCEPT !.macroDepth = n] \in Frame
  BY DEF Frame
<1>5. [t EXCEPT !.inBlock = TRUE] \in Frame
  BY DEF Frame
<1>6. \A d \in Def : [t EXCEPT !.def = d] \in Frame
  BY DEF Frame
<1>7. \A d \in Def : [t EXCEPT !.at = d] \in Frame
  BY DEF Frame
<1> QED
  BY <1>1, <1>2, <1>3, <1>4, <1>5, <1>6, <1>7

\* The frame of an included file.
LEMMA FileFrame ==
    ASSUME NEW t \in Frame, NEW f \in Files
    PROVE  LET g == [t EXCEPT !.kind = "file", !.file = f, !.includeDepth = @ + 1]
           IN  /\ g \in Frame /\ g.kind = "file" /\ g.file = f
               /\ g.includeDepth = t.includeDepth + 1 /\ g.macroDepth = t.macroDepth
               /\ g.inBlock = t.inBlock
<1> DEFINE g == [t EXCEPT !.kind = "file", !.file = f, !.includeDepth = @ + 1]
<1>1. t.includeDepth + 1 \in Nat
  BY DEF Frame
<1>2. g \in Frame
  BY <1>1, FieldLemma
<1>3. g.kind = "file" /\ g.file = f /\ g.inBlock = t.inBlock
  BY DEF Frame
<1>4. g.includeDepth = t.includeDepth + 1 /\ g.macroDepth = t.macroDepth
  BY DEF Frame
<1> QED
  BY <1>2, <1>3, <1>4

\* The frame of a block.
LEMMA BlockFrame ==
    ASSUME NEW t \in Frame
    PROVE  LET g == [t EXCEPT !.kind = "block", !.file = NoFile, !.inBlock = TRUE]
           IN  /\ g \in Frame /\ g.kind = "block"
               /\ g.includeDepth = t.includeDepth /\ g.macroDepth = t.macroDepth
               /\ g.inBlock = TRUE
<1> DEFINE g == [t EXCEPT !.kind = "block", !.file = NoFile, !.inBlock = TRUE]
<1>1. g \in Frame
  BY FieldLemma
<1>2. g.kind = "block" /\ g.inBlock = TRUE
  BY DEF Frame
<1>3. g.includeDepth = t.includeDepth /\ g.macroDepth = t.macroDepth
  BY DEF Frame
<1> QED
  BY <1>1, <1>2, <1>3

----------------------------------------------------------------------------
(* The nesting of the calls *)

\* A call keeps the frames below it, and is counted among those of its kind.
LEMMA PushCounts ==
    ASSUME TypeOK, Len(stack) > 0, NEW frame \in Frame, Push(frame), NEW k
    PROVE  /\ \A d \in 1..Len(stack) : FramesUpTo(k, d)' = FramesUpTo(k, d)
           /\ FramesOf(k) = FramesUpTo(k, Len(stack))
           /\ frame.kind = k =>
                  /\ FramesOf(k)' = FramesOf(k) \cup {Len(stack) + 1}
                  /\ Cardinality(FramesOf(k)') = Cardinality(FramesOf(k)) + 1
           /\ frame.kind # k => FramesOf(k)' = FramesOf(k)
<1>0. PICK n : n = Len(stack)
  OBVIOUS
<1>1. /\ n \in Nat /\ DOMAIN stack = 1..n /\ DOMAIN stack' = 1..(n + 1)
      /\ \A d \in 1..n : stack'[d] = stack[d]
      /\ stack'[n + 1] = frame
  BY <1>0, PushShape
<1>2. FramesOf(k)' = FramesOf(k) \cup (IF frame.kind = k THEN {n + 1} ELSE {})
  BY <1>1 DEF FramesOf
<1>3. FramesOf(k) \subseteq 1..n
  BY <1>1 DEF FramesOf
<1>4. \A d \in 1..n : FramesUpTo(k, d)' = FramesUpTo(k, d)
  BY <1>1, <1>2, <1>3 DEF FramesUpTo
<1>5. FramesUpTo(k, n) = FramesOf(k)
  BY <1>1, <1>3 DEF FramesUpTo
<1>6. IsFiniteSet(FramesOf(k)) /\ n + 1 \notin FramesOf(k)
  <2>1. IsFiniteSet(1..n)
    BY <1>1, FS_Interval
  <2> QED
    BY <1>1, <1>3, <2>1, FS_Subset
<1>7. Cardinality(FramesOf(k) \cup {n + 1}) = Cardinality(FramesOf(k)) + 1
  BY <1>6, FS_AddElement
<1> QED
  BY <1>0, <1>2, <1>4, <1>5, <1>7

\* A return keeps the frames below the innermost one.
LEMMA PopCounts ==
    ASSUME TypeOK, Len(stack) > 0, Pop, NEW k, NEW n, n = Len(stack)
    PROVE  /\ FramesOf(k)' = FramesOf(k) \ {n}
           /\ \A d \in 1..(n - 1) : FramesUpTo(k, d)' = FramesUpTo(k, d)
<1>1. /\ n \in Nat /\ DOMAIN stack = 1..n /\ DOMAIN stack' = 1..(n - 1)
      /\ \A d \in 1..(n - 1) : stack'[d] = stack[d]
  BY PopShape
<1>2. FramesOf(k)' = FramesOf(k) \ {n}
  BY <1>1 DEF FramesOf
<1>3. \A d \in 1..(n - 1) : FramesUpTo(k, d)' = FramesUpTo(k, d)
  BY <1>1, <1>2 DEF FramesUpTo, FramesOf
<1> QED
  BY <1>2, <1>3

\* What parse checks before a call is enough for the nesting to stay what it is: a
\* file is not active yet, a block is opened in no block, and the depths that the
\* callee is given are within their bounds.
LEMMA PushStack ==
    ASSUME TypeOK, StackOK, NEW frame \in Frame, Push(frame),
           frame.includeDepth = Top.includeDepth + (IF frame.kind = "file" THEN 1 ELSE 0),
           frame.macroDepth = Top.macroDepth + (IF frame.kind = "macro" THEN 1 ELSE 0),
           frame.includeDepth <= MaxInclude, frame.macroDepth <= MaxMacro,
           frame.inBlock <=> Top.inBlock \/ frame.kind = "block",
           frame.kind = "block" => ~Top.inBlock,
           frame.kind = "file" =>
               frame.file \notin activeFiles /\ activeFiles' = activeFiles \cup {frame.file},
           frame.kind # "file" => activeFiles' = activeFiles,
           frame.inBlock => ~disabled'
    PROVE  StackOK'
<1>0. PICK n : n = Len(stack)
  OBVIOUS
<1>1. /\ n \in Nat /\ n > 0 /\ DOMAIN stack = 1..n /\ DOMAIN stack' = 1..(n + 1)
      /\ Len(stack') = n + 1
      /\ \A d \in 1..n : stack'[d] = stack[d]
      /\ stack'[n + 1] = frame
      /\ Top' = frame /\ Top = stack[n]
  BY <1>0, PushShape DEF StackOK, Top
<1>2. \A k : /\ \A d \in 1..n : FramesUpTo(k, d)' = FramesUpTo(k, d)
             /\ FramesOf(k) = FramesUpTo(k, n)
             /\ frame.kind = k =>
                    /\ FramesOf(k)' = FramesOf(k) \cup {n + 1}
                    /\ Cardinality(FramesOf(k)') = Cardinality(FramesOf(k)) + 1
             /\ frame.kind # k => FramesOf(k)' = FramesOf(k)
  BY <1>0, PushCounts DEF StackOK
<1>3. \A k : FramesOf(k) \subseteq 1..n
  BY <1>1 DEF FramesOf
<1>4. activeFiles' = {stack'[d].file : d \in FramesOf("file")'}
  <2>1. activeFiles = {stack[d].file : d \in FramesOf("file")}
    BY DEF StackOK
  <2>2. {stack'[d].file : d \in FramesOf("file")} = {stack[d].file : d \in FramesOf("file")}
    BY <1>1, <1>3
  <2>3. CASE frame.kind = "file"
    <3>1. FramesOf("file")' = FramesOf("file") \cup {n + 1}
      BY <1>2, <2>3
    <3> QED
      BY ZenonT(30), <1>1, <2>1, <2>2, <2>3, <3>1
  <2>4. CASE frame.kind # "file"
    <3>1. FramesOf("file")' = FramesOf("file")
      BY <1>2, <2>4
    <3> QED
      BY <2>1, <2>2, <2>4, <3>1
  <2> QED
    BY <2>3, <2>4
<1>5. \A d, e \in FramesOf("file")' : stack'[d].file = stack'[e].file => d = e
  <2>1. \A d \in FramesOf("file") : stack'[d].file = stack[d].file /\ stack[d].file \in activeFiles
    BY <1>1, <1>3 DEF StackOK
  <2>2. \A d, e \in FramesOf("file") : stack[d].file = stack[e].file => d = e
    BY DEF StackOK
  <2> QED
    BY <1>1, <1>2, <2>1, <2>2
<1>6. \A d \in FramesOf("block") : Top.inBlock
  BY <1>1, <1>3 DEF StackOK, FrameOK
<1>7. \A d, e \in FramesOf("block")' : d = e
  BY <1>2, <1>6 DEF StackOK
<1>8. ASSUME NEW d \in 1..n
      PROVE  FrameOK(d)'
  <2>1. (\E e \in FramesOf("block")' : e <= d) <=> (\E e \in FramesOf("block") : e <= d)
    BY <1>1, <1>2
  <2>2. FrameOK(d) /\ stack'[d] = stack[d]
    BY <1>1 DEF StackOK
  <2> QED
    BY <1>2, <2>1, <2>2 DEF FrameOK
<1>9. FrameOK(n + 1)'
  <2>1. FrameOK(n)
    BY <1>1 DEF StackOK
  <2>2. Top.includeDepth \in Nat /\ Top.macroDepth \in Nat
    BY TopLemma DEF StackOK, Frame
  <2>3. frame.inBlock <=> (\E e \in FramesOf("block")' : e <= n + 1)
    <3>1. Top.inBlock <=> (\E e \in FramesOf("block") : e <= n)
      BY <1>1, <2>1 DEF FrameOK
    <3>2. (\E e \in FramesOf("block")' : e <= n + 1)
              <=> (\E e \in FramesOf("block") : e <= n) \/ frame.kind = "block"
      BY <1>1, <1>2, <1>3
    <3> QED
      BY <3>1, <3>2
  <2>4. \A k : FramesUpTo(k, n + 1)' = FramesOf(k)'
    BY <1>1, <1>2, <1>3 DEF FramesUpTo
  <2>5. frame.macroDepth = Cardinality(FramesUpTo("macro", n + 1)')
    <3>1. Top.macroDepth = Cardinality(FramesOf("macro"))
      BY <1>1, <1>2, <2>1 DEF FrameOK
    <3>2. frame.macroDepth = Cardinality(FramesOf("macro")')
      BY <1>2, <2>2, <3>1
    <3> QED
      BY <2>4, <3>2
  <2>6. frame.includeDepth = Cardinality(FramesUpTo("file", n + 1)') - 1
    <3>1. IsFiniteSet(1..n)
      BY <1>1, FS_Interval
    <3>2. Cardinality(FramesOf("file")) \in Nat
      BY <1>3, <3>1, FS_Subset, FS_CardinalityType
    <3>3. Cardinality(FramesOf("file")) = Top.includeDepth + 1
      BY <1>1, <1>2, <2>1, <2>2, <3>2 DEF FrameOK
    <3>4. frame.includeDepth = Cardinality(FramesOf("file")') - 1
      BY <1>2, <2>2, <3>3
    <3> QED
      BY <2>4, <3>4
  <2>7. stack'[n + 1] = frame
    BY <1>1
  <2> QED
    BY <2>3, <2>5, <2>6, <2>7 DEF FrameOK
<1>10. Len(stack') > 0 /\ stack'[1].kind = "file"
  BY <1>1 DEF StackOK
<1>11. \A d \in DOMAIN stack' : FrameOK(d)'
  <2>1. \A d \in 1..(n + 1) : d \in 1..n \/ d = n + 1
    BY <1>1
  <2> QED
    BY <1>1, <1>8, <1>9, <2>1
<1>12. InBlock' => ~disabled'
  BY <1>1 DEF InBlock
<1> QED
  BY <1>4, <1>5, <1>7, <1>10, <1>11, <1>12 DEF StackOK

\* After a return the nesting is what it was before the call: the innermost file is
\* no longer active, and no block is open when the block has been left.
LEMMA PopStack ==
    ASSUME TypeOK, StackOK, Len(stack) > 1, Pop,
           activeFiles' = (IF Top.kind = "file" THEN activeFiles \ {Top.file} ELSE activeFiles),
           disabled' = disabled
    PROVE  StackOK' /\ (InBlock' <=> InBlock /\ Top.kind # "block")
<1>0. PICK n : n = Len(stack)
  OBVIOUS
<1>1. /\ n \in Nat /\ n > 1 /\ DOMAIN stack = 1..n /\ DOMAIN stack' = 1..(n - 1)
      /\ Len(stack') = n - 1
      /\ \A d \in 1..(n - 1) : stack'[d] = stack[d]
      /\ Top' = stack[n - 1] /\ Top = stack[n]
  BY <1>0, PopShape DEF Top
<1>2. \A k : /\ FramesOf(k)' = FramesOf(k) \ {n}
             /\ \A d \in 1..(n - 1) : FramesUpTo(k, d)' = FramesUpTo(k, d)
             /\ (n \in FramesOf(k) <=> Top.kind = k)
             /\ FramesOf(k) \subseteq 1..n
  <2>1. \A k : (n \in FramesOf(k) <=> Top.kind = k) /\ FramesOf(k) \subseteq 1..n
    BY <1>1 DEF FramesOf
  <2> QED
    BY SMTT(30), <1>0, <1>1, <2>1, PopCounts
<1>3. activeFiles' = {stack'[d].file : d \in FramesOf("file")'}
  <2>1. /\ activeFiles = {stack[d].file : d \in FramesOf("file")}
        /\ \A d, e \in FramesOf("file") : stack[d].file = stack[e].file => d = e
    BY DEF StackOK
  <2>2. \A d \in FramesOf("file") \ {n} : stack'[d].file = stack[d].file
    BY <1>1, <1>2
  <2>3. CASE Top.kind = "file"
    BY <1>1, <1>2, <2>1, <2>2, <2>3
  <2>4. CASE Top.kind # "file"
    BY <1>1, <1>2, <2>1, <2>2, <2>4
  <2> QED
    BY <2>3, <2>4
<1>4. /\ \A d, e \in FramesOf("file")' : stack'[d].file = stack'[e].file => d = e
      /\ \A d, e \in FramesOf("block")' : d = e
  <2>1. \A d \in FramesOf("file") \ {n} : stack'[d].file = stack[d].file
    BY <1>1, <1>2
  <2> QED
    BY <1>2, <2>1 DEF StackOK
<1>5. ASSUME NEW d \in 1..(n - 1)
      PROVE  FrameOK(d)'
  <2>1. (\E e \in FramesOf("block")' : e <= d) <=> (\E e \in FramesOf("block") : e <= d)
    BY <1>1, <1>2
  <2>2. FrameOK(d) /\ stack'[d] = stack[d]
    BY <1>1 DEF StackOK
  <2> QED
    BY <1>2, <2>1, <2>2 DEF FrameOK
<1>6. InBlock' <=> InBlock /\ Top.kind # "block"
  <2>1. /\ InBlock' <=> (\E e \in FramesOf("block") : e <= n - 1)
        /\ InBlock <=> (\E e \in FramesOf("block") : e <= n)
    BY <1>1 DEF StackOK, FrameOK, InBlock
  <2>2. \A d, e \in FramesOf("block") : d = e
    BY DEF StackOK
  <2> QED
    BY <1>1, <1>2, <2>1, <2>2
<1>7. Len(stack') > 0 /\ stack'[1].kind = "file"
  BY <1>1 DEF StackOK
<1>8. \A d \in DOMAIN stack' : FrameOK(d)'
  BY <1>1, <1>5
<1>9. InBlock' => ~disabled'
  BY <1>6 DEF StackOK
<1> QED
  BY <1>3, <1>4, <1>6, <1>7, <1>8, <1>9 DEF StackOK

----------------------------------------------------------------------------
(* The log *)

\* An entry for the section that is opened with it, or for an include, keeps the log
\* complete and nested, when it is no deeper than the entry before it allows.
LEMMA LogEntry ==
    ASSUME TypeOK, LogFollowsSections, NEW entry \in Entry, log' = Append(log, entry),
           entry.depth <= LogDepth,
           Len(sections') \in Nat,
           entry.include => Len(sections') = Len(sections),
           ~entry.include => Len(sections') = Len(sections) + 1 /\ entry.section = Len(sections')
    PROVE  /\ log' \in Seq(Entry) /\ LogFollowsSections'
           /\ LogDepth' = entry.depth + (IF entry.include THEN 1 ELSE 0)
<1>0. PICK n : n = Len(log)
  OBVIOUS
<1>1. /\ log' \in Seq(Entry) /\ Len(log') = n + 1 /\ n \in Nat
      /\ DOMAIN log = 1..n /\ DOMAIN log' = 1..(n + 1)
      /\ \A k \in 1..n : log'[k] = log[k] /\ log[k] \in Entry
      /\ log'[n + 1] = entry /\ log' # <<>>
      /\ (log = <<>> <=> n = 0)
  <2>1. log \in Seq(Entry) /\ n \in Nat /\ DOMAIN log = 1..n /\ (log = <<>> <=> n = 0)
        /\ \A k \in 1..n : log[k] \in Entry
    BY <1>0, EmptySeq, LenProperties, ElementOfSeq DEF TypeOK
  <2>2. /\ log' \in Seq(Entry) /\ Len(log') = n + 1 /\ log' # <<>>
        /\ \A k \in 1..n : log'[k] = log[k]
        /\ log'[n + 1] = entry
    BY <1>0, <2>1, AppendProperties
  <2>3. DOMAIN log' = 1..(n + 1)
    BY <2>2, LenProperties
  <2> QED
    BY <2>1, <2>2, <2>3
<1>2. LogDepth' = entry.depth + (IF entry.include THEN 1 ELSE 0)
  BY <1>1 DEF LogDepth
<1>3. SectionEntries' = SectionEntries \cup (IF entry.include THEN {} ELSE {n + 1})
  BY <1>1 DEF SectionEntries
<1>4. SectionEntries \subseteq 1..n
  BY <1>1 DEF SectionEntries
<1>5. IsFiniteSet(SectionEntries) /\ n + 1 \notin SectionEntries
  <2>1. IsFiniteSet(1..n)
    BY <1>1, FS_Interval
  <2>2. IsFiniteSet(SectionEntries)
    BY <1>4, <2>1, FS_Subset
  <2>3. n + 1 \notin SectionEntries
    BY <1>1, <1>4
  <2> QED
    BY <2>2, <2>3
<1>6. Cardinality(SectionEntries \cup {n + 1}) = Cardinality(SectionEntries) + 1
  BY <1>5, FS_AddElement
<1>7. Cardinality(SectionEntries') = Len(sections')
  <2>1. Cardinality(SectionEntries) = Len(sections)
    BY DEF LogFollowsSections
  <2>2. CASE entry.include
    <3>1. SectionEntries' = SectionEntries
      BY <1>3, <2>2
    <3> QED
      BY <2>1, <2>2, <3>1
  <2>3. CASE ~entry.include
    <3>1. SectionEntries' = SectionEntries \cup {n + 1}
      BY <1>3, <2>3
    <3> QED
      BY <1>6, <2>1, <2>3, <3>1
  <2> QED
    BY <2>2, <2>3
<1>8. \A k \in SectionEntries' :
          log'[k].section = Cardinality({j \in SectionEntries' : j <= k})
  <2>1. ASSUME NEW k \in SectionEntries
        PROVE  log'[k].section = Cardinality({j \in SectionEntries' : j <= k})
    <3>1. log[k].section = Cardinality({j \in SectionEntries : j <= k})
      BY DEF LogFollowsSections
    <3>2. {j \in SectionEntries' : j <= k} = {j \in SectionEntries : j <= k}
      BY <1>1, <1>3, <1>4
    <3> QED
      BY <1>1, <1>4, <3>1, <3>2
  <2>2. ~entry.include => log'[n + 1].section = Cardinality({j \in SectionEntries' : j <= n + 1})
    <3>1. \A j \in SectionEntries' : j <= n + 1
      BY <1>1, <1>3, <1>4
    <3>2. {j \in SectionEntries' : j <= n + 1} = SectionEntries'
      BY <3>1
    <3> QED
      BY <1>1, <1>7, <3>2
  <2> QED
    BY <1>3, <2>1, <2>2
<1> DEFINE Nested(k) ==
        log'[k].depth <= IF k = 1 THEN 0
                         ELSE log'[k - 1].depth + (IF log'[k - 1].include THEN 1 ELSE 0)
<1>9. \A k \in DOMAIN log' : Nested(k)
  <2>1. ASSUME NEW k \in 1..n
        PROVE  Nested(k)
    <3>1. log[k].depth <= IF k = 1 THEN 0
                          ELSE log[k - 1].depth + (IF log[k - 1].include THEN 1 ELSE 0)
      BY <1>1 DEF LogFollowsSections
    <3>2. k # 1 => k - 1 \in 1..n
      BY <1>1
    <3> QED
      BY <1>1, <3>1, <3>2
  <2>2. Nested(n + 1)
    <3>1. LogDepth = IF n = 0 THEN 0 ELSE log[n].depth + (IF log[n].include THEN 1 ELSE 0)
      BY <1>0, <1>1 DEF LogDepth
    <3>2. n # 0 => n \in 1..n
      BY <1>1
    <3> QED
      BY <1>1, <3>1, <3>2
  <2> HIDE DEF Nested
  <2>3. \A k \in DOMAIN log' : k \in 1..n \/ k = n + 1
    BY <1>1
  <2> QED
    BY <2>1, <2>2, <2>3
<1> QED
  BY <1>1, <1>2, <1>7, <1>8, <1>9 DEF LogFollowsSections

\* Without an entry and without a section the log stays what it is.
LEMMA LogSame ==
    ASSUME LogFollowsSections, log' = log, Len(sections') = Len(sections)
    PROVE  LogFollowsSections' /\ LogDepth' = LogDepth
  BY DEF LogFollowsSections, SectionEntries, LogDepth

----------------------------------------------------------------------------
(* The sections *)

\* A title appends an empty section.
LEMMA NewSectionShape ==
    ASSUME TypeOK, NEW how \in {"title", "statement"}, NewSection(how)
    PROVE  /\ sections' \in Seq(Section) /\ Len(sections') = Len(sections) + 1
           /\ Len(sections) \in Nat /\ DOMAIN sections = 1..Len(sections)
           /\ DOMAIN sections' = 1..(Len(sections) + 1)
           /\ \A k \in 1..Len(sections) : sections'[k] = sections[k]
           /\ sections'[Len(sections) + 1].nodes = <<>>
<1>1. sections \in Seq(Section) /\ Len(sections) \in Nat /\ DOMAIN sections = 1..Len(sections)
  BY LenProperties DEF TypeOK
<1>2. [opened |-> how, nodes |-> <<>>] \in Section
  BY EmptySeq DEF Section
<1>3. sections' = Append(sections, [opened |-> how, nodes |-> <<>>])
  BY DEF NewSection
<1>4. /\ sections' \in Seq(Section) /\ Len(sections') = Len(sections) + 1
      /\ \A k \in 1..Len(sections) : sections'[k] = sections[k]
      /\ sections'[Len(sections) + 1] = [opened |-> how, nodes |-> <<>>]
  BY <1>1, <1>2, <1>3, AppendProperties
<1>5. DOMAIN sections' = 1..(Len(sections) + 1)
  BY <1>1, <1>4, LenProperties
<1> QED
  BY <1>1, <1>4, <1>5

\* Nodes go to the last section, which is opened for them if there is none.
LEMMA AppendNodesShape ==
    ASSUME TypeOK, NEW ns \in Seq(Node), AppendNodes(ns)
    PROVE  /\ sections' \in Seq(Section)
           /\ Len(sections') = (IF sections = <<>> THEN 1 ELSE Len(sections))
           /\ Len(sections) \in Nat /\ (sections = <<>> <=> Len(sections) = 0)
           /\ DOMAIN sections = 1..Len(sections) /\ DOMAIN sections' = 1..Len(sections')
           /\ \A k \in 1..Len(sections) : sections'[k].opened = sections[k].opened
           /\ sections = <<>> => sections'[1].opened = "implicit"
           /\ \A k \in DOMAIN sections' : \A j \in DOMAIN sections'[k].nodes :
                  \/ /\ k \in DOMAIN sections /\ j \in DOMAIN sections[k].nodes
                     /\ sections'[k].nodes[j] = sections[k].nodes[j]
                  \/ /\ k = Len(sections')
                     /\ \E i \in DOMAIN ns : sections'[k].nodes[j] = ns[i]
<1>0. PICK n : n = Len(sections)
  OBVIOUS
<1>1. /\ sections \in Seq(Section) /\ n \in Nat /\ DOMAIN sections = 1..n
      /\ (sections = <<>> <=> n = 0)
      /\ \A k \in 1..n : sections[k] \in Section
  BY <1>0, EmptySeq, LenProperties, ElementOfSeq DEF TypeOK
<1>2. CASE sections = <<>>
  <2> DEFINE new == [opened |-> "implicit", nodes |-> ns]
  <2>1. sections' = <<new>> /\ new \in Section
    BY <1>2 DEF AppendNodes, Section
  <2>2. /\ sections' \in Seq(Section) /\ Len(sections') = 1 /\ DOMAIN sections' = 1..1
        /\ sections'[1] = new
    BY <2>1
  <2>3. sections'[1].opened = "implicit" /\ sections'[1].nodes = ns
    BY <2>2
  <2>4. \A k \in DOMAIN sections' : k = 1
    BY <2>2
  <2> QED
    BY <1>0, <1>1, <1>2, <2>2, <2>3, <2>4
<1>3. CASE sections # <<>>
  <2> DEFINE old == sections[n]
             joined == old.nodes \o ns
             new == [old EXCEPT !.nodes = joined]
  <2>1. n \in 1..n /\ old \in Section
    BY <1>1, <1>3
  <2>2. old.nodes \in Seq(Node)
    BY <2>1 DEF Section
  <2>3. /\ joined \in Seq(Node) /\ Len(old.nodes) \in Nat /\ Len(ns) \in Nat
        /\ Len(joined) = Len(old.nodes) + Len(ns)
        /\ DOMAIN old.nodes = 1..Len(old.nodes) /\ DOMAIN ns = 1..Len(ns)
        /\ \A j \in 1..(Len(old.nodes) + Len(ns)) :
               joined[j] = IF j <= Len(old.nodes) THEN old.nodes[j] ELSE ns[j - Len(old.nodes)]
        /\ DOMAIN joined = 1..(Len(old.nodes) + Len(ns))
    BY <2>2, ConcatProperties, LenProperties
  <2> HIDE DEF joined
  <2>4. new \in Section /\ new.nodes = joined /\ new.opened = old.opened
    BY <2>1, <2>3 DEF Section
  <2>5. sections' = [sections EXCEPT ![n] = new]
    BY <1>0, <1>3 DEF AppendNodes, joined
  <2> HIDE DEF new, old
  <2>6. /\ sections' \in Seq(Section) /\ Len(sections') = n
        /\ \A k \in 1..n : sections'[k] = IF k = n THEN new ELSE sections[k]
    BY <1>0, <1>1, <2>1, <2>4, <2>5, ExceptSeq
  <2>7. DOMAIN sections' = 1..n
    BY <2>6, LenProperties
  <2>8. \A k \in 1..n : sections'[k].opened = sections[k].opened
    BY <2>4, <2>6 DEF old
  <2>9. ASSUME NEW j \in DOMAIN new.nodes
        PROVE  \/ j \in DOMAIN old.nodes /\ new.nodes[j] = old.nodes[j]
               \/ \E i \in DOMAIN ns : new.nodes[j] = ns[i]
    <3>1. CASE j <= Len(old.nodes)
      BY <2>3, <2>4, <2>9, <3>1
    <3>2. CASE ~(j <= Len(old.nodes))
      <4>1. j - Len(old.nodes) \in DOMAIN ns
        BY <2>3, <2>4, <2>9, <3>2
      <4>2. new.nodes[j] = ns[j - Len(old.nodes)]
        BY <2>3, <2>4, <2>9, <3>2
      <4> QED
        BY <4>1, <4>2
    <3> QED
      BY <3>1, <3>2
  <2>10. ASSUME NEW k \in DOMAIN sections', NEW j \in DOMAIN sections'[k].nodes
         PROVE  \/ /\ k \in DOMAIN sections /\ j \in DOMAIN sections[k].nodes
                   /\ sections'[k].nodes[j] = sections[k].nodes[j]
                \/ /\ k = Len(sections')
                   /\ \E i \in DOMAIN ns : sections'[k].nodes[j] = ns[i]
    BY <1>1, <2>6, <2>7, <2>9, <2>10 DEF old
  <2> QED
    BY <1>0, <1>1, <1>3, <2>6, <2>7, <2>8, <2>10
<1> QED
  BY <1>2, <1>3

----------------------------------------------------------------------------
(* What a step leaves alone *)

\* What is said of the calls stays true while they and the active files do not change.
LEMMA StackSame ==
    ASSUME StackOK, stack' = stack, activeFiles' = activeFiles, InBlock => ~disabled'
    PROVE  StackOK' /\ (InBlock' <=> InBlock) /\ Top' = Top
<1>1. Top' = Top /\ (InBlock' <=> InBlock)
  BY DEF Top, InBlock
<1>2. \A k : FramesOf(k)' = FramesOf(k)
  BY DEF FramesOf
<1>3. \A k, d : FramesUpTo(k, d)' = FramesUpTo(k, d)
  BY <1>2 DEF FramesUpTo
<1>4. ASSUME NEW d \in DOMAIN stack
      PROVE  FrameOK(d)'
  <2>1. FrameOK(d)
    BY DEF StackOK
  <2> QED
    BY <1>2, <1>3, <2>1 DEF FrameOK
<1> QED
  BY <1>1, <1>2, <1>4 DEF StackOK

\* The include depth of the last log entry is a number.
LEMMA LogDepthType == TypeOK => LogDepth \in Nat
<1> SUFFICES ASSUME TypeOK, log # <<>>
             PROVE  LogDepth \in Nat
  BY DEF LogDepth
<1>1. Len(log) \in 1..Len(log) /\ log \in Seq(Entry)
  BY EmptySeq DEF TypeOK
<1>2. log[Len(log)] \in Entry
  BY <1>1, ElementOfSeq
<1> QED
  BY <1>2 DEF LogDepth, Entry

\* No call is nested deeper than the log shows, for the innermost one is the deepest.
LEMMA DepthSame ==
    ASSUME TypeOK, StackOK, DepthOK, stack' = stack,
           LogDepth' = LogDepth \/ LogDepth' = Top.includeDepth
    PROVE  DepthOK'
<1>1. \A d \in DOMAIN stack : stack[d].includeDepth <= Top.includeDepth
  BY TopLemma DEF StackOK, DepthOK, Top
<1> QED
  BY <1>1 DEF DepthOK

\* A return leaves no call deeper than the log shows.
LEMMA DepthPop ==
    ASSUME TypeOK, StackOK, DepthOK, Pop,
           LogDepth' = LogDepth \/ LogDepth' = Top.includeDepth
    PROVE  DepthOK'
<1>1. \A d \in DOMAIN stack : stack[d].includeDepth <= Top.includeDepth
  BY TopLemma DEF StackOK, DepthOK, Top
<1>2. \A d \in DOMAIN stack' : d \in DOMAIN stack /\ stack'[d] = stack[d]
  BY PopShape DEF StackOK
<1> QED
  BY <1>1, <1>2 DEF DepthOK

\* Nor does a call that is as deep as its own log entry says.
LEMMA DepthPush ==
    ASSUME TypeOK, StackOK, DepthOK, NEW frame \in Frame, Push(frame),
           frame.includeDepth >= Top.includeDepth, frame.includeDepth <= LogDepth',
           LogDepth' \in Nat, LogDepth' = LogDepth \/ LogDepth' >= Top.includeDepth
    PROVE  DepthOK'
<1>0. PICK n : n = Len(stack)
  OBVIOUS
<1>1. \A d \in DOMAIN stack : stack[d].includeDepth \in Nat /\ stack[d].includeDepth <= Top.includeDepth
  BY TopLemma DEF StackOK, DepthOK, Top, Frame
<1>2. /\ n \in Nat /\ DOMAIN stack = 1..n /\ DOMAIN stack' = 1..(n + 1)
      /\ \A d \in 1..n : stack'[d] = stack[d]
      /\ stack'[n + 1] = frame
  BY <1>0, PushShape
<1>3. /\ Top.includeDepth \in Nat /\ frame.includeDepth \in Nat
      /\ \A d \in DOMAIN stack : stack[d].includeDepth <= LogDepth
  BY TopLemma DEF StackOK, DepthOK, Frame
<1>4. \A d \in DOMAIN stack : stack[d].includeDepth <= LogDepth'
  BY <1>1, <1>3
<1> QED
  BY SMTT(30), <1>1, <1>2, <1>3, <1>4 DEF DepthOK

----------------------------------------------------------------------------
(* What can be seen *)

\* How each section was opened is never changed, and none is ever removed.
Grows ==
    /\ Len(sections) \in Nat /\ Len(sections') \in Nat /\ Len(sections) <= Len(sections')
    /\ DOMAIN sections = 1..Len(sections) /\ DOMAIN sections' = 1..Len(sections')
    /\ \A k \in 1..Len(sections) : sections'[k].opened = sections[k].opened

\* A step that leaves the sections alone lets them grow by none.
LEMMA GrowsSame ==
    ASSUME TypeOK, sections' = sections
    PROVE  Grows
  BY LenProperties DEF Grows, TypeOK

\* Nothing defined in no section and no block can be seen anywhere.
LEMMA NewScopeVisible ==
    ASSUME NEW k
    PROVE  Visible(NewScope, k) /\ Visible(NewScope, k)'
  BY DEF Visible, SeenIn, NewScope

\* What a section could see it can see later.
LEMMA SeenStays ==
    ASSUME Grows, NEW def, NEW k \in 0..Len(sections), SeenIn(def, k)
    PROVE  SeenIn(def, k)'
  BY DEF Grows, SeenIn

\* What a scope shows in a section it shows there later.
LEMMA VisibleStays ==
    ASSUME Grows, NEW values, NEW k \in 0..Len(sections), Visible(values, k)
    PROVE  Visible(values, k)'
  BY SeenStays DEF Visible

\* A section that opens itself for a node sees what was defined without a section.
LEMMA SeenGrows ==
    ASSUME Grows, NEW def, NEW m, m = Len(sections'), SeenIn(def, Len(sections)),
           m = Len(sections) \/ (m = 1 /\ Len(sections) = 0 /\ sections'[1].opened = "implicit")
    PROVE  SeenIn(def, m)'
<1>1. CASE m = Len(sections)
  <2>1. m \in 0..Len(sections) /\ SeenIn(def, m)
    BY <1>1 DEF Grows
  <2> QED
    BY <2>1, SeenStays
<1>2. CASE m = 1 /\ Len(sections) = 0 /\ sections'[1].opened = "implicit"
  <2>1. def = NoDef \/ def.section = 0
    BY <1>2 DEF SeenIn
  <2> QED
    BY <1>2, <2>1 DEF SeenIn
<1> QED
  BY <1>1, <1>2

\* The sections keep their names when nodes are added that see only what is visible.
LEMMA SectionsStep ==
    ASSUME SectionsScoped, Grows,
           \A k \in DOMAIN sections' : \A j \in DOMAIN sections'[k].nodes :
               \/ /\ k \in DOMAIN sections /\ j \in DOMAIN sections[k].nodes
                  /\ sections'[k].nodes[j] = sections[k].nodes[j]
               \/ \E values : sections'[k].nodes[j].values = values /\ Visible(values, k)'
    PROVE  SectionsScoped'
<1>1. ASSUME NEW k \in DOMAIN sections', NEW j \in DOMAIN sections'[k].nodes
      PROVE  \E values : sections'[k].nodes[j].values = values /\ Visible(values, k)'
  <2> SUFFICES ASSUME k \in DOMAIN sections, j \in DOMAIN sections[k].nodes,
                      sections'[k].nodes[j] = sections[k].nodes[j]
               PROVE  \E values : sections'[k].nodes[j].values = values /\ Visible(values, k)'
    OBVIOUS
  <2>1. PICK values : values = sections[k].nodes[j].values
    OBVIOUS
  <2>2. Visible(values, k) /\ k \in 0..Len(sections)
    BY <2>1 DEF SectionsScoped, Grows
  <2>3. Visible(values, k)'
    BY <2>2, VisibleStays
  <2> QED
    BY <2>1, <2>3
<1> QED
  BY <1>1 DEF SectionsScoped, Visible

\* Expansions keep seeing their macros.
LEMMA SeenAtCallStays ==
    ASSUME Grows, NEW frame \in Frame, SeenAtCall(frame), frame.at.section <= Len(sections)
    PROVE  SeenAtCall(frame)'
<1>1. frame.at.section \in 0..Len(sections)
  BY DEF Frame, Def, Grows
<1> QED
  BY <1>1, SeenStays DEF SeenAtCall

\* Calls keep knowing what they see when each is an old one or sees what it says.
LEMMA CallsStep ==
    ASSUME TypeOK, CallsOK, Grows, Len(stack) > 0,
           \A d \in DOMAIN stack' :
               \/ d \in DOMAIN stack /\ stack'[d] = stack[d]
               \/ \E frame : /\ stack'[d] = frame /\ frame.at.section <= Len(sections')
                             /\ frame.kind = "macro" => SeenAtCall(frame)'
    PROVE  CallsOK'
<1>1. ASSUME NEW d \in DOMAIN stack'
      PROVE  \E frame : /\ stack'[d] = frame /\ frame.at.section <= Len(sections')
                        /\ frame.kind = "macro" => SeenAtCall(frame)'
  <2> SUFFICES ASSUME d \in DOMAIN stack, stack'[d] = stack[d]
               PROVE  \E frame : /\ stack'[d] = frame /\ frame.at.section <= Len(sections')
                                 /\ frame.kind = "macro" => SeenAtCall(frame)'
    OBVIOUS
  <2>1. PICK frame \in Frame : frame = stack[d]
    BY TopLemma
  <2>2. frame.at.section <= Len(sections) /\ (frame.kind = "macro" => SeenAtCall(frame))
    BY <2>1 DEF CallsOK
  <2>3. frame.at.section <= Len(sections')
    BY <2>2 DEF Grows, Frame, Def
  <2>4. frame.kind = "macro" => SeenAtCall(frame)'
    BY <2>2, SeenAtCallStays
  <2> QED
    BY <2>1, <2>3, <2>4
<1> QED
  BY <1>1 DEF CallsOK, SeenAtCall

\* A statement sees names of its section only, and of its block only.
LEMMA EnvSeen ==
    ASSUME TypeOK, ScopeOK
    PROVE  /\ \A n \in Names : SeenIn(Env[n], Len(sections)) /\ SeenIn(Snapshot[n], Len(sections))
           /\ \A n \in Names : Env[n] # NoDef => Env[n].block \in {0, Here.block}
           /\ \A n \in Names : Snapshot[n] # NoDef => Snapshot[n].block \in {0, Here.block}
<1>1. \A n \in Names : SeenIn(Env[n], Len(sections)) /\ (Env[n] # NoDef => Env[n].block \in {0, Here.block})
  BY ScopeLemma DEF ScopeOK, Visible
<1>2. \A n \in Names : Snapshot[n] \in {NoDef, Env[n]}
  BY ScopeLemma
<1> QED
  BY <1>1, <1>2 DEF SeenIn

\* A definition is seen where it is made.
LEMMA DeclareScope ==
    ASSUME TypeOK, ScopeOK, NEW n \in Names, Declare(n), sections' = sections, blocks' = blocks,
           stack' = stack
    PROVE  scope' \in Scope /\ local' \in Scope /\ ScopeOK'
<1>1. Here \in Def /\ Here.section = Len(sections) /\ Here.block = (IF InBlock THEN blocks ELSE 0)
  BY ScopeLemma
<1>2. InBlock' <=> InBlock
  BY DEF InBlock, Top
<1>3. CASE InBlock
  <2>1. local' = [local EXCEPT ![n] = Here] /\ scope' = scope
    BY <1>3 DEF Declare
  <2>2. local' \in Scope
    BY <1>1, <2>1 DEF TypeOK, Scope
  <2>3. \A m \in Names : local'[m] = IF m = n THEN Here ELSE local[m]
    BY <2>1 DEF TypeOK, Scope
  <2> QED
    BY <1>1, <1>3, <2>1, <2>2, <2>3 DEF ScopeOK, Visible, SeenIn, TypeOK
<1>4. CASE ~InBlock
  <2>1. scope' = [scope EXCEPT ![n] = Here] /\ local' = local
    BY <1>4 DEF Declare
  <2>2. scope' \in Scope
    BY <1>1, <2>1 DEF TypeOK, Scope
  <2>3. \A m \in Names : scope'[m] = IF m = n THEN Here ELSE scope[m]
    BY <2>1 DEF TypeOK, Scope
  <2> QED
    BY <1>1, <1>2, <1>4, <2>1, <2>2, <2>3 DEF ScopeOK, Visible, SeenIn, TypeOK
<1> QED
  BY <1>3, <1>4

----------------------------------------------------------------------------
(* The steps keep the invariant *)

\* Nothing is called, returned from or added to the result outside of blocks.
LEMMA QuietStep ==
    ASSUME WalkInv, phase = "parse",
           UNCHANGED <<implicit, phase, stack, sections, activeFiles, log, blocks>>,
           expanded' \in 0..(Limit + 1), disabled' \in BOOLEAN, InBlock => ~disabled',
           scope' \in Scope, local' \in Scope, target' \in Seq(Inner), inner' \subseteq Inner,
           ScopeOK', BlocksScoped'
    PROVE  WalkInv'
<1>1. TypeOK /\ StackOK /\ DepthOK /\ CallsOK
  BY DEF WalkInv
<1>2. TypeOK'
  BY <1>1 DEF TypeOK
<1>3. LogFollowsSections' /\ LogDepth' = LogDepth
  BY LogSame DEF WalkInv
<1>4. Grows
  BY <1>1, GrowsSame
<1>5. SectionsScoped'
  BY <1>4, SectionsStep DEF WalkInv
<1>6. StackOK' /\ DepthOK'
  BY <1>1, <1>3, StackSame, DepthSame
<1>7. CallsOK'
  BY <1>1, <1>4, CallsStep DEF StackOK
<1> QED
  BY <1>2, <1>3, <1>5, <1>6, <1>7 DEF WalkInv

\* A section begins, outside of blocks.
LEMMA SectionStep ==
    ASSUME WalkInv, phase = "parse", NEW how \in {"title", "statement"}, NewSection(how), ~InBlock,
           UNCHANGED <<implicit, phase, stack, local, target, activeFiles, blocks, inner>>,
           expanded' \in 0..(Limit + 1)
    PROVE  WalkInv'
<1>1. TypeOK /\ StackOK /\ DepthOK /\ CallsOK /\ LogFollowsSections
  BY DEF WalkInv
<1>2. /\ sections' \in Seq(Section) /\ Len(sections') = Len(sections) + 1
      /\ Len(sections) \in Nat /\ DOMAIN sections = 1..Len(sections)
      /\ DOMAIN sections' = 1..(Len(sections) + 1)
      /\ \A k \in 1..Len(sections) : sections'[k] = sections[k]
      /\ sections'[Len(sections) + 1].nodes = <<>>
  BY <1>1, NewSectionShape
<1>3. Grows
  BY <1>2 DEF Grows
<1>4. /\ SectionEntry \in Entry /\ SectionEntry.depth = Top.includeDepth
      /\ ~SectionEntry.include /\ SectionEntry.section = Len(sections) + 1
  BY <1>1, <1>2, TopLemma DEF SectionEntry, Entry, Frame, StackOK
<1>5. Top.includeDepth <= LogDepth
  BY <1>1, TopLemma DEF StackOK, DepthOK, Top
<1>6. log' \in Seq(Entry) /\ LogFollowsSections' /\ LogDepth' = Top.includeDepth
  <2>1. log' = Append(log, SectionEntry) /\ Len(sections') \in Nat
    BY <1>2 DEF NewSection
  <2>2. /\ log' \in Seq(Entry) /\ LogFollowsSections'
        /\ LogDepth' = SectionEntry.depth + (IF SectionEntry.include THEN 1 ELSE 0)
    BY <1>1, <1>2, <1>4, <1>5, <2>1, LogEntry
  <2>3. Top.includeDepth \in Nat
    BY <1>1, TopLemma DEF StackOK, Frame
  <2> QED
    BY <1>4, <2>2, <2>3
<1>7. TypeOK'
  BY <1>1, <1>2, <1>6, ScopeLemma DEF TypeOK, NewSection
<1>8. SectionsScoped'
  <2>1. \A k \in DOMAIN sections' : \A j \in DOMAIN sections'[k].nodes :
            k \in DOMAIN sections /\ sections'[k] = sections[k]
    BY <1>2
  <2> QED
    BY <1>3, <2>1, SectionsStep DEF WalkInv
<1>9. BlocksScoped'
  BY DEF WalkInv, BlocksScoped, OwnNames
<1>10. StackOK' /\ DepthOK' /\ ~InBlock'
  BY <1>1, <1>6, StackSame, DepthSame
<1>11. ScopeOK'
  <2>1. scope' = NewScope
    BY DEF NewSection
  <2>2. Visible(scope, Len(sections))'
    BY <2>1 DEF Visible, SeenIn, NewScope
  <2> QED
    BY <1>10, <2>2 DEF ScopeOK
<1>12. CallsOK'
  BY <1>1, <1>3, CallsStep DEF StackOK
<1> QED
  BY <1>6, <1>7, <1>8, <1>9, <1>10, <1>11, <1>12 DEF WalkInv

\* An error ends the walk.
LEMMA FailStep ==
    ASSUME WalkInv, Fail, expanded' \in 0..(Limit + 1)
    PROVE  WalkInv'
<1>1. TypeOK'
  BY DEF WalkInv, TypeOK, Fail
<1>2. LogFollowsSections'
  BY LogSame DEF WalkInv, Fail
<1>3. SectionsScoped' /\ BlocksScoped'
  BY DEF WalkInv, Fail, SectionsScoped, BlocksScoped, Visible, SeenIn, OwnNames
<1> QED
  BY <1>1, <1>2, <1>3 DEF WalkInv, Fail

\* A file that is not active is included.
LEMMA IncludeStep ==
    ASSUME WalkInv, NEW f \in Files, Include(f)
    PROVE  WalkInv'
<1> DEFINE frame == [Top EXCEPT !.kind = "file", !.file = f, !.includeDepth = @ + 1]
           entry == [include |-> TRUE, section |-> 0, depth |-> Top.includeDepth]
<1>1. TypeOK /\ StackOK /\ DepthOK /\ CallsOK /\ ScopeOK /\ LogFollowsSections /\ phase = "parse"
  BY DEF WalkInv, Include, Reads
<1>2. Top \in Frame /\ Top.includeDepth \in Nat /\ Top.includeDepth < MaxInclude /\ f \notin activeFiles
  BY <1>1, TopLemma DEF StackOK, Frame, Include
<1>3. /\ frame \in Frame /\ frame.kind = "file" /\ frame.file = f
      /\ frame.includeDepth = Top.includeDepth + 1 /\ frame.macroDepth = Top.macroDepth
      /\ frame.inBlock = Top.inBlock
  BY <1>2, FileFrame
<1>4. frame.at = Top.at
  BY <1>2 DEF Frame
<1>5. Push(frame)
  BY DEF Include
<1> HIDE DEF frame
<1>6. /\ UNCHANGED <<implicit, phase, sections, scope, local, target, disabled, blocks, inner>>
      /\ log' = Append(log, entry) /\ activeFiles' = activeFiles \cup {f}
      /\ expanded' \in 0..(Limit + 1)
  BY <1>1, FrontendAssumption DEF Include, Reads, TypeOK
<1>7. StackOK'
  <2>1. frame.includeDepth <= MaxInclude /\ frame.macroDepth <= MaxMacro
    BY <1>1, <1>2, <1>3, TopLemma, FrontendAssumption DEF StackOK, FrameOK, Top
  <2>2. frame.inBlock => ~disabled'
    BY <1>1, <1>3, <1>6 DEF StackOK, InBlock
  <2>3. /\ frame.includeDepth = Top.includeDepth + (IF frame.kind = "file" THEN 1 ELSE 0)
        /\ frame.macroDepth = Top.macroDepth + (IF frame.kind = "macro" THEN 1 ELSE 0)
    BY <1>2, <1>3 DEF Frame
  <2> QED
    BY <1>1, <1>2, <1>3, <1>5, <1>6, <2>1, <2>2, <2>3, PushStack
<1>8. log' \in Seq(Entry) /\ LogFollowsSections' /\ LogDepth' = Top.includeDepth + 1
  <2>1. entry \in Entry /\ entry.depth = Top.includeDepth /\ entry.include
    BY <1>2 DEF Entry
  <2>2. Top.includeDepth <= LogDepth
    BY <1>1, TopLemma DEF StackOK, DepthOK, Top
  <2>3. Len(sections') = Len(sections) /\ Len(sections') \in Nat
    BY <1>1, <1>6, LenProperties DEF TypeOK
  <2> HIDE DEF entry
  <2>4. /\ log' \in Seq(Entry) /\ LogFollowsSections'
        /\ LogDepth' = entry.depth + (IF entry.include THEN 1 ELSE 0)
    BY <1>1, <1>6, <2>1, <2>2, <2>3, LogEntry
  <2> QED
    BY <2>1, <2>4
<1>9. DepthOK'
  BY <1>1, <1>2, <1>3, <1>5, <1>8, DepthPush
<1>10. TypeOK'
  BY <1>1, <1>3, <1>5, <1>6, <1>8, PushShape DEF TypeOK
<1>11. Grows
  BY <1>1, <1>6, GrowsSame
<1>12. SectionsScoped' /\ BlocksScoped'
  BY <1>6 DEF WalkInv, SectionsScoped, BlocksScoped, Visible, SeenIn, OwnNames
<1>13. ScopeOK'
  <2>1. InBlock' => InBlock
    BY <1>1, <1>3, <1>5, PushShape DEF InBlock
  <2> QED
    BY <1>1, <1>6, <2>1 DEF ScopeOK, Visible, SeenIn
<1>14. CallsOK'
  <2>1. frame.at.section <= Len(sections')
    BY <1>1, <1>4, <1>6, TopLemma DEF StackOK, CallsOK, Top
  <2>2. \A d \in DOMAIN stack' : (d \in DOMAIN stack /\ stack'[d] = stack[d]) \/ stack'[d] = frame
    BY <1>1, <1>3, <1>5, PushShape
  <2> QED
    BY <1>1, <1>3, <1>11, <2>1, <2>2, CallsStep DEF StackOK
<1> QED
  BY <1>7, <1>8, <1>9, <1>10, <1>12, <1>13, <1>14 DEF WalkInv

\* A macro that can be seen is expanded.
LEMMA CallStep ==
    ASSUME WalkInv, NEW m \in Macros, Call(m)
    PROVE  WalkInv'
<1>0. PICK def, at, top, frame :
          /\ def = Env[m] /\ at = Here /\ top = Top
          /\ frame = [top EXCEPT !.kind = "macro", !.file = NoFile, !.macroDepth = @ + 1,
                                 !.def = def, !.at = at]
  OBVIOUS
<1>1. TypeOK /\ StackOK /\ DepthOK /\ CallsOK /\ ScopeOK /\ LogFollowsSections /\ phase = "parse"
  BY DEF WalkInv, Call, Reads
<1>2. /\ top \in Frame /\ top.macroDepth \in Nat /\ top.macroDepth < MaxMacro
      /\ top.includeDepth = Top.includeDepth /\ top.macroDepth = Top.macroDepth
      /\ top.inBlock = Top.inBlock
  BY <1>0, <1>1, TopLemma DEF StackOK, Frame, Call, Expands
<1>3. at \in Def /\ at.section = Len(sections) /\ def \in Def
  BY <1>0, <1>1, ScopeLemma DEF Call, Expands, Scope, Names
<1>4. /\ frame \in Frame /\ frame.kind = "macro" /\ frame.def = def /\ frame.at = at
      /\ frame.includeDepth = Top.includeDepth /\ frame.macroDepth = Top.macroDepth + 1
      /\ frame.inBlock = Top.inBlock
  <2>1. frame = [top EXCEPT !.kind = "macro", !.file = NoFile, !.macroDepth = @ + 1,
                            !.def = def, !.at = at]
    BY <1>0
  <2>2. frame \in Frame
    <3>1. top.macroDepth + 1 \in Nat
      BY <1>2
    <3> QED
      BY <1>2, <1>3, <2>1, <3>1, FieldLemma
  <2>3. frame.kind = "macro" /\ frame.inBlock = top.inBlock
    BY <1>2, <2>1 DEF Frame
  <2>4. frame.includeDepth = top.includeDepth /\ frame.macroDepth = top.macroDepth + 1
    BY <1>2, <2>1 DEF Frame
  <2>5. frame.def = def /\ frame.at = at
    BY <1>2, <2>1 DEF Frame
  <2> QED
    BY <1>2, <2>2, <2>3, <2>4, <2>5
<1>5. Push(frame)
  BY <1>0 DEF Call, Expands
<1>6. /\ UNCHANGED <<implicit, phase, sections, scope, local, target, activeFiles,
                     disabled, log, blocks, inner>>
      /\ expanded' \in 0..(Limit + 1)
  BY <1>1, FrontendAssumption DEF Call, Expands, Reads, TypeOK
<1>7. StackOK'
  <2>1. frame.includeDepth <= MaxInclude /\ frame.macroDepth <= MaxMacro
    BY <1>1, <1>2, <1>4, TopLemma, FrontendAssumption DEF StackOK, FrameOK, Top
  <2>2. frame.inBlock => ~disabled'
    BY <1>1, <1>4, <1>6 DEF StackOK, InBlock
  <2>3. /\ frame.includeDepth = Top.includeDepth + (IF frame.kind = "file" THEN 1 ELSE 0)
        /\ frame.macroDepth = Top.macroDepth + (IF frame.kind = "macro" THEN 1 ELSE 0)
    BY <1>2, <1>4 DEF Frame
  <2> QED
    BY <1>1, <1>4, <1>5, <1>6, <2>1, <2>2, <2>3, PushStack
<1>8. LogFollowsSections' /\ LogDepth' = LogDepth
  BY <1>1, <1>6, LogSame
<1>9. DepthOK'
  <2>1. LogDepth' \in Nat
    BY <1>1, <1>8, LogDepthType
  <2>2. Top.includeDepth <= LogDepth /\ Top.includeDepth \in Nat
    BY <1>1, TopLemma DEF StackOK, DepthOK, Top, Frame
  <2> QED
    BY <1>1, <1>4, <1>5, <1>8, <2>1, <2>2, DepthPush
<1>10. TypeOK'
  BY <1>1, <1>4, <1>5, <1>6, PushShape DEF TypeOK
<1>11. Grows
  BY <1>1, <1>6, GrowsSame
<1>12. SectionsScoped' /\ BlocksScoped'
  BY <1>6 DEF WalkInv, SectionsScoped, BlocksScoped, Visible, SeenIn, OwnNames
<1>13. ScopeOK'
  <2>1. InBlock' => InBlock
    BY <1>1, <1>4, <1>5, PushShape DEF InBlock
  <2> QED
    BY <1>1, <1>6, <2>1 DEF ScopeOK, Visible, SeenIn
<1>14. CallsOK'
  <2>1. frame.at.section <= Len(sections')
    BY <1>1, <1>3, <1>4, <1>6, ScopeLemma
  <2>2. SeenAtCall(frame)
    <3>1. Env[m] # NoDef /\ m \in Names
      BY DEF Call, Expands, Names
    <3>2. SeenIn(def, Len(sections)) /\ def.block \in {0, at.block}
      BY <1>0, <1>1, <3>1, EnvSeen
    <3> QED
      BY <1>3, <1>4, <3>2 DEF SeenAtCall
  <2>3. \A d \in DOMAIN stack' : (d \in DOMAIN stack /\ stack'[d] = stack[d]) \/ stack'[d] = frame
    BY <1>1, <1>4, <1>5, PushShape
  <2>4. PICK fixed : fixed = frame
    OBVIOUS
  <2>5. SeenAtCall(fixed)'
    BY <1>6, <2>2, <2>4 DEF SeenAtCall, SeenIn
  <2> QED
    BY <1>1, <1>11, <2>1, <2>3, <2>4, <2>5, CallsStep DEF StackOK
<1> QED
  BY <1>7, <1>8, <1>9, <1>10, <1>12, <1>13, <1>14 DEF WalkInv

\* Nodes that see what can be seen, or nothing, are added to the last section, which
\* opens itself and its entry of the log when there is none.
LEMMA NodesStep ==
    ASSUME TypeOK, LogFollowsSections, SectionsScoped, StackOK, DepthOK,
           Visible(scope, Len(sections)),
           NEW ns \in Seq(Node), AppendNodes(ns),
           \A i \in DOMAIN ns :
               ns[i].values = NewScope \/ (~InBlock /\ ns[i].values = Snapshot)
    PROVE  /\ sections' \in Seq(Section) /\ log' \in Seq(Entry)
           /\ Grows /\ SectionsScoped' /\ LogFollowsSections'
           /\ LogDepth' = LogDepth \/ LogDepth' = Top.includeDepth
           /\ scope' = scope => Visible(scope, Len(sections))'
<1>1. /\ sections' \in Seq(Section)
      /\ Len(sections') = (IF sections = <<>> THEN 1 ELSE Len(sections))
      /\ Len(sections) \in Nat /\ (sections = <<>> <=> Len(sections) = 0)
      /\ DOMAIN sections = 1..Len(sections) /\ DOMAIN sections' = 1..Len(sections')
      /\ \A k \in 1..Len(sections) : sections'[k].opened = sections[k].opened
      /\ sections = <<>> => sections'[1].opened = "implicit"
  BY AppendNodesShape
<1>2. Grows
  BY <1>1 DEF Grows
<1>3. PICK m : m = Len(sections')
  OBVIOUS
<1>4. m = Len(sections) \/ (m = 1 /\ Len(sections) = 0 /\ sections'[1].opened = "implicit")
  BY <1>1, <1>3
<1>5. \A def : SeenIn(def, Len(sections)) => SeenIn(def, m)'
  BY <1>2, <1>3, <1>4, SeenGrows
<1>6. \A values : Visible(values, Len(sections)) => Visible(values, m)'
  BY <1>5 DEF Visible
<1>7. SectionsScoped'
  <2>1. Snapshot = Snapshot /\ (~InBlock => Visible(Snapshot, Len(sections)))
    <3>1. ASSUME ~InBlock, NEW n \in Names
          PROVE  Snapshot[n] \in {NoDef, scope[n]}
      BY <3>1, ScopeLemma
    <3> QED
      BY <3>1 DEF Visible, SeenIn
  <2>2. \A i \in DOMAIN ns : Visible(ns[i].values, m)'
    <3> TAKE i \in DOMAIN ns
    <3>1. PICK values : values = ns[i].values
      OBVIOUS
    <3>2. CASE values = NewScope
      BY <3>1, <3>2, NewScopeVisible
    <3>3. CASE ~InBlock /\ values = Snapshot
      BY <1>6, <2>1, <3>1, <3>3
    <3> QED
      BY <3>1, <3>2, <3>3
  <2>3. \A k \in DOMAIN sections' : \A j \in DOMAIN sections'[k].nodes :
               \/ /\ k \in DOMAIN sections /\ j \in DOMAIN sections[k].nodes
                  /\ sections'[k].nodes[j] = sections[k].nodes[j]
               \/ k = m /\ \E i \in DOMAIN ns : sections'[k].nodes[j] = ns[i]
    BY <1>3, AppendNodesShape
  <2>4. \A k \in DOMAIN sections' : \A j \in DOMAIN sections'[k].nodes :
               \/ /\ k \in DOMAIN sections /\ j \in DOMAIN sections[k].nodes
                  /\ sections'[k].nodes[j] = sections[k].nodes[j]
               \/ \E values : sections'[k].nodes[j].values = values /\ Visible(values, k)'
    BY <2>2, <2>3
  <2> QED
    BY <1>2, <2>4, SectionsStep
<1>8. /\ log' \in Seq(Entry) /\ LogFollowsSections'
      /\ LogDepth' = LogDepth \/ LogDepth' = Top.includeDepth
  <2>1. CASE sections = <<>>
    <3>1. log' = Append(log, SectionEntry) /\ Len(sections') = Len(sections) + 1 /\ Len(sections') \in Nat
      BY <1>1, <2>1 DEF AppendNodes
    <3>2. /\ SectionEntry \in Entry /\ SectionEntry.depth = Top.includeDepth
          /\ ~SectionEntry.include /\ SectionEntry.section = Len(sections')
          /\ Top.includeDepth \in Nat
      BY <1>1, <3>1, TopLemma DEF SectionEntry, Entry, Frame, StackOK
    <3>3. Top.includeDepth <= LogDepth
      BY TopLemma DEF StackOK, DepthOK, Top
    <3>4. /\ log' \in Seq(Entry) /\ LogFollowsSections'
          /\ LogDepth' = SectionEntry.depth + (IF SectionEntry.include THEN 1 ELSE 0)
      BY <3>1, <3>2, <3>3, LogEntry
    <3> QED
      BY <3>2, <3>4
  <2>2. CASE sections # <<>>
    <3>1. log' = log /\ Len(sections') = Len(sections)
      BY <1>1, <2>2 DEF AppendNodes
    <3> QED
      BY <3>1, LogSame DEF TypeOK
  <2> QED
    BY <2>1, <2>2
<1>9. scope' = scope => Visible(scope, Len(sections))'
  <2>1. PICK values : values = scope
    OBVIOUS
  <2>2. Visible(values, m)'
    BY <1>6, <2>1
  <2> QED
    BY <1>3, <2>1, <2>2 DEF Visible
<1> QED
  BY <1>1, <1>2, <1>7, <1>8, <1>9

\* The nodes of a statement see nothing, or what can be seen now.
LEMMA StatementNodes ==
    ASSUME TypeOK, NEW form \in Form
    PROVE  /\ Statements(form) \in Seq(Node)
           /\ \A i \in DOMAIN Statements(form) :
                  Statements(form)[i].values \in {NewScope, Snapshot}
<1> DEFINE statement == [kind |-> "statement", values |-> Snapshot, block |-> 0, body |-> 0]
<1>1. LabelNode \in Node /\ LabelNode.values = NewScope
  BY ScopeLemma DEF LabelNode, Node
<1>2. statement \in Node /\ statement.values = Snapshot
  BY ScopeLemma DEF Node
<1>3. PICK p, q : /\ p = IF form.labelled THEN <<LabelNode>> ELSE <<>>
                  /\ q = IF form.kind \in Blocks \cup {"label"} THEN <<>> ELSE <<statement>>
  OBVIOUS
<1>4. Statements(form) = p \o q
  BY <1>3 DEF Statements
<1> HIDE DEF statement
<1>5. p \in Seq(Node) /\ DOMAIN p = 1..Len(p) /\ \A i \in 1..Len(p) : p[i].values = NewScope
  <2>1. CASE p = <<>>
    BY <2>1
  <2>2. CASE p = <<LabelNode>>
    <3>1. PICK node : node = LabelNode
      OBVIOUS
    <3>2. Len(p) = 1 /\ p[1] = node /\ p = <<node>> /\ node \in Node /\ node.values = NewScope
      BY <1>1, <2>2, <3>1
    <3> QED
      BY <3>2
  <2> QED
    BY <1>3, <2>1, <2>2
<1>6. q \in Seq(Node) /\ DOMAIN q = 1..Len(q) /\ \A i \in 1..Len(q) : q[i].values = Snapshot
  <2>1. CASE q = <<>>
    BY <2>1
  <2>2. CASE q = <<statement>>
    <3>1. PICK node : node = statement
      OBVIOUS
    <3>2. Len(q) = 1 /\ q[1] = node /\ q = <<node>> /\ node \in Node /\ node.values = Snapshot
      BY <1>2, <2>2, <3>1
    <3> QED
      BY <3>2
  <2> QED
    BY <1>3, <2>1, <2>2
<1>7. PICK ns : ns = p \o q
  OBVIOUS
<1>8. /\ ns \in Seq(Node) /\ Len(p) \in Nat /\ Len(q) \in Nat /\ Len(ns) = Len(p) + Len(q)
      /\ \A i \in 1..(Len(p) + Len(q)) : ns[i] = IF i <= Len(p) THEN p[i] ELSE q[i - Len(p)]
      /\ DOMAIN ns = 1..(Len(p) + Len(q))
  BY <1>5, <1>6, <1>7, ConcatProperties, LenProperties
<1>9. ASSUME NEW i \in DOMAIN ns
      PROVE  ns[i].values \in {NewScope, Snapshot}
  <2>1. CASE i <= Len(p)
    BY <1>5, <1>8, <1>9, <2>1
  <2>2. CASE ~(i <= Len(p))
    <3>1. i - Len(p) \in 1..Len(q) /\ ns[i] = q[i - Len(p)]
      BY <1>8, <1>9, <2>2
    <3> QED
      BY <1>6, <3>1
  <2> QED
    BY <2>1, <2>2
<1> QED
  BY <1>4, <1>7, <1>8, <1>9

\* What stands outside of blocks is added to the last section.
LEMMA EmitStep ==
    ASSUME WalkInv, NEW form \in Form, Emit(form)
    PROVE  WalkInv'
<1>1. /\ TypeOK /\ StackOK /\ DepthOK /\ CallsOK /\ ScopeOK /\ LogFollowsSections
      /\ SectionsScoped /\ phase = "parse" /\ ~InBlock
  BY DEF WalkInv, Emit, Reads
<1>2. PICK ns : ns = Statements(form)
  OBVIOUS
<1>3. ns \in Seq(Node) /\ \A i \in DOMAIN ns : ns[i].values \in {NewScope, Snapshot}
  BY <1>1, <1>2, StatementNodes
<1>4. AppendNodes(ns)
  BY <1>2 DEF Emit
<1>5. /\ UNCHANGED <<implicit, phase, stack, scope, local, target, activeFiles,
                     disabled, blocks, inner>>
      /\ expanded' \in 0..(Limit + 1)
  BY <1>1, FrontendAssumption DEF Emit, Reads, TypeOK
<1>6. /\ sections' \in Seq(Section) /\ log' \in Seq(Entry)
      /\ Grows /\ SectionsScoped' /\ LogFollowsSections'
      /\ LogDepth' = LogDepth \/ LogDepth' = Top.includeDepth
      /\ scope' = scope => Visible(scope, Len(sections))'
  BY <1>1, <1>3, <1>4, NodesStep DEF ScopeOK
<1>7. TypeOK'
  BY <1>1, <1>5, <1>6 DEF TypeOK
<1>8. BlocksScoped'
  BY <1>5 DEF WalkInv, BlocksScoped, OwnNames
<1>9. StackOK' /\ DepthOK' /\ ~InBlock'
  BY <1>1, <1>5, <1>6, StackSame, DepthSame
<1>10. ScopeOK'
  BY <1>5, <1>6, <1>9 DEF ScopeOK
<1>11. CallsOK'
  BY <1>1, <1>5, <1>6, CallsStep DEF StackOK
<1> QED
  BY <1>6, <1>7, <1>8, <1>9, <1>10, <1>11 DEF WalkInv

\* A label, when there is one, is added before a block is opened.
LEMMA LabelStep ==
    ASSUME WalkInv, phase = "parse", NEW form \in Form, scope' = scope,
           IF form.labelled THEN AppendNodes(<<LabelNode>>) ELSE UNCHANGED <<sections, log>>
    PROVE  /\ sections' \in Seq(Section) /\ log' \in Seq(Entry)
           /\ Grows /\ SectionsScoped' /\ LogFollowsSections'
           /\ LogDepth' = LogDepth \/ LogDepth' = Top.includeDepth
           /\ Visible(scope, Len(sections))'
<1>1. /\ TypeOK /\ StackOK /\ DepthOK /\ ScopeOK /\ LogFollowsSections /\ SectionsScoped
      /\ Visible(scope, Len(sections))
  BY DEF WalkInv, ScopeOK
<1>2. CASE form.labelled
  <2>1. LabelNode \in Node /\ LabelNode.values = NewScope
    BY <1>1, ScopeLemma DEF LabelNode, Node
  <2>2. PICK ns : ns = <<LabelNode>>
    OBVIOUS
  <2>3. ns \in Seq(Node) /\ AppendNodes(ns) /\ \A i \in DOMAIN ns : ns[i].values = NewScope
    BY <1>2, <2>1, <2>2
  <2> QED
    BY <1>1, <2>3, NodesStep
<1>3. CASE ~form.labelled
  <2>1. sections' = sections /\ log' = log
    BY <1>3
  <2>2. Grows
    BY <1>1, <2>1, GrowsSame
  <2>3. SectionsScoped'
    BY <1>1, <2>1, <2>2, SectionsStep
  <2> QED
    BY <1>1, <2>1, <2>2, <2>3, LogSame DEF TypeOK, Visible, SeenIn
<1> QED
  BY <1>2, <1>3

\* A block is opened, in which nothing is defined yet.
LEMMA OpenBlockStep ==
    ASSUME WalkInv, NEW form \in Form, OpenBlock(form)
    PROVE  WalkInv'
<1> DEFINE frame == [Top EXCEPT !.kind = "block", !.file = NoFile, !.inBlock = TRUE]
<1>1. /\ TypeOK /\ StackOK /\ DepthOK /\ CallsOK /\ ScopeOK /\ LogFollowsSections
      /\ SectionsScoped /\ phase = "parse" /\ ~InBlock /\ ~disabled
  BY DEF WalkInv, OpenBlock, Reads
<1>2. Top \in Frame
  BY <1>1, TopLemma DEF StackOK
<1>3. /\ frame \in Frame /\ frame.kind = "block"
      /\ frame.includeDepth = Top.includeDepth /\ frame.macroDepth = Top.macroDepth
      /\ frame.inBlock = TRUE
  BY <1>2, BlockFrame
<1>4. frame.at = Top.at
  BY <1>2 DEF Frame
<1>5. Push(frame)
  BY DEF OpenBlock
<1> HIDE DEF frame
<1>6. /\ UNCHANGED <<implicit, phase, scope, activeFiles, disabled, inner>>
      /\ local' = NewScope /\ target' = <<>> /\ blocks' = blocks + 1
      /\ expanded' \in 0..(Limit + 1)
  BY <1>1, FrontendAssumption DEF OpenBlock, Reads, TypeOK
<1>7. /\ sections' \in Seq(Section) /\ log' \in Seq(Entry)
      /\ Grows /\ SectionsScoped' /\ LogFollowsSections'
      /\ LogDepth' = LogDepth \/ LogDepth' = Top.includeDepth
      /\ Visible(scope, Len(sections))'
  BY <1>1, <1>6, LabelStep DEF OpenBlock
<1>8. StackOK'
  <2>1. frame.includeDepth <= MaxInclude /\ frame.macroDepth <= MaxMacro
    BY <1>1, <1>3, TopLemma DEF StackOK, FrameOK, Top
  <2>2. /\ frame.includeDepth = Top.includeDepth + (IF frame.kind = "file" THEN 1 ELSE 0)
        /\ frame.macroDepth = Top.macroDepth + (IF frame.kind = "macro" THEN 1 ELSE 0)
    BY <1>2, <1>3 DEF Frame
  <2>3. ~Top.inBlock
    BY <1>1 DEF InBlock
  <2> QED
    BY <1>1, <1>3, <1>5, <1>6, <2>1, <2>2, <2>3, PushStack
<1>9. DepthOK'
  <2>1. LogDepth \in Nat /\ Top.includeDepth \in Nat /\ Top.includeDepth <= LogDepth
    BY <1>1, LogDepthType, TopLemma DEF StackOK, DepthOK, Top, Frame
  <2>2. LogDepth' \in Nat /\ Top.includeDepth <= LogDepth'
    BY <1>7, <2>1
  <2> QED
    BY <1>1, <1>3, <1>5, <1>7, <2>1, <2>2, DepthPush
<1>10. TypeOK'
  <2>1. stack' \in Seq(Frame)
    BY <1>1, <1>3, <1>5, PushShape
  <2>2. local' \in Scope /\ target' \in Seq(Inner) /\ blocks' \in Nat
    BY <1>1, <1>6, ScopeLemma, EmptySeq DEF TypeOK
  <2> QED
    BY <1>1, <1>6, <1>7, <2>1, <2>2 DEF TypeOK
<1>11. BlocksScoped'
  BY <1>6 DEF WalkInv, BlocksScoped, OwnNames, ToSet
<1>12. ScopeOK'
  BY <1>1, <1>6, <1>7, ScopeLemma DEF ScopeOK, SeenIn
<1>13. CallsOK'
  <2>1. frame.at.section <= Len(sections')
    <3>1. Top.at.section \in Nat /\ Top.at.section <= Len(sections)
      BY <1>1, <1>2, TopLemma DEF StackOK, CallsOK, Top, Frame, Def
    <3> QED
      BY <1>4, <1>7, <3>1 DEF Grows
  <2>2. \A d \in DOMAIN stack' : (d \in DOMAIN stack /\ stack'[d] = stack[d]) \/ stack'[d] = frame
    BY <1>1, <1>3, <1>5, PushShape
  <2> QED
    BY <1>1, <1>3, <1>7, <2>1, <2>2, CallsStep DEF StackOK
<1> QED
  BY <1>7, <1>8, <1>9, <1>10, <1>11, <1>12, <1>13 DEF WalkInv

\* A statement of a block sees what can be seen in the block.
LEMMA EmitInBlockStep ==
    ASSUME WalkInv, EmitInBlock
    PROVE  WalkInv'
<1>1. TypeOK /\ StackOK /\ ScopeOK /\ phase = "parse" /\ InBlock /\ BlocksScoped
  BY DEF WalkInv, EmitInBlock, Reads
<1>2. PICK node : node = [values |-> Snapshot, block |-> blocks]
  OBVIOUS
<1>3. node \in Inner /\ OwnNames(node)
  <2>1. Snapshot \in Scope /\ Here.block = blocks
    BY <1>1, ScopeLemma
  <2>2. node \in Inner
    BY <1>1, <1>2, <2>1 DEF Inner, TypeOK
  <2>3. OwnNames(node)
    BY <1>1, <1>2, <2>1, EnvSeen DEF OwnNames
  <2> QED
    BY <2>2, <2>3
<1>4. /\ UNCHANGED <<implicit, phase, stack, sections, scope, local, activeFiles,
                     disabled, log, blocks, inner>>
      /\ target' = Append(target, node)
      /\ expanded' \in 0..(Limit + 1)
  BY <1>1, <1>2, FrontendAssumption DEF EmitInBlock, Reads, TypeOK
<1>5. target' \in Seq(Inner) /\ ToSet(target') = ToSet(target) \cup {node}
  <2>1. target \in Seq(Inner)
    BY <1>1 DEF TypeOK
  <2>2. /\ target' \in Seq(Inner) /\ Len(target) \in Nat /\ Len(target') = Len(target) + 1
        /\ \A i \in 1..Len(target) : target'[i] = target[i]
        /\ target'[Len(target) + 1] = node
    BY <1>3, <1>4, <2>1, AppendProperties, LenProperties
  <2>3. DOMAIN target = 1..Len(target) /\ DOMAIN target' = 1..(Len(target) + 1)
    BY <2>1, <2>2, LenProperties
  <2> QED
    BY <2>2, <2>3 DEF ToSet
<1>6. BlocksScoped'
  <2>1. \A other \in inner' \cup ToSet(target') : other \in inner \cup ToSet(target) \/ other = node
    BY <1>4, <1>5
  <2> QED
    BY <1>1, <1>3, <2>1 DEF BlocksScoped, OwnNames
<1>7. ScopeOK'
  BY <1>1, <1>4 DEF ScopeOK, Visible, SeenIn, InBlock, Top
<1> QED
  BY <1>1, <1>4, <1>5, <1>6, <1>7, QuietStep DEF TypeOK, StackOK

\* The root file ends, and with it the walk.
LEMMA RootStep ==
    ASSUME WalkInv, ReturnFromRoot
    PROVE  WalkInv'
<1>1. TypeOK /\ LogFollowsSections /\ SectionsScoped /\ BlocksScoped /\ phase' # "parse"
  BY DEF WalkInv, ReturnFromRoot
<1>2. stack' \in Seq(Frame)
  BY <1>1, PopShape DEF ReturnFromRoot
<1>3. TypeOK'
  BY <1>1, <1>2 DEF TypeOK, ReturnFromRoot
<1>4. LogFollowsSections'
  BY <1>1, LogSame DEF ReturnFromRoot
<1>5. SectionsScoped' /\ BlocksScoped'
  BY <1>1 DEF ReturnFromRoot, SectionsScoped, BlocksScoped, Visible, SeenIn, OwnNames
<1> QED
  BY <1>1, <1>3, <1>4, <1>5 DEF WalkInv

\* A file or the body of a macro ends: the caller goes on where it was.
LEMMA ReturnStep ==
    ASSUME WalkInv, phase = "parse", Len(stack) > 1, Top.kind # "block", Pop,
           activeFiles' = (IF Top.kind = "file" THEN activeFiles \ {Top.file} ELSE activeFiles),
           UNCHANGED <<implicit, phase, sections, scope, local, target, expanded,
                       disabled, log, blocks, inner>>
    PROVE  WalkInv'
<1>1. TypeOK /\ StackOK /\ DepthOK /\ CallsOK /\ ScopeOK /\ LogFollowsSections
  BY DEF WalkInv
<1>2. StackOK' /\ (InBlock' <=> InBlock)
  BY <1>1, PopStack
<1>3. LogFollowsSections' /\ LogDepth' = LogDepth
  BY <1>1, LogSame
<1>4. DepthOK'
  BY <1>1, <1>3, DepthPop
<1>5. Len(stack) > 0
  BY <1>1 DEF StackOK
<1>6. TypeOK'
  <2>1. stack' \in Seq(Frame) /\ activeFiles' \subseteq Files
    BY <1>1, <1>5, PopShape DEF TypeOK
  <2> QED
    BY <1>1, <2>1 DEF TypeOK
<1>7. Grows
  BY <1>1, GrowsSame
<1>8. SectionsScoped' /\ BlocksScoped'
  BY DEF WalkInv, SectionsScoped, BlocksScoped, Visible, SeenIn, OwnNames
<1>9. ScopeOK'
  BY <1>1, <1>2 DEF ScopeOK, Visible, SeenIn
<1>10. CallsOK'
  <2>1. \A d \in DOMAIN stack' : d \in DOMAIN stack /\ stack'[d] = stack[d]
    BY <1>1, <1>5, PopShape
  <2> QED
    BY <1>1, <1>5, <1>7, <2>1, CallsStep
<1> QED
  BY <1>2, <1>3, <1>4, <1>6, <1>8, <1>9, <1>10 DEF WalkInv

\* The outermost call reads the root file, so any other kind of call has a caller;
\* the innermost call is a block only while a block is open.
LEMMA CallerLemma ==
    ASSUME TypeOK, StackOK
    PROVE  /\ Top.kind # "file" => Len(stack) > 1
           /\ Top.kind = "block" => InBlock
<1>1. Len(stack) \in DOMAIN stack /\ Len(stack) \in Nat /\ Len(stack) > 0
  BY TopLemma DEF StackOK
<1>2. Top.kind = "block" => Len(stack) \in FramesOf("block")
  BY <1>1 DEF Top, FramesOf
<1>3. FrameOK(Len(stack))
  BY <1>1 DEF StackOK
<1>4. Top.kind = "block" => InBlock
  BY <1>1, <1>2, <1>3 DEF FrameOK, InBlock, Top
<1> QED
  BY <1>1, <1>4 DEF StackOK, Top

\* The body of a block is complete.
LEMMA CloseBlockStep ==
    ASSUME WalkInv, CloseBlock
    PROVE  WalkInv'
<1>1. /\ TypeOK /\ StackOK /\ DepthOK /\ CallsOK /\ ScopeOK /\ LogFollowsSections
      /\ SectionsScoped /\ BlocksScoped /\ phase = "parse" /\ Top.kind = "block"
  BY DEF WalkInv, CloseBlock
<1>2. Len(stack) > 1 /\ InBlock /\ Len(stack) > 0
  BY <1>1, CallerLemma DEF StackOK
<1>3. PICK node : node = [kind |-> "block", values |-> NewScope, block |-> blocks,
                          body |-> Len(target)]
  OBVIOUS
<1>4. node \in Node /\ node.values = NewScope
  <2>1. NewScope \in Scope /\ blocks \in Nat /\ Len(target) \in Nat
    BY <1>1, ScopeLemma, LenProperties DEF TypeOK
  <2> QED
    BY <1>3, <2>1 DEF Node
<1>5. PICK ns : ns = <<node>>
  OBVIOUS
<1>6. ns \in Seq(Node) /\ AppendNodes(ns) /\ \A i \in DOMAIN ns : ns[i].values = NewScope
  BY <1>3, <1>4, <1>5 DEF CloseBlock
<1>7. /\ UNCHANGED <<implicit, phase, scope, activeFiles, expanded, disabled, blocks>>
      /\ local' = NewScope /\ target' = <<>> /\ inner' = inner \cup ToSet(target) /\ Pop
  BY DEF CloseBlock
<1>8. /\ sections' \in Seq(Section) /\ log' \in Seq(Entry)
      /\ Grows /\ SectionsScoped' /\ LogFollowsSections'
      /\ LogDepth' = LogDepth \/ LogDepth' = Top.includeDepth
      /\ Visible(scope, Len(sections))'
  BY <1>1, <1>6, <1>7, NodesStep DEF ScopeOK
<1>9. StackOK' /\ ~InBlock'
  BY <1>1, <1>2, <1>7, PopStack
<1>10. DepthOK'
  BY <1>1, <1>7, <1>8, DepthPop
<1>11. TypeOK'
  <2>1. stack' \in Seq(Frame)
    BY <1>1, <1>2, <1>7, PopShape
  <2>2. ToSet(target) \subseteq Inner
    BY <1>1, ElementOfSeq, LenProperties DEF TypeOK, ToSet
  <2>3. local' \in Scope /\ target' \in Seq(Inner)
    BY <1>1, <1>7, ScopeLemma, EmptySeq
  <2> QED
    BY <1>1, <1>7, <1>8, <2>1, <2>2, <2>3 DEF TypeOK
<1>12. BlocksScoped'
  <2>1. inner' \cup ToSet(target') = inner \cup ToSet(target)
    BY <1>7 DEF ToSet
  <2> QED
    BY <1>1, <2>1 DEF BlocksScoped, OwnNames
<1>13. ScopeOK'
  BY <1>8, <1>9 DEF ScopeOK
<1>14. CallsOK'
  <2>1. \A d \in DOMAIN stack' : d \in DOMAIN stack /\ stack'[d] = stack[d]
    BY <1>1, <1>2, <1>7, PopShape
  <2> QED
    BY <1>1, <1>2, <1>8, <2>1, CallsStep
<1> QED
  BY <1>8, <1>9, <1>10, <1>11, <1>12, <1>13, <1>14 DEF WalkInv

----------------------------------------------------------------------------
(* The theorems *)

\* The walk begins with the root file and nothing else.
LEMMA WalkInit == Init => WalkInv
<1> SUFFICES ASSUME Init
             PROVE  WalkInv
  OBVIOUS
<1> DEFINE root == [kind |-> "file", file |-> Root, includeDepth |-> 0, macroDepth |-> 0,
                    inBlock |-> FALSE, def |-> NoDef, at |-> [section |-> 0, block |-> 0]]
<1>1. root \in Frame
  BY FrontendAssumption DEF Frame, Def
<1>2. /\ stack = <<root>> /\ root.kind = "file" /\ root.file = Root /\ root.includeDepth = 0
      /\ root.macroDepth = 0 /\ ~root.inBlock /\ root.at.section = 0
  BY DEF Init
<1> HIDE DEF root
<1>3. /\ Len(stack) = 1 /\ DOMAIN stack = {1} /\ stack[1] = root /\ Top = root
      /\ stack \in Seq(Frame)
  BY <1>1, <1>2 DEF Top
<1>4. NewScope \in Scope
  BY DEF NewScope, Scope
<1>5. TypeOK
  <2>1. sections \in Seq(Section) /\ target \in Seq(Inner) /\ log \in Seq(Entry)
    BY EmptySeq DEF Init
  <2>2. scope \in Scope /\ local \in Scope
    BY <1>4 DEF Init
  <2>3. /\ implicit \in BOOLEAN /\ phase = "parse" /\ activeFiles = {Root} /\ expanded = 0
        /\ disabled = FALSE /\ blocks = 0 /\ inner = {}
    BY DEF Init
  <2>4. activeFiles \subseteq Files /\ expanded \in 0..(Limit + 1)
    BY <2>3, FrontendAssumption
  <2> QED
    BY <1>3, <2>1, <2>2, <2>3, <2>4 DEF TypeOK
<1>6. sections = <<>> /\ log = <<>> /\ Len(sections) = 0 /\ DOMAIN sections = {}
      /\ DOMAIN log = {}
  BY DEF Init
<1>7. LogFollowsSections
  <2>1. SectionEntries = {}
    BY <1>6 DEF SectionEntries
  <2> QED
    BY <1>6, <2>1, FS_EmptySet DEF LogFollowsSections
<1>8. SectionsScoped /\ BlocksScoped
  BY <1>6 DEF SectionsScoped, BlocksScoped, Init, ToSet
<1>9. StackOK
  <2>1. FramesOf("file") = {1} /\ FramesOf("macro") = {} /\ FramesOf("block") = {}
    BY <1>2, <1>3 DEF FramesOf
  <2>2. FramesUpTo("file", 1) = {1} /\ FramesUpTo("macro", 1) = {}
    BY <2>1 DEF FramesUpTo
  <2>3. Cardinality({1}) = 1 /\ Cardinality({}) = 0
    BY FS_Singleton, FS_EmptySet
  <2>4. FrameOK(1)
    <3>1. /\ stack[1].includeDepth = Cardinality(FramesUpTo("file", 1)) - 1
          /\ stack[1].macroDepth = Cardinality(FramesUpTo("macro", 1))
      BY <1>2, <1>3, <2>2, <2>3
    <3>2. stack[1].includeDepth <= MaxInclude /\ stack[1].macroDepth <= MaxMacro
      BY <1>2, <1>3, FrontendAssumption
    <3>3. ~stack[1].inBlock
      BY <1>2, <1>3
    <3>4. ~\E e \in FramesOf("block") : e <= 1
      BY <2>1
    <3> QED
      BY <3>1, <3>2, <3>3, <3>4 DEF FrameOK
  <2>5. activeFiles = {stack[d].file : d \in FramesOf("file")}
    BY <1>2, <1>3, <2>1 DEF Init
  <2> QED
    BY <1>2, <1>3, <2>1, <2>4, <2>5 DEF StackOK, InBlock
<1>10. DepthOK
  BY <1>2, <1>3, <1>6 DEF DepthOK, LogDepth
<1>11. ScopeOK
  BY <1>2, <1>3, NewScopeVisible DEF ScopeOK, InBlock, Init
<1>12. CallsOK
  BY <1>2, <1>3, <1>6 DEF CallsOK
<1> QED
  BY <1>5, <1>7, <1>8, <1>9, <1>10, <1>11, <1>12 DEF WalkInv

\* Every step of the walk keeps the invariant.
LEMMA WalkNext == WalkInv /\ [Next]_vars => WalkInv'
<1> SUFFICES ASSUME WalkInv, [Next]_vars
             PROVE  WalkInv'
  OBVIOUS
<1>1. TypeOK /\ (phase = "parse" => StackOK /\ ScopeOK)
  BY DEF WalkInv
<1>2. Reads => expanded' \in 0..(Limit + 1) /\ phase = "parse"
  BY <1>1, FrontendAssumption DEF Reads, TypeOK
<1>3. CASE Title
  BY <1>2, <1>3, SectionStep DEF Title
<1>4. CASE Disable
  <2>1. ScopeOK'
    BY <1>1, <1>2, <1>4 DEF Disable, ScopeOK, Visible, SeenIn, InBlock, Top
  <2>2. BlocksScoped'
    BY <1>4 DEF WalkInv, Disable, BlocksScoped, OwnNames
  <2> QED
    BY <1>1, <1>2, <1>4, <2>1, <2>2, QuietStep DEF Disable, TypeOK
<1>5. CASE Ignore
  <2>1. ScopeOK'
    BY <1>1, <1>2, <1>5 DEF Ignore, ScopeOK, Visible, SeenIn, InBlock, Top
  <2>2. BlocksScoped'
    BY <1>5 DEF WalkInv, Ignore, BlocksScoped, OwnNames
  <2> QED
    BY <1>1, <1>2, <1>5, <2>1, <2>2, QuietStep DEF Ignore, TypeOK, StackOK
<1>6. ASSUME NEW n \in Names, Define(n)
      PROVE  WalkInv'
  <2>1. scope' \in Scope /\ local' \in Scope /\ ScopeOK'
    BY <1>1, <1>2, <1>6, DeclareScope DEF Define
  <2>2. BlocksScoped'
    BY <1>6 DEF WalkInv, Define, BlocksScoped, OwnNames
  <2> QED
    BY <1>1, <1>2, <1>6, <2>1, <2>2, QuietStep DEF Define, TypeOK, StackOK
<1>7. ASSUME NEW f \in Files, Include(f)
      PROVE  WalkInv'
  BY <1>7, IncludeStep
<1>8. ASSUME NEW m \in Macros, Call(m)
      PROVE  WalkInv'
  BY <1>8, CallStep
<1>9. ASSUME NEW form \in Form, SkipDisabled(form)
      PROVE  WalkInv'
  <2>1. CASE form.looks
    <3>1. ScopeOK'
      BY <1>1, <1>2, <1>9, <2>1 DEF SkipDisabled, ScopeOK, Visible, SeenIn, InBlock, Top
    <3>2. BlocksScoped'
      BY <1>9 DEF WalkInv, SkipDisabled, BlocksScoped, OwnNames
    <3> QED
      BY <1>1, <1>2, <1>9, <2>1, <3>1, <3>2, QuietStep DEF SkipDisabled, TypeOK
  <2>2. CASE ~form.looks
    BY <1>2, <1>9, <2>2, SectionStep DEF SkipDisabled
  <2> QED
    BY <2>1, <2>2
<1>10. ASSUME NEW form \in Form, Emit(form)
       PROVE  WalkInv'
  BY <1>10, EmitStep
<1>11. ASSUME NEW form \in Form, OpenBlock(form)
       PROVE  WalkInv'
  BY <1>11, OpenBlockStep
<1>12. CASE EmitInBlock
  BY <1>12, EmitInBlockStep
<1>13. CASE StatementFails
  BY <1>2, <1>13, FailStep DEF StatementFails
<1>14. CASE TooLong
  <2>1. expanded' \in 0..(Limit + 1)
    BY <1>14, FrontendAssumption DEF TooLong
  <2> QED
    BY <1>14, <2>1, FailStep DEF TooLong
<1>15. CASE ReturnFromRoot
  BY <1>15, RootStep
<1>16. CASE ReturnFromFile
  BY <1>16, ReturnStep DEF ReturnFromFile
<1>17. CASE ReturnFromMacro
  <2>1. Len(stack) > 1
    BY <1>1, <1>17, CallerLemma DEF ReturnFromMacro
  <2> QED
    BY <1>17, <2>1, ReturnStep DEF ReturnFromMacro
<1>18. CASE CloseBlock
  BY <1>18, CloseBlockStep
<1>19. CASE UNCHANGED vars
  <2>1. LogFollowsSections' /\ LogDepth' = LogDepth
    BY <1>19, LogSame DEF WalkInv, vars
  <2>2. TypeOK' /\ SectionsScoped' /\ BlocksScoped'
    BY <1>19 DEF WalkInv, vars, TypeOK, SectionsScoped, BlocksScoped, Visible, SeenIn, OwnNames
  <2>3. ASSUME phase = "parse"
        PROVE  StackOK' /\ DepthOK' /\ ScopeOK' /\ CallsOK'
    <3>1. StackOK' /\ DepthOK'
      BY <1>1, <1>19, <2>1, <2>3, StackSame, DepthSame DEF WalkInv, vars, StackOK
    <3>2. ScopeOK' /\ CallsOK'
      BY <1>1, <1>19, <2>3
         DEF WalkInv, vars, ScopeOK, CallsOK, Visible, SeenIn, SeenAtCall, InBlock, Top
    <3> QED
      BY <3>1, <3>2
  <2> QED
    BY <1>19, <2>1, <2>2, <2>3 DEF WalkInv, vars
<1> QED
  BY <1>3, <1>4, <1>5, <1>6, <1>7, <1>8, <1>9, <1>10, <1>11, <1>12, <1>13, <1>14, <1>15,
     <1>16, <1>17, <1>18, <1>19 DEF Next

\* The inductive invariant of the walk.
THEOREM WalkInvariant == Spec => []WalkInv
<1> QED
  BY WalkInit, WalkNext, PTL DEF Spec

\* Every variable of the walk keeps the form of what it models: the statements read
\* (f.expanded) in particular never pass their limit by more than one.
THEOREM TypeCorrect == Spec => []TypeOK
<1>1. WalkInv => TypeOK
  BY DEF WalkInv
<1> QED
  BY <1>1, WalkInvariant, PTL

\* f.activeFiles holds the files that are being read, none of them twice, the depth
\* parameters of parse count the active calls of their kind, and at most one block is
\* open: the property NestingIsBounded of the run, for every set of files and bound.
THEOREM CallsAreBounded == Spec => []NestingIsBounded
<1>1. WalkInv => NestingIsBounded
  <2> SUFFICES ASSUME WalkInv, phase = "parse"
               PROVE  NestingIsBounded
    BY DEF NestingIsBounded
  <2>1. TypeOK /\ StackOK /\ Len(stack) \in DOMAIN stack
    BY TopLemma DEF WalkInv, StackOK
  <2>2. Top.includeDepth <= MaxInclude /\ Top.macroDepth <= MaxMacro
    BY <2>1 DEF StackOK, FrameOK, Top
  <2>3. Cardinality(FramesOf("block")) = (IF InBlock THEN 1 ELSE 0)
    <3>1. /\ InBlock <=> \E e \in FramesOf("block") : e <= Len(stack)
          /\ \A e \in FramesOf("block") : e <= Len(stack)
      BY <2>1, TopLemma DEF StackOK, FrameOK, InBlock, Top, FramesOf
    <3>2. CASE InBlock
      <4>1. PICK e \in FramesOf("block") : TRUE
        BY <3>1, <3>2
      <4>2. FramesOf("block") = {e}
        BY <2>1, <4>1 DEF StackOK
      <4> QED
        BY <3>2, <4>2, FS_Singleton
    <3>3. CASE ~InBlock
      <4>1. FramesOf("block") = {}
        BY <3>1, <3>3
      <4> QED
        BY <3>3, <4>1, FS_EmptySet
    <3> QED
      BY <3>2, <3>3
  <2>4. \A d \in DOMAIN stack :
            /\ stack[d].includeDepth = Cardinality({e \in FramesOf("file") : e <= d}) - 1
            /\ stack[d].macroDepth = Cardinality({e \in FramesOf("macro") : e <= d})
    BY <2>1 DEF StackOK, FrameOK, FramesUpTo
  <2> QED
    BY <2>1, <2>2, <2>3, <2>4 DEF StackOK, NestingIsBounded
<1> QED
  BY <1>1, WalkInvariant, PTL

\* f.logEntries has one entry for every section, in order, and is properly nested.
THEOREM LogIsComplete == Spec => []LogFollowsSections
<1>1. WalkInv => LogFollowsSections
  BY DEF WalkInv
<1> QED
  BY <1>1, WalkInvariant, PTL

\* The aliases and macros of a section are seen in no other one, those of a block in no
\* other block, and an expansion in a block sees what its call sees.
THEOREM ScopesHold == Spec => []NamesStayInScope
<1>1. WalkInv => NamesStayInScope
  <2> SUFFICES ASSUME WalkInv
               PROVE  NamesStayInScope
    OBVIOUS
  <2>1. \A k \in DOMAIN sections : \A j \in DOMAIN sections[k].nodes : \A n \in Names :
            LET def == sections[k].nodes[j].values[n]
            IN  SeenIn(def, k) /\ (def # NoDef => def.block = 0)
    BY DEF WalkInv, SectionsScoped, Visible
  <2>2. \A node \in inner \cup ToSet(target) : \A n \in Names :
            node.values[n] # NoDef => node.values[n].block \in {0, node.block}
    BY DEF WalkInv, BlocksScoped, OwnNames
  <2>3. phase = "parse" =>
            \A d \in FramesOf("macro") :
                /\ SeenIn(stack[d].def, stack[d].at.section)
                /\ stack[d].def.block \in {0, stack[d].at.block}
    BY DEF WalkInv, CallsOK, SeenAtCall, FramesOf
  <2> QED
    BY <2>1, <2>2, <2>3 DEF NamesStayInScope
<1> QED
  BY <1>1, WalkInvariant, PTL

\* A block belongs to the section it was opened in: until it is closed no step of the
\* walk begins a section or disables one, and the only section that may begin then is
\* the implicit one that receives the block.
THEOREM BlocksHoldTheirSection == Spec => OpenBlocksHoldTheSection
<1> DEFINE Holds ==
        phase = "parse" /\ InBlock /\ phase' = "parse" =>
            /\ ~disabled'
            /\ \/ Len(sections') = Len(sections)
               \/ sections = <<>> /\ Len(sections') = 1 /\ ~InBlock'
<1>1. WalkInv /\ [Next]_vars => [Holds]_vars
  <2> SUFFICES ASSUME WalkInv, [Next]_vars, phase = "parse", InBlock, phase' = "parse"
               PROVE  /\ ~disabled'
                      /\ \/ Len(sections') = Len(sections)
                         \/ sections = <<>> /\ Len(sections') = 1 /\ ~InBlock'
    OBVIOUS
  <2>1. TypeOK /\ StackOK /\ ScopeOK /\ ~disabled
    BY DEF WalkInv, StackOK
  <2>2. CASE CloseBlock
    <3>1. StackOK' /\ ~InBlock' /\ ~disabled'
      BY <2>1, <2>2, CallerLemma, PopStack DEF CloseBlock, StackOK
    <3>2. PICK node : node = [kind |-> "block", values |-> NewScope, block |-> blocks,
                              body |-> Len(target)]
      OBVIOUS
    <3>3. node \in Node
      <4>1. NewScope \in Scope /\ blocks \in Nat /\ Len(target) \in Nat
        BY <2>1, ScopeLemma, LenProperties DEF TypeOK
      <4> QED
        BY <3>2, <4>1 DEF Node
    <3>4. PICK ns : ns = <<node>>
      OBVIOUS
    <3>5. ns \in Seq(Node) /\ AppendNodes(ns)
      BY <2>2, <3>2, <3>3, <3>4 DEF CloseBlock
    <3>6. Len(sections') = (IF sections = <<>> THEN 1 ELSE Len(sections))
      BY <2>1, <3>5, AppendNodesShape
    <3> QED
      BY <3>1, <3>6
  <2>3. CASE ~CloseBlock
    <3>1. ~Title /\ ~Disable /\ \A form \in Form : ~SkipDisabled(form) /\ ~Emit(form) /\ ~OpenBlock(form)
      BY DEF Title, Disable, SkipDisabled, Emit, OpenBlock
    <3>2. ~StatementFails /\ ~TooLong /\ ~ReturnFromRoot
      BY DEF StatementFails, TooLong, Fail, ReturnFromRoot
    <3>3. sections' = sections /\ disabled' = disabled
      BY <2>3, <3>1, <3>2 DEF Next, Ignore, Define, Include, Call, Expands, EmitInBlock,
         ReturnFromFile, ReturnFromMacro, vars
    <3> QED
      BY <2>1, <3>3
  <2> QED
    BY <2>2, <2>3
<1> QED
  BY <1>1, WalkInvariant, PTL DEF Spec, OpenBlocksHoldTheSection

\* While a section stays disabled, whatever is read changes neither the result nor
\* what can be seen.
THEOREM DisabledSectionsAreSilent == Spec => DisabledIsSilent
<1>1. WalkInv /\ [Next]_vars => [disabled /\ disabled' => UNCHANGED <<sections, scope, inner>>]_vars
  <2> SUFFICES ASSUME WalkInv, [Next]_vars, disabled, disabled'
               PROVE  UNCHANGED <<sections, scope, inner>>
    OBVIOUS
  <2>1. phase = "parse" => ~InBlock /\ Top.kind # "block"
    BY CallerLemma DEF WalkInv, StackOK
  <2> QED
    BY <2>1 DEF Next, Title, Disable, Ignore, Define, Include, Call, Expands, SkipDisabled,
       NewSection, Reads, Emit, OpenBlock, EmitInBlock, StatementFails, TooLong, Fail,
       ReturnFromRoot, ReturnFromFile, ReturnFromMacro, CloseBlock, vars
<1> QED
  BY <1>1, WalkInvariant, PTL DEF Spec, DisabledIsSilent

=============================================================================
