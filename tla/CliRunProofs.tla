---------------------------- MODULE CliRunProofs ----------------------------
(***************************************************************************)
(* Theorems about CliRun, for all processes, jobs and paths: what is left  *)
(* behind, what the exit status says, and that the processes implement     *)
(* AtomicStore.                                                            *)
(***************************************************************************)
EXTENDS CliRun, FiniteSetTheorems, TLAPS

----------------------------------------------------------------------------
(* The inductive invariant *)

TypeOK ==
    /\ disk \in [Path -> Content \cup {Before}]
    /\ pc \in [Procs -> Steps \cup Ends]
    /\ job \in [Procs -> Nat]
    /\ kind \in [Procs -> Kinds]
    /\ temp \in [Procs -> Content \cup {NoFile}]
    /\ errored \in [Procs -> BOOLEAN]
    /\ status \in [Procs -> {0, 1}]
    /\ interrupted \in [Procs -> BOOLEAN]
    /\ renamed \subseteq Content

\* A process is within writeAtomic.
Writes(p) == pc[p] \in {"create", "write", "close", "rename", "remove"}

\* The job and the output a process is at are some of its own; its temporary file
\* is there for them only, and complete when it is about to be renamed; an error
\* is pending only until the file has been removed.
PlaceOK(p) ==
    /\ pc[p] \in Steps => job[p] \in DOMAIN Jobs[p]
    /\ pc[p] = "exited" => job[p] >= Len(Jobs[p])
    /\ Writes(p) => kind[p] \in Current(p).outputs
    /\ pc[p] \in {"exited", "compile", "create"} => temp[p] = NoFile
    /\ pc[p] \in {"close", "rename"} => temp[p] = Written(p, job[p], kind[p])
    /\ errored[p] => pc[p] \in {"remove", "crashed"}

\* The GCT of the output that is being written is in place, and so is that output
\* itself once it has been renamed.
OrderOK(p) ==
    /\ pc[p] = "remove" /\ ~errored[p] => Written(p, job[p], kind[p]) \in renamed
    /\ Writes(p) /\ kind[p] # "gct" => Written(p, job[p], "gct") \in renamed

\* The loop has gone past output o.
Passed(p, o) ==
    \/ o[1] < job[p]
    \/ pc[p] = "exited"
    \/ Writes(p) /\ o[1] = job[p] /\ kind[p] \in Rest(o[2])

NothingExcused(p) == \A j \in DOMAIN Jobs[p] : Jobs[p][j].missingFails

\* While the status is zero, what the loop has gone past is in place.
StatusOK(p) ==
    status[p] = 0 /\ NothingExcused(p) =>
        \A o \in Outputs(p) : Passed(p, o) => Written(p, o[1], o[2]) \in renamed

\* Whatever the status, what the loop has gone past is in place or has failed.
OutcomeOK(p) ==
    /\ errored[p] => <<p, job[p], kind[p]>> \in failures
    /\ \A o \in Outputs(p) : Passed(p, o) => Accounted(p, o)

\* What has been renamed is a planned output, complete, at its path, and not
\* without its GCT.
RenamedOK ==
    \A c \in renamed :
        /\ c = Written(c.by, c.job, c.kind)
        /\ <<c.job, c.kind>> \in Outputs(c.by)
        /\ Written(c.by, c.job, "gct") \in renamed
        /\ disk[PathOf(c.by, <<c.job, c.kind>>)] # Before

Crashed == {p \in Procs : pc[p] = "crashed"}

LitterOK == litter \in Nat /\ IsFiniteSet(Crashed) /\ litter <= Cardinality(Crashed)

RunInv ==
    /\ TypeOK
    /\ \A p \in Procs : PlaceOK(p) /\ OrderOK(p) /\ StatusOK(p) /\ OutcomeOK(p)
    /\ RenamedOK
    /\ LitterOK

----------------------------------------------------------------------------
(* Lemmas *)

\* The jobs of a process are numbered from 1, and each of them has a GCT.
LEMMA JobsLemma ==
    ASSUME NEW p \in Procs
    PROVE  /\ Len(Jobs[p]) \in Nat
           /\ DOMAIN Jobs[p] = 1..Len(Jobs[p])
           /\ \A j \in DOMAIN Jobs[p] : Jobs[p][j] \in Job /\ "gct" \in Jobs[p][j].outputs
           /\ (Jobs[p] = <<>>) = (Len(Jobs[p]) = 0)
<1>1. Jobs[p] \in Seq(Job)
  BY RunAssumption
<1> QED
  BY <1>1, RunAssumption

\* An output is not what a file held before, and its fields name it.
LEMMA WrittenLemma ==
    ASSUME NEW p, NEW j, NEW k
    PROVE  /\ Written(p, j, k).by = p /\ Written(p, j, k).job = j /\ Written(p, j, k).kind = k
           /\ p \in Procs /\ j \in Nat /\ k \in Kinds =>
                  Written(p, j, k) \in Content /\ Written(p, j, k) # Before
<1>1. p \in Procs /\ j \in Nat /\ k \in Kinds => Written(p, j, k) \in Content
  BY DEF Written, Content
<1>2. /\ Written(p, j, k).by = p /\ Written(p, j, k).job = j /\ Written(p, j, k).kind = k
  BY DEF Written
<1> QED
  BY <1>1, <1>2, RunAssumption

\* The output a process writes is one of those planned, and has its path.
LEMMA CurrentLemma ==
    ASSUME TypeOK, NEW p \in Procs, PlaceOK(p), Writes(p)
    PROVE  /\ job[p] \in DOMAIN Jobs[p] /\ job[p] \in Nat \ {0}
           /\ kind[p] \in Kinds
           /\ Destination(p) \in Path
           /\ <<job[p], kind[p]>> \in Outputs(p)
           /\ PathOf(p, <<job[p], kind[p]>>) = Destination(p)
<1>1. job[p] \in DOMAIN Jobs[p] /\ kind[p] \in Current(p).outputs /\ kind[p] \in Kinds
  BY DEF PlaceOK, Writes, Steps, TypeOK
<1>2. Current(p) \in Job /\ job[p] \in Nat \ {0}
  BY <1>1, JobsLemma DEF Current, TypeOK
<1>3. Destination(p) \in Path
  BY <1>1, <1>2 DEF Destination, Job
<1>4. <<job[p], kind[p]>> \in Outputs(p)
  BY <1>1 DEF Outputs, Current
<1> QED
  BY <1>1, <1>2, <1>3, <1>4 DEF PathOf, Destination, Current

\* The loop ends, or goes to the next job.
LEMMA NextJobLemma ==
    ASSUME TypeOK, NEW p \in Procs, job[p] \in DOMAIN Jobs[p], NextJob(p)
    PROVE  /\ pc' \in [Procs -> Steps \cup Ends] /\ job' \in [Procs -> Nat]
           /\ \A q \in Procs \ {p} : pc'[q] = pc[q] /\ job'[q] = job[q]
           /\ pc'[p] \in {"compile", "exited"}
           /\ pc'[p] = "compile" => job'[p] \in DOMAIN Jobs[p]
           /\ pc'[p] = "exited" => job'[p] >= Len(Jobs[p])
           /\ job'[p] <= job[p] + 1
           /\ pc'[p] = "exited" => job[p] = Len(Jobs[p])
<1>1. job[p] \in Nat \ {0} /\ Len(Jobs[p]) \in Nat /\ DOMAIN Jobs[p] = 1..Len(Jobs[p])
  BY JobsLemma
<1>2. CASE job[p] < Len(Jobs[p])
  <2>1. pc' = [pc EXCEPT ![p] = "compile"] /\ job' = [job EXCEPT ![p] = job[p] + 1]
    BY <1>2 DEF NextJob, Goto
  <2> QED
    BY <1>1, <1>2, <2>1 DEF TypeOK, Steps
<1>3. CASE ~(job[p] < Len(Jobs[p]))
  <2>1. pc' = [pc EXCEPT ![p] = "exited"] /\ job' = job
    BY <1>3 DEF NextJob, Goto
  <2> QED
    BY <1>1, <1>3, <2>1 DEF TypeOK, Ends
<1> QED
  BY <1>2, <1>3

\* When the loop leaves its job, it goes past nothing behind that job.
LEMMA LeaveLemma ==
    ASSUME TypeOK, NEW p \in Procs, job[p] \in DOMAIN Jobs[p], NextJob(p)
    PROVE  \A o \in Outputs(p) : Passed(p, o)' => o[1] < job[p] \/ o[1] = job[p]
<1>1. job[p] \in Nat \ {0} /\ Len(Jobs[p]) \in Nat
  BY JobsLemma
<1>2. /\ pc'[p] \in {"compile", "exited"} /\ job'[p] \in Nat
      /\ job'[p] <= job[p] + 1
      /\ pc'[p] = "exited" => job[p] = Len(Jobs[p])
  BY NextJobLemma
<1> SUFFICES ASSUME NEW o \in Outputs(p), Passed(p, o)'
             PROVE  o[1] < job[p] \/ o[1] = job[p]
  OBVIOUS
<1>3. o[1] \in 1..Len(Jobs[p])
  BY JobsLemma DEF Outputs
<1>4. o[1] < job'[p] \/ pc'[p] = "exited"
  BY <1>2 DEF Passed, Writes
<1> QED
  BY <1>1, <1>2, <1>3, <1>4

----------------------------------------------------------------------------
(* Types *)

\* Every step of a process keeps the variables in their sets.
LEMMA TypeStep ==
    ASSUME TypeOK, \A p \in Procs : PlaceOK(p), [Next]_vars
    PROVE  TypeOK'
<1> SUFFICES ASSUME NEW p \in Procs, Step(p) \/ Interrupt(p) \/ Crash(p)
             PROVE  TypeOK'
  <2>1. CASE UNCHANGED vars
    BY <2>1 DEF TypeOK, vars
  <2> QED
    BY <2>1 DEF Next
<1>1. CASE Compile(p)
  BY <1>1 DEF Compile, Goto, TypeOK, Steps, Kinds
<1>2. CASE (\E missingFile \in BOOLEAN : CompileFails(p, missingFile)) \/ RefuseToOverwrite(p)
  <2>1. pc[p] = "compile" /\ NextJob(p)
    BY <1>2 DEF CompileFails, RefuseToOverwrite
  <2>2. job[p] \in DOMAIN Jobs[p]
    BY <2>1 DEF PlaceOK, Steps
  <2>3. pc' \in [Procs -> Steps \cup Ends] /\ job' \in [Procs -> Nat]
    BY <2>1, <2>2, NextJobLemma
  <2>4. status' \in [Procs -> {0, 1}]
    BY <1>2 DEF CompileFails, RefuseToOverwrite, Raise, TypeOK
  <2> QED
    BY <1>2, <2>3, <2>4 DEF CompileFails, RefuseToOverwrite, TypeOK
<1>3. CASE Create(p) \/ Write(p)
  <2>1. Temporary(p, FALSE) \in Content /\ Temporary(p, TRUE) \in Content
    BY DEF Temporary, Content, TypeOK
  <2> QED
    BY <1>3, <2>1 DEF Create, Write, Goto, TypeOK, Steps
<1>4. CASE Close(p)
  BY <1>4 DEF Close, Goto, TypeOK, Steps
<1>5. CASE Rename(p)
  <2>1. temp[p] = Written(p, job[p], kind[p]) /\ Writes(p)
    BY <1>5 DEF Rename, PlaceOK, Writes
  <2>2. temp[p] \in Content
    BY <2>1 DEF Written, Content, TypeOK
  <2>3. Destination(p) \in Path
    BY <2>1, CurrentLemma
  <2> QED
    BY <1>5, <2>2, <2>3 DEF Rename, Goto, TypeOK, Steps
<1>6. CASE WriteError(p)
  BY <1>6 DEF WriteError, Goto, TypeOK, Steps
<1>7. CASE Return(p)
  <2>1. pc[p] = "remove" /\ job[p] \in DOMAIN Jobs[p]
    BY <1>7 DEF Return, PlaceOK, Steps
  <2>2. pc' \in [Procs -> Steps \cup Ends] /\ job' \in [Procs -> Nat] /\ kind' \in [Procs -> Kinds]
    <3>1. CASE NextJob(p) /\ UNCHANGED kind
      BY <2>1, <3>1, NextJobLemma DEF TypeOK
    <3>2. CASE Goto(p, "create") /\ kind' = [kind EXCEPT ![p] = Following(p)] /\ UNCHANGED job
      BY <3>2 DEF Goto, TypeOK, Steps, Following, Kinds
    <3> QED
      BY <1>7, <3>1, <3>2 DEF Return
  <2>3. status' \in [Procs -> {0, 1}]
    BY <1>7 DEF Return, StatusAfterWrite, Raise, TypeOK
  <2>4. temp' \in [Procs -> Content \cup {NoFile}] /\ errored' \in [Procs -> BOOLEAN]
    BY <1>7 DEF Return, TypeOK
  <2> QED
    BY <1>7, <2>2, <2>3, <2>4 DEF Return, TypeOK
<1>8. CASE Interrupt(p)
  BY <1>8 DEF Interrupt, TypeOK
<1>9. CASE Crash(p)
  BY <1>9 DEF Crash, Goto, TypeOK, Ends
<1> QED
  BY <1>1, <1>2, <1>3, <1>4, <1>5, <1>6, <1>7, <1>8, <1>9 DEF Step

----------------------------------------------------------------------------
(* A step of one process disturbs no other *)

\* A step of one process changes nothing that belongs to another one, and takes back no
\* rename and no failure.
LEMMA OthersLemma ==
    ASSUME RunInv, NEW p \in Procs, Step(p) \/ Interrupt(p) \/ Crash(p)
    PROVE  /\ renamed \subseteq renamed' /\ failures \subseteq failures'
           /\ \A q \in Procs \ {p} :
                  /\ pc'[q] = pc[q] /\ job'[q] = job[q] /\ kind'[q] = kind[q]
                  /\ temp'[q] = temp[q] /\ errored'[q] = errored[q] /\ status'[q] = status[q]
<1> USE DEF RunInv, TypeOK, Goto
<1>1. CASE Compile(p)
  BY <1>1 DEF Compile
<1>2. CASE (\E missingFile \in BOOLEAN : CompileFails(p, missingFile)) \/ RefuseToOverwrite(p)
  BY <1>2 DEF CompileFails, RefuseToOverwrite, NextJob, Raise, JobFails
<1>3. CASE Create(p) \/ Write(p)
  BY <1>3 DEF Create, Write
<1>4. CASE Close(p)
  BY <1>4 DEF Close
<1>5. CASE Rename(p)
  BY <1>5 DEF Rename
<1>6. CASE WriteError(p)
  BY <1>6 DEF WriteError
<1>7. CASE Return(p)
  BY <1>7 DEF Return, StatusAfterWrite, NextJob, Raise
<1>8. CASE Interrupt(p)
  BY <1>8 DEF Interrupt
<1>9. CASE Crash(p)
  BY <1>9 DEF Crash
<1> QED
  BY <1>1, <1>2, <1>3, <1>4, <1>5, <1>6, <1>7, <1>8, <1>9 DEF Step

\* What is said of a process stays true when its own variables do not change and
\* more outputs are put in place or fail.
LEMMA FrameLemma ==
    ASSUME NEW q \in Procs, PlaceOK(q), OrderOK(q), StatusOK(q), OutcomeOK(q),
           renamed \subseteq renamed', failures \subseteq failures',
           pc'[q] = pc[q], job'[q] = job[q], kind'[q] = kind[q],
           temp'[q] = temp[q], errored'[q] = errored[q], status'[q] = status[q]
    PROVE  PlaceOK(q)' /\ OrderOK(q)' /\ StatusOK(q)' /\ OutcomeOK(q)'
<1>1. PlaceOK(q)'
  BY DEF PlaceOK, Writes, Current
<1>2. OrderOK(q)'
  BY DEF OrderOK, Writes
<1>3. StatusOK(q)'
  BY DEF StatusOK, Passed, Writes
<1>4. OutcomeOK(q)'
  BY DEF OutcomeOK, Passed, Writes, Accounted
<1> QED
  BY <1>1, <1>2, <1>3, <1>4

----------------------------------------------------------------------------
(* A process keeps what is said of it *)

\* The steps before and within writeAtomic, and those of the environment.
LEMMA WriteStep ==
    ASSUME RunInv, NEW p \in Procs,
           \/ Compile(p) \/ Create(p) \/ Write(p) \/ Close(p) \/ Rename(p) \/ WriteError(p)
           \/ Interrupt(p) \/ Crash(p)
    PROVE  PlaceOK(p)' /\ OrderOK(p)' /\ StatusOK(p)'
<1> USE DEF RunInv, TypeOK, Goto, Writes, Steps, Ends
<1>0. PlaceOK(p) /\ OrderOK(p) /\ StatusOK(p) /\ OutcomeOK(p)
  OBVIOUS
<1>1. CASE Compile(p)
  <2>1. "gct" \in Current(p).outputs
    BY <1>0, <1>1, JobsLemma DEF Compile, PlaceOK, Current
  <2>2. PlaceOK(p)'
    BY <1>0, <1>1, <2>1 DEF Compile, PlaceOK, Current
  <2>3. OrderOK(p)'
    BY <1>0, <1>1 DEF Compile, OrderOK
  <2>4. StatusOK(p)'
    BY <1>0, <1>1 DEF Compile, StatusOK, Passed, Outputs, Rest, Kinds
  <2> QED
    BY <2>2, <2>3, <2>4
<1>2. CASE Create(p) \/ Write(p)
  <2>1. PlaceOK(p)'
    BY ZenonT(30), <1>0, <1>2 DEF Create, Write, PlaceOK, Current, Temporary, Written
  <2>2. OrderOK(p)'
    BY <1>0, <1>2 DEF Create, Write, OrderOK
  <2>3. StatusOK(p)'
    BY <1>0, <1>2 DEF Create, Write, StatusOK, Passed
  <2> QED
    BY <2>1, <2>2, <2>3
<1>3. CASE Close(p)
  <2>1. PlaceOK(p)'
    BY <1>0, <1>3 DEF Close, PlaceOK, Current
  <2>2. OrderOK(p)'
    BY <1>0, <1>3 DEF Close, OrderOK
  <2>3. StatusOK(p)'
    BY <1>0, <1>3 DEF Close, StatusOK, Passed
  <2> QED
    BY <2>1, <2>2, <2>3
<1>4. CASE Rename(p)
  <2>1. PlaceOK(p)'
    BY <1>0, <1>4 DEF Rename, PlaceOK, Current
  <2>2. OrderOK(p)'
    BY <1>0, <1>4 DEF Rename, OrderOK, PlaceOK
  <2>3. StatusOK(p)'
    BY <1>0, <1>4 DEF Rename, StatusOK, Passed
  <2> QED
    BY <2>1, <2>2, <2>3
<1>5. CASE WriteError(p)
  <2>1. PlaceOK(p)'
    BY <1>0, <1>5 DEF WriteError, PlaceOK, Current
  <2>2. OrderOK(p)'
    BY <1>0, <1>5 DEF WriteError, OrderOK
  <2>3. StatusOK(p)'
    BY <1>0, <1>5 DEF WriteError, StatusOK, Passed
  <2> QED
    BY <2>1, <2>2, <2>3
<1>6. CASE Interrupt(p)
  BY <1>0, <1>6, FrameLemma DEF Interrupt
<1>7. CASE Crash(p)
  <2>1. PlaceOK(p)'
    BY <1>0, <1>7 DEF Crash, PlaceOK, Current
  <2>2. OrderOK(p)'
    BY <1>0, <1>7 DEF Crash, OrderOK
  <2>3. StatusOK(p)'
    BY <1>0, <1>7 DEF Crash, StatusOK, Passed
  <2> QED
    BY <2>1, <2>2, <2>3
<1> QED
  BY <1>1, <1>2, <1>3, <1>4, <1>5, <1>6, <1>7

\* A job that cannot be assembled: it sets the status, or the process is excused.
LEMMA FailStep ==
    ASSUME RunInv, NEW p \in Procs,
           (\E missingFile \in BOOLEAN : CompileFails(p, missingFile)) \/ RefuseToOverwrite(p)
    PROVE  PlaceOK(p)' /\ OrderOK(p)' /\ StatusOK(p)'
<1>1. PlaceOK(p) /\ OrderOK(p) /\ StatusOK(p) /\ TypeOK
  BY DEF RunInv
<1>2. pc[p] = "compile" /\ NextJob(p) /\ UNCHANGED <<kind, temp, errored, renamed>>
  BY DEF CompileFails, RefuseToOverwrite
<1>3. job[p] \in DOMAIN Jobs[p]
  BY <1>1, <1>2 DEF PlaceOK, Steps
<1>4. /\ pc'[p] \in {"compile", "exited"}
      /\ pc'[p] = "compile" => job'[p] \in DOMAIN Jobs[p]
      /\ pc'[p] = "exited" => job'[p] >= Len(Jobs[p])
  BY <1>1, <1>2, <1>3, NextJobLemma
<1>5. PlaceOK(p)'
  BY <1>1, <1>2, <1>4 DEF PlaceOK, Writes, Steps
<1>6. OrderOK(p)'
  BY <1>2, <1>4 DEF OrderOK, Writes
<1>7. StatusOK(p)'
  <2>1. status'[p] = 1 \/ ~Jobs[p][job[p]].missingFails
    BY <1>1 DEF CompileFails, RefuseToOverwrite, Raise, TypeOK, Current
  <2> QED
    BY <1>3, <2>1 DEF StatusOK, NothingExcused
<1> QED
  BY <1>5, <1>6, <1>7

\* The outputs of a job have an order, in which Following goes one step.
LEMMA RestLemma ==
    /\ \A k, l \in Kinds : k = l \/ k \in Rest(l) \/ l \in Rest(k)
    /\ \A k \in Kinds : Rest(k) \subseteq Kinds /\ "gct" \notin Rest(k)
    /\ Rest("text") = {"log"}
    /\ Rest("log") = {}
<1>1. Rest("gct") = {"text", "log"} /\ Rest("text") = {"log"} /\ Rest("log") = {}
  BY DEF Rest
<1> QED
  BY <1>1 DEF Kinds

\* A job is left when no output of it remains, and its next output otherwise
\* comes directly after the one just written.
LEMMA FollowingLemma ==
    ASSUME TypeOK, NEW p \in Procs, ~IsLast(p)
    PROVE  /\ Following(p) \in Rest(kind[p]) \cap Current(p).outputs
           /\ \A k \in Rest(kind[p]) \cap Current(p).outputs : Following(p) \notin Rest(k)
<1> DEFINE rest == Rest(kind[p]) \cap Current(p).outputs
<1>1. rest # {} /\ rest \subseteq {"text", "log"}
  BY RestLemma DEF IsLast, TypeOK, Kinds
<1>2. Following(p) = IF "text" \in rest THEN "text" ELSE "log"
  BY DEF Following
<1>3. Following(p) \in rest
  BY <1>1, <1>2
<1>4. \A k \in rest : Following(p) \notin Rest(k)
  BY <1>1, <1>2, RestLemma
<1> QED
  BY <1>3, <1>4

\* The end of writeAtomic: what the loop goes past is in place, or the status says
\* that it is not.
LEMMA ReturnStep ==
    ASSUME RunInv, NEW p \in Procs, Return(p)
    PROVE  PlaceOK(p)' /\ OrderOK(p)' /\ StatusOK(p)'
<1>1. PlaceOK(p) /\ OrderOK(p) /\ StatusOK(p) /\ TypeOK
  BY DEF RunInv
<1>2. /\ pc[p] = "remove" /\ Writes(p) /\ temp'[p] = NoFile /\ errored'[p] = FALSE
      /\ renamed' = renamed
  BY <1>1 DEF Return, Writes, TypeOK
<1>3. /\ job[p] \in DOMAIN Jobs[p] /\ job[p] \in Nat /\ kind[p] \in Kinds
      /\ DOMAIN Jobs[p] = 1..Len(Jobs[p]) /\ Len(Jobs[p]) \in Nat
  BY <1>1, <1>2, CurrentLemma, JobsLemma
<1>4. ~errored[p] => Written(p, job[p], kind[p]) \in renamed
  BY <1>1, <1>2 DEF OrderOK
<1>5. \A o \in Outputs(p) : o[1] \in 1..Len(Jobs[p]) /\ o[2] \in Kinds /\ o[2] \in Jobs[p][o[1]].outputs
  BY <1>3 DEF Outputs
<1>6. status[p] = 0 /\ NothingExcused(p) /\ ~errored[p] =>
          \A o \in Outputs(p) :
              o[1] < job[p] \/ (o[1] = job[p] /\ o[2] \notin Rest(kind[p]))
                  => Written(p, o[1], o[2]) \in renamed
  <2> SUFFICES ASSUME status[p] = 0, NothingExcused(p), ~errored[p], NEW o \in Outputs(p),
                      o[1] < job[p] \/ (o[1] = job[p] /\ o[2] \notin Rest(kind[p]))
               PROVE  Written(p, o[1], o[2]) \in renamed
    OBVIOUS
  <2>1. CASE o[1] = job[p] /\ o[2] = kind[p]
    BY <1>4, <2>1
  <2>2. CASE Passed(p, o)
    BY <1>1, <2>2 DEF StatusOK
  <2>3. o[1] = job[p] /\ o[2] # kind[p] => kind[p] \in Rest(o[2])
    BY <1>3, <1>5, RestLemma
  <2> QED
    BY <1>2, <2>1, <2>2, <2>3 DEF Passed
<1>7. status'[p] = 0 => status[p] = 0 /\ ~errored[p]
  BY <1>1 DEF Return, StatusAfterWrite, Raise, TypeOK
<1>8. CASE (IsLast(p) \/ (errored[p] /\ kind[p] = "gct")) /\ NextJob(p) /\ UNCHANGED kind
  <2>1. /\ pc'[p] \in {"compile", "exited"}
        /\ pc'[p] = "compile" => job'[p] \in DOMAIN Jobs[p]
        /\ pc'[p] = "exited" => job'[p] >= Len(Jobs[p]) /\ job[p] = Len(Jobs[p])
        /\ job'[p] <= job[p] + 1 /\ job'[p] \in Nat
    BY <1>1, <1>3, <1>8, NextJobLemma
  <2>2. PlaceOK(p)'
    BY <1>2, <2>1 DEF PlaceOK, Writes, Steps
  <2>3. OrderOK(p)'
    BY <1>2, <2>1 DEF OrderOK, Writes
  <2>4. StatusOK(p)'
    <3> SUFFICES ASSUME status'[p] = 0, NothingExcused(p), NEW o \in Outputs(p), Passed(p, o)'
                 PROVE  Written(p, o[1], o[2]) \in renamed
      BY <1>2 DEF StatusOK, NothingExcused, Outputs
    <3>1. status[p] = 0 /\ ~errored[p] /\ IsLast(p)
      BY <1>7, <1>8
    <3>2. o[1] <= job[p]
      BY <1>3, <1>5, <2>1 DEF Passed, Writes
    <3>3. o[1] = job[p] => o[2] \notin Rest(kind[p])
      BY <1>5, <3>1 DEF IsLast, Current
    <3> QED
      BY <1>3, <1>5, <1>6, <3>1, <3>2, <3>3
  <2> QED
    BY <2>2, <2>3, <2>4
<1>9. CASE /\ ~(IsLast(p) \/ (errored[p] /\ kind[p] = "gct"))
           /\ Goto(p, "create") /\ kind' = [kind EXCEPT ![p] = Following(p)] /\ UNCHANGED job
  <2>1. pc'[p] = "create" /\ kind'[p] = Following(p) /\ job' = job
    BY <1>1, <1>9 DEF Goto, TypeOK
  <2>2. /\ Following(p) \in Rest(kind[p]) \cap Current(p).outputs
        /\ \A k \in Rest(kind[p]) \cap Current(p).outputs : Following(p) \notin Rest(k)
    BY <1>1, <1>9, FollowingLemma
  <2>3. PlaceOK(p)'
    BY <1>2, <1>3, <2>1, <2>2 DEF PlaceOK, Writes, Current
  <2>4. OrderOK(p)'
    BY <1>1, <1>2, <1>4, <1>9, <2>1 DEF OrderOK, Writes
  <2>5. StatusOK(p)'
    <3> SUFFICES ASSUME status'[p] = 0, NothingExcused(p), NEW o \in Outputs(p), Passed(p, o)'
                 PROVE  Written(p, o[1], o[2]) \in renamed
      BY <1>2 DEF StatusOK, NothingExcused, Outputs
    <3>1. o[1] < job[p] \/ (o[1] = job[p] /\ Following(p) \in Rest(o[2]))
      BY <2>1 DEF Passed, Writes
    <3>2. o[1] = job[p] /\ Following(p) \in Rest(o[2]) => o[2] \notin Rest(kind[p])
      BY <1>5, <2>2 DEF Current
    <3> QED
      BY <1>6, <1>7, <3>1, <3>2
  <2> QED
    BY <2>3, <2>4, <2>5
<1> QED
  BY <1>8, <1>9 DEF Return

\* What the loop goes past is in place or has failed: a job that fails is left with
\* its failed GCT, and the end of writeAtomic leaves the output in place or failed.
LEMMA OutcomeStep ==
    ASSUME RunInv, NEW p \in Procs, Step(p) \/ Interrupt(p) \/ Crash(p)
    PROVE  OutcomeOK(p)'
<1>1. PlaceOK(p) /\ OrderOK(p) /\ OutcomeOK(p) /\ TypeOK
  BY DEF RunInv
<1>2. renamed \subseteq renamed' /\ failures \subseteq failures'
  BY OthersLemma
<1>3. \A o \in Outputs(p) : Accounted(p, o) => Accounted(p, o)'
  BY <1>2 DEF Accounted
<1>4. \A o \in Outputs(p) : o[1] \in 1..Len(Jobs[p]) /\ o[2] \in Kinds /\ o[2] \in Jobs[p][o[1]].outputs
  BY JobsLemma DEF Outputs
<1>5. SUFFICES /\ errored'[p] => <<p, job'[p], kind'[p]>> \in failures'
               /\ \A o \in Outputs(p) : Passed(p, o)' => Passed(p, o) \/ Accounted(p, o)'
  BY <1>1, <1>3 DEF OutcomeOK
<1>6. CASE Compile(p)
  <2>1. ~errored'[p] /\ job'[p] = job[p] /\ pc'[p] = "create" /\ kind'[p] = "gct"
    BY <1>1, <1>6 DEF Compile, Goto, PlaceOK, TypeOK
  <2> QED
    BY <1>4, <2>1, RestLemma DEF Passed
<1>7. CASE Create(p) \/ Write(p) \/ Close(p) \/ Rename(p) \/ WriteError(p)
  <2>1. /\ Writes(p) /\ Writes(p)' /\ job'[p] = job[p] /\ kind'[p] = kind[p]
        /\ pc'[p] # "exited"
    BY <1>1, <1>7 DEF Create, Write, Close, Rename, WriteError, Goto, Writes, TypeOK
  <2>2. errored'[p] => <<p, job[p], kind[p]>> \in failures'
    BY <1>1, <1>2, <1>7 DEF Create, Write, Close, Rename, WriteError, OutcomeOK, TypeOK
  <2> QED
    BY <2>1, <2>2 DEF Passed
<1>8. CASE Interrupt(p) \/ Crash(p)
  <2>1. /\ job'[p] = job[p] /\ kind'[p] = kind[p] /\ errored'[p] = errored[p]
        /\ pc'[p] = pc[p] \/ pc'[p] = "crashed"
    BY <1>1, <1>8 DEF Interrupt, Crash, Goto, TypeOK
  <2> QED
    BY <1>1, <1>2, <2>1 DEF OutcomeOK, Passed, Writes
<1>9. CASE (\E missingFile \in BOOLEAN : CompileFails(p, missingFile)) \/ RefuseToOverwrite(p)
  <2>1. /\ pc[p] = "compile" /\ NextJob(p) /\ errored' = errored
        /\ <<p, job[p], "gct">> \in failures'
    BY <1>9 DEF CompileFails, RefuseToOverwrite, JobFails
  <2>2. job[p] \in DOMAIN Jobs[p] /\ ~errored[p]
    BY <1>1, <2>1 DEF PlaceOK, Steps
  <2>3. \A o \in Outputs(p) : Passed(p, o)' => o[1] < job[p] \/ o[1] = job[p]
    BY <1>1, <2>1, <2>2, LeaveLemma
  <2>4. \A o \in Outputs(p) : o[1] = job[p] => Accounted(p, o)'
    BY <2>1 DEF Accounted
  <2> QED
    BY <2>1, <2>2, <2>3, <2>4 DEF Passed
<1>10. CASE Return(p)
  <2>1. /\ pc[p] = "remove" /\ Writes(p) /\ ~errored'[p]
        /\ renamed' = renamed /\ failures' = failures
        /\ job[p] \in DOMAIN Jobs[p] /\ kind[p] \in Kinds
    BY <1>1, <1>10, CurrentLemma DEF Return, Writes, TypeOK
  <2>2. \A o \in Outputs(p) : o = <<o[1], o[2]>>
    BY DEF Outputs
  <2>3. \A o \in Outputs(p) : o[1] = job[p] /\ o[2] = kind[p] => Accounted(p, o)'
    BY <1>1, <2>1 DEF OrderOK, OutcomeOK, Accounted
  <2>4. \A o \in Outputs(p) :
            o[1] = job[p] => Passed(p, o) \/ Accounted(p, o)' \/ o[2] \in Rest(kind[p])
    BY <1>4, <2>1, <2>3, RestLemma DEF Passed
  <2>5. CASE (IsLast(p) \/ (errored[p] /\ kind[p] = "gct")) /\ NextJob(p) /\ UNCHANGED kind
    <3>1. \A o \in Outputs(p) : Passed(p, o)' => o[1] < job[p] \/ o[1] = job[p]
      BY <1>1, <2>1, <2>5, LeaveLemma
    <3>2. \A o \in Outputs(p) : o[1] = job[p] => Passed(p, o) \/ Accounted(p, o)'
      <4>1. CASE IsLast(p)
        BY <1>4, <2>4, <4>1 DEF IsLast, Current
      <4>2. CASE errored[p] /\ kind[p] = "gct"
        BY <1>1, <2>1, <4>2 DEF OutcomeOK, Accounted
      <4> QED
        BY <2>5, <4>1, <4>2
    <3> QED
      BY <2>1, <3>1, <3>2 DEF Passed
  <2>6. CASE /\ ~(IsLast(p) \/ (errored[p] /\ kind[p] = "gct"))
             /\ Goto(p, "create") /\ kind' = [kind EXCEPT ![p] = Following(p)] /\ UNCHANGED job
    <3>1. pc'[p] = "create" /\ kind'[p] = Following(p) /\ job' = job
      BY <1>1, <2>6 DEF Goto, TypeOK
    <3>2. \A k \in Rest(kind[p]) \cap Current(p).outputs : Following(p) \notin Rest(k)
      BY <1>1, <2>6, FollowingLemma
    <3>3. \A o \in Outputs(p) :
              o[1] = job[p] /\ Following(p) \in Rest(o[2]) => o[2] \notin Rest(kind[p])
      BY <1>4, <3>2 DEF Current
    <3> QED
      BY <2>1, <2>4, <3>1, <3>3 DEF Passed, Writes
  <2> QED
    BY <1>10, <2>5, <2>6 DEF Return
<1> QED
  BY <1>6, <1>7, <1>8, <1>9, <1>10 DEF Step

----------------------------------------------------------------------------
(* What has been put in place, and what crashes leave behind *)

\* Only Rename changes a file or puts an output in place, and it puts the complete
\* output of the current job at the path of that output.
LEMMA DiskLemma ==
    ASSUME RunInv, NEW p \in Procs, Step(p) \/ Interrupt(p) \/ Crash(p)
    PROVE  \/ UNCHANGED <<disk, renamed>>
           \/ /\ Writes(p)
              /\ disk' = [disk EXCEPT ![Destination(p)] = Written(p, job[p], kind[p])]
              /\ renamed' = renamed \cup {Written(p, job[p], kind[p])}
<1>1. CASE Rename(p)
  BY <1>1 DEF Rename, RunInv, PlaceOK, Writes
<1> QED
  BY <1>1 DEF Step, Compile, CompileFails, RefuseToOverwrite, Create, Write, Close, WriteError,
              Return, Interrupt, Crash

\* Outputs that are in place were planned, and have their GCT; and their files keep
\* holding an output, for no step restores what a file held before.
LEMMA RenamedStep ==
    ASSUME RunInv, NEW p \in Procs, Step(p) \/ Interrupt(p) \/ Crash(p)
    PROVE  RenamedOK'
<1>1. TypeOK /\ RenamedOK /\ PlaceOK(p) /\ OrderOK(p)
  BY DEF RunInv
<1>2. CASE UNCHANGED <<disk, renamed>>
  BY <1>1, <1>2 DEF RenamedOK
<1>3. CASE /\ Writes(p)
           /\ disk' = [disk EXCEPT ![Destination(p)] = Written(p, job[p], kind[p])]
           /\ renamed' = renamed \cup {Written(p, job[p], kind[p])}
  <2> DEFINE new == Written(p, job[p], kind[p])
  <2>1. /\ job[p] \in Nat /\ kind[p] \in Kinds /\ Destination(p) \in Path
        /\ <<job[p], kind[p]>> \in Outputs(p)
        /\ PathOf(p, <<job[p], kind[p]>>) = Destination(p)
    BY <1>1, <1>3, CurrentLemma
  <2>2. /\ new.by = p /\ new.job = job[p] /\ new.kind = kind[p]
        /\ new \in Content /\ new # Before
    BY <2>1, WrittenLemma
  <2>3. \A f \in Path : disk[f] # Before => disk'[f] # Before
    BY <1>1, <1>3, <2>1, <2>2 DEF TypeOK
  <2>4. disk'[Destination(p)] # Before
    BY <1>1, <1>3, <2>1, <2>2 DEF TypeOK
  <2>5. Written(p, job[p], "gct") \in renamed'
    BY <1>1, <1>3 DEF OrderOK
  <2>6. ASSUME NEW c \in renamed
        PROVE  /\ c = Written(c.by, c.job, c.kind)
               /\ <<c.job, c.kind>> \in Outputs(c.by)
               /\ Written(c.by, c.job, "gct") \in renamed'
               /\ disk'[PathOf(c.by, <<c.job, c.kind>>)] # Before
    <3>1. /\ c = Written(c.by, c.job, c.kind)
          /\ <<c.job, c.kind>> \in Outputs(c.by)
          /\ Written(c.by, c.job, "gct") \in renamed
          /\ disk[PathOf(c.by, <<c.job, c.kind>>)] # Before
      BY <1>1 DEF RenamedOK
    <3>2. PathOf(c.by, <<c.job, c.kind>>) \in Path
      <4>1. c.by \in Procs /\ c.kind \in Kinds /\ c.job \in DOMAIN Jobs[c.by]
        BY <1>1, <3>1 DEF TypeOK, Content, Outputs
      <4>2. Jobs[c.by][c.job] \in Job
        BY <4>1, JobsLemma
      <4> QED
        BY <4>1, <4>2 DEF PathOf, Job
    <3> QED
      BY <1>3, <2>3, <3>1, <3>2
  <2>7. \A c \in renamed' : c \in renamed \/ c = new
    BY <1>3
  <2> HIDE DEF new
  <2>8. ASSUME NEW c \in renamed'
        PROVE  /\ c = Written(c.by, c.job, c.kind)
               /\ <<c.job, c.kind>> \in Outputs(c.by)
               /\ Written(c.by, c.job, "gct") \in renamed'
               /\ disk'[PathOf(c.by, <<c.job, c.kind>>)] # Before
    <3>1. CASE c \in renamed
      BY <2>6, <3>1
    <3>2. CASE c = new
      <4>1. c.by = p /\ c.job = job[p] /\ c.kind = kind[p] /\ c = Written(p, job[p], kind[p])
        BY <2>2, <3>2 DEF new
      <4> QED
        BY <2>1, <2>4, <2>5, <4>1
    <3> QED
      BY <2>7, <2>8, <3>1, <3>2
  <2> QED
    BY <2>8 DEF RenamedOK
<1> QED
  BY <1>2, <1>3, DiskLemma

\* A crash leaves at most one temporary file.
LEMMA LitterStep ==
    ASSUME RunInv, NEW p \in Procs, Step(p) \/ Interrupt(p) \/ Crash(p)
    PROVE  LitterOK'
<1>1. TypeOK /\ LitterOK
  BY DEF RunInv
<1>2. CASE Crash(p)
  <2>1. p \notin Crashed /\ Crashed' = Crashed \cup {p}
    BY <1>1, <1>2 DEF Crash, Goto, Crashed, TypeOK, Steps
  <2>2. IsFiniteSet(Crashed') /\ Cardinality(Crashed') = Cardinality(Crashed) + 1
    BY <1>1, <2>1, FS_AddElement DEF LitterOK
  <2>3. litter' \in Nat /\ litter' <= litter + 1
    BY <1>1, <1>2 DEF Crash, LitterOK
  <2>4. Cardinality(Crashed) \in Nat
    BY <1>1, FS_CardinalityType DEF LitterOK
  <2> QED
    BY <1>1, <2>2, <2>3, <2>4 DEF LitterOK
<1>3. CASE Step(p) \/ Interrupt(p)
  <2>1. litter' = litter
    BY <1>3 DEF Step, Compile, CompileFails, RefuseToOverwrite, Create, Write, Close, Rename,
                WriteError, Return, Interrupt
  <2>2. pc[p] # "crashed" /\ pc'[p] # "crashed"
    BY <1>1, <1>3 DEF Step, Compile, CompileFails, RefuseToOverwrite, Create, Write, Close, Rename,
                WriteError, Return, Interrupt, NextJob, Goto, TypeOK, Steps
  <2>3. \A q \in Procs \ {p} : pc'[q] = pc[q]
    BY OthersLemma
  <2>4. Crashed' = Crashed
    BY <2>2, <2>3 DEF Crashed
  <2> QED
    BY <1>1, <2>1, <2>4 DEF LitterOK
<1> QED
  BY <1>2, <1>3

----------------------------------------------------------------------------
(* The theorems *)

\* No process runs yet, or it has nothing to do.
LEMMA RunInit == Init => RunInv
<1> SUFFICES ASSUME Init
             PROVE  RunInv
  OBVIOUS
<1>1. TypeOK
  BY DEF Init, TypeOK, Steps, Ends, Kinds
<1>2. ASSUME NEW p \in Procs
      PROVE  PlaceOK(p) /\ OrderOK(p) /\ StatusOK(p) /\ OutcomeOK(p)
  <2>1. /\ pc[p] = (IF Len(Jobs[p]) = 0 THEN "exited" ELSE "compile") /\ job[p] = 1
        /\ temp[p] = NoFile /\ ~errored[p] /\ ~Writes(p)
    BY JobsLemma DEF Init, Writes
  <2>2. PlaceOK(p)
    BY <2>1, JobsLemma DEF PlaceOK, Steps, Writes
  <2>3. OrderOK(p)
    BY <2>1 DEF OrderOK
  <2>4. StatusOK(p)
    BY <2>1, JobsLemma DEF StatusOK, Passed, Outputs
  <2>5. OutcomeOK(p)
    BY <2>1, JobsLemma DEF OutcomeOK, Passed, Outputs
  <2> QED
    BY <2>2, <2>3, <2>4, <2>5
<1>3. RenamedOK
  BY DEF Init, RenamedOK
<1>4. LitterOK
  <2>1. litter = 0 /\ Crashed = {}
    BY DEF Init, Crashed
  <2> QED
    BY <2>1, FS_EmptySet DEF LitterOK
<1> QED
  BY <1>1, <1>2, <1>3, <1>4 DEF RunInv

\* The invariant is inductive: every step of a process keeps what is said of it, of the
\* other processes, of the renames and of the temporary files.
LEMMA RunNext == RunInv /\ [Next]_vars => RunInv'
<1> SUFFICES ASSUME RunInv, [Next]_vars
             PROVE  RunInv'
  OBVIOUS
<1>1. CASE UNCHANGED vars
  BY <1>1 DEF vars, RunInv, TypeOK, PlaceOK, OrderOK, StatusOK, OutcomeOK, RenamedOK, LitterOK, Crashed,
              Writes, Current, Passed, Accounted
<1>2. ASSUME NEW p \in Procs, Step(p) \/ Interrupt(p) \/ Crash(p)
      PROVE  RunInv'
  <2>1. TypeOK'
    BY TypeStep DEF RunInv
  <2>2. PlaceOK(p)' /\ OrderOK(p)' /\ StatusOK(p)' /\ OutcomeOK(p)'
    BY <1>2, WriteStep, FailStep, ReturnStep, OutcomeStep DEF Step
  <2>3. ASSUME NEW q \in Procs, q # p
        PROVE  PlaceOK(q)' /\ OrderOK(q)' /\ StatusOK(q)' /\ OutcomeOK(q)'
    BY <1>2, <2>3, OthersLemma, FrameLemma DEF RunInv
  <2>4. RenamedOK' /\ LitterOK'
    BY <1>2, RenamedStep, LitterStep
  <2> QED
    BY <2>1, <2>2, <2>3, <2>4 DEF RunInv
<1> QED
  BY <1>1, <1>2 DEF Next

\* The inductive invariant holds in every state of every run.
THEOREM RunInvariant == Spec => []RunInv
  BY RunInit, RunNext, PTL DEF Spec

\* Every variable keeps its type: what a file holds, in particular, is what it held
\* before or an output, and the exit status is zero or one.
THEOREM TypeCorrect == Spec => []TypeOK
<1>1. RunInv => TypeOK
  BY DEF RunInv
<1> QED
  BY <1>1, RunInvariant, PTL

\* However many processes run, and whatever fails, a process that goes on or ends
\* has no temporary file, and each crash leaves at most one behind (the deferred
\* removal of writeAtomic).
THEOREM LittersOnlyByCrashing == Spec => []NoTemporaryFilesLeft
<1>1. RunInv => NoTemporaryFilesLeft
  BY DEF RunInv, PlaceOK, LitterOK, Crashed, NoTemporaryFilesLeft
<1> QED
  BY <1>1, RunInvariant, PTL

\* For all job lists, an exit status of zero means that every output of every job has
\* been put in place, complete, and that its file has changed (the status of Run).
THEOREM ZeroMeansDone == Spec => []StatusZeroMeansDone
<1>1. ASSUME RunInv
      PROVE  StatusZeroMeansDone
  <2> SUFFICES ASSUME NEW p \in Procs, pc[p] = "exited", status[p] = 0, NothingExcused(p),
                      NEW o \in Outputs(p)
               PROVE  /\ Written(p, o[1], o[2]) \in renamed
                      /\ disk[PathOf(p, o)] # Before
    BY DEF StatusZeroMeansDone, NothingExcused
  <2>1. Written(p, o[1], o[2]) \in renamed
    BY <1>1 DEF RunInv, StatusOK, Passed
  <2>2. o = <<o[1], o[2]>>
    BY DEF Outputs
  <2> QED
    BY <1>1, <2>1, <2>2 DEF RunInv, RenamedOK, Written
<1> QED
  BY <1>1, RunInvariant, PTL

\* For all job lists, one failing job or output costs no other one: whatever the exit
\* status, each output of each job is in place, or it or its GCT has failed (the
\* continue statements in the loop of Run).
THEOREM FailuresCostNoOther == Spec => []FailuresStayApart
<1>1. RunInv => FailuresStayApart
  BY DEF RunInv, OutcomeOK, Passed, Accounted, FailuresStayApart
<1> QED
  BY <1>1, RunInvariant, PTL

\* A text or log file never tells of a GCT that is not in place, whichever system
\* calls fail (the order of the outputs in Run).
THEOREM GctComesFirst == Spec => []SidecarsFollowTheirGct
<1>1. RunInv => SidecarsFollowTheirGct
  BY DEF RunInv, RenamedOK, SidecarsFollowTheirGct
<1> QED
  BY <1>1, RunInvariant, PTL

----------------------------------------------------------------------------
(* The processes implement AtomicStore *)

\* A step changes no file, or replaces one by a complete output that belongs there.
LEMMA StoreStep ==
    ASSUME RunInv, [Next]_vars
    PROVE  [Store!Next]_disk
<1>1. CASE UNCHANGED vars
  BY <1>1 DEF vars
<1>2. ASSUME NEW p \in Procs, Step(p) \/ Interrupt(p) \/ Crash(p)
      PROVE  [Store!Next]_disk
  <2>1. CASE UNCHANGED disk
    BY <2>1
  <2>2. CASE Writes(p) /\ disk' = [disk EXCEPT ![Destination(p)] = Written(p, job[p], kind[p])]
    <3>1. /\ Destination(p) \in Path /\ <<job[p], kind[p]>> \in Outputs(p)
          /\ PathOf(p, <<job[p], kind[p]>>) = Destination(p)
      BY <2>2, CurrentLemma DEF RunInv
    <3>2. Written(p, job[p], kind[p]) \in OutputsAt(Destination(p))
      BY <3>1 DEF OutputsAt
    <3>3. Store!Replace(Destination(p))
      BY <2>2, <3>2 DEF Store!Replace
    <3> QED
      BY <3>1, <3>3 DEF Store!Next
  <2> QED
    BY <1>2, <2>1, <2>2, DiskLemma
<1> QED
  BY <1>1, <1>2 DEF Next

\* Whatever fails, crashes or runs at the same time, every file changes only from what
\* it held to one complete output that belongs there (writeAtomic).
THEOREM ImplementsAtomicStore == Spec => FilesChangeAsAWhole
<1>1. Init => Store!Init
  BY DEF Init, Store!Init
<1>2. RunInv /\ [Next]_vars => [Store!Next]_disk
  BY StoreStep
<1> QED
  BY <1>1, <1>2, RunInvariant, PTL DEF Spec, FilesChangeAsAWhole, Store!Spec

\* A file holds what it held before, or a complete output that belongs there.
DiskOK == \A f \in Path : disk[f] = Before \/ disk[f] \in OutputsAt(f)

\* The configuration file is safe from every process, and the input of a job from
\* the process that assembles it.
InputsSurvive ==
    /\ disk[Config] = Before
    /\ \A p \in Procs : \A j \in DOMAIN Jobs[p] :
           disk[Jobs[p][j].input] # Before => disk[Jobs[p][j].input].by # p

\* The collisions that plan rejects are enough to keep the configuration file and a
\* process's own inputs from being overwritten in every run; an included file has no
\* such protection, and neither has the input of another process.
THEOREM OwnInputsSurvive == Spec => []InputsSurvive
<1>1. Init => DiskOK
  BY DEF Init, DiskOK
<1>2. RunInv /\ DiskOK /\ [Next]_vars => DiskOK'
  <2> SUFFICES ASSUME RunInv, DiskOK, [Store!Next]_disk
               PROVE  DiskOK'
    BY StoreStep
  <2>1. CASE UNCHANGED disk
    BY <2>1 DEF DiskOK, OutputsAt, Outputs, PathOf, Written
  <2>2. ASSUME NEW f \in Path, NEW c \in OutputsAt(f), disk' = [disk EXCEPT ![f] = c]
        PROVE  DiskOK'
    <3>1. \A g \in Path : disk'[g] = Before \/ disk'[g] \in OutputsAt(g)
      BY <2>2 DEF RunInv, TypeOK, DiskOK
    <3> QED
      BY <3>1 DEF DiskOK, OutputsAt, Outputs, PathOf, Written
  <2> QED
    BY <2>1, <2>2 DEF Store!Next, Store!Replace
<1>3. RunInv /\ DiskOK => InputsSurvive
  <2> SUFFICES ASSUME DiskOK
               PROVE  InputsSurvive
    OBVIOUS
  <2>1. OutputsAt(Config) = {}
    BY RunAssumption DEF OutputsAt, Planned
  <2>2. disk[Config] = Before
    BY <2>1, RunAssumption DEF DiskOK
  <2>3. ASSUME NEW p \in Procs, NEW j \in DOMAIN Jobs[p],
               disk[Jobs[p][j].input] # Before, disk[Jobs[p][j].input].by = p
        PROVE  FALSE
    <3> DEFINE f == Jobs[p][j].input
    <3>1. f \in Path
      BY JobsLemma DEF Job
    <3>2. disk[f] \in OutputsAt(f)
      BY <2>3, <3>1 DEF DiskOK
    <3>3. PICK q \in Procs : \E o \in Outputs(q) :
                PathOf(q, o) = f /\ disk[f] = Written(q, o[1], o[2])
      BY <3>2 DEF OutputsAt
    <3>4. q = p
      BY <2>3, <3>3, WrittenLemma
    <3> QED
      BY <3>3, <3>4, RunAssumption DEF Planned
  <2> QED
    BY <2>2, <2>3 DEF InputsSurvive
<1> QED
  BY <1>1, <1>2, <1>3, RunInvariant, PTL DEF Spec
=============================================================================
