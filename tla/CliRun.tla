------------------------------- MODULE CliRun -------------------------------
(***************************************************************************)
(* The processing of the planned jobs by cli.Run, and writeAtomic with     *)
(* every system call that may fail (internal/cli/cli.go).  Several gctrm   *)
(* processes may run on the same files at the same time; each of them may  *)
(* be interrupted, which cancels the context of the assembler only, or     *)
(* end abruptly between any two system calls.                              *)
(***************************************************************************)
EXTENDS Integers, Sequences, FiniteSets, SequencesExt

CONSTANTS
    Procs,   \* the gctrm processes
    Path,    \* cleaned absolute file names
    Config,  \* the configuration file
    Jobs,    \* the jobs of every process, as plan returns them
    Before,  \* what a file held before, its absence included
    NoFile   \* no temporary file exists

Kinds == {"gct", "text", "log"}

\* A job: its input, the files its input includes, the outputs asked for, with
\* their paths, and whether a missing file fails (bug_fixes.missing_file_status).
Job == [input : Path, includes : SUBSET Path, outputs : SUBSET Kinds,
        path : [Kinds -> Path], missingFails : BOOLEAN]

Outputs(p) == {o \in (DOMAIN Jobs[p]) \X Kinds : o[2] \in Jobs[p][o[1]].outputs}
PathOf(p, o) == Jobs[p][o[1]].path[o[2]]

\* The collisions that plan rejects.
Planned(p) ==
    /\ \A o \in Outputs(p) :
           /\ PathOf(p, o) # Config
           /\ \A j \in DOMAIN Jobs[p] : PathOf(p, o) # Jobs[p][j].input
    /\ \A o, q \in Outputs(p) : PathOf(p, o) = PathOf(p, q) => o = q

\* What a process writes: one of the outputs of a job, whole or in part.
Content == [by : Procs, job : Nat, kind : Kinds, whole : BOOLEAN]
Written(p, j, k) == [by |-> p, job |-> j, kind |-> k, whole |-> TRUE]

ASSUME RunAssumption ==
    /\ Config \in Path
    /\ Jobs \in [Procs -> Seq(Job)]
    /\ \A p \in Procs : Planned(p) /\ \A j \in DOMAIN Jobs[p] : "gct" \in Jobs[p][j].outputs
    /\ Before \notin Content

VARIABLES
    disk,        \* the files
    pc,          \* the next step of each process
    job,         \* the job it is at
    kind,        \* the output of that job it is writing
    temp,        \* the temporary file it has created, or NoFile
    errored,     \* whether the write in progress has failed
    status,      \* the exit status so far
    interrupted, \* whether the process has received an interrupt
    litter,      \* temporary files that crashed processes left behind
    renamed,     \* history: the outputs that have been put in place
    failures     \* history: the jobs that failed, by process, and the output at which

vars == <<disk, pc, job, kind, temp, errored, status, interrupted, litter, renamed, failures>>

Steps == {"compile", "create", "write", "close", "rename", "remove"}
Ends == {"exited", "crashed"}

----------------------------------------------------------------------------

Current(p) == Jobs[p][job[p]]
Destination(p) == Current(p).path[kind[p]]

Goto(p, step) == pc' = [pc EXCEPT ![p] = step]

Init ==
    /\ disk = [f \in Path |-> Before]
    /\ pc = [p \in Procs |-> IF Jobs[p] = <<>> THEN "exited" ELSE "compile"]
    /\ job = [p \in Procs |-> 1]
    /\ kind = [p \in Procs |-> "gct"]
    /\ temp = [p \in Procs |-> NoFile]
    /\ errored = [p \in Procs |-> FALSE]
    /\ status = [p \in Procs |-> 0]
    /\ interrupted = [p \in Procs |-> FALSE]
    /\ litter = 0
    /\ renamed = {}
    /\ failures = {}

\* The loop over the jobs continues.
NextJob(p) ==
    IF job[p] < Len(Jobs[p])
    THEN Goto(p, "compile") /\ job' = [job EXCEPT ![p] = @ + 1]
    ELSE Goto(p, "exited") /\ UNCHANGED job

Raise(p) == status' = [status EXCEPT ![p] = 1]

\* Compile succeeds: the context was not cancelled, and the assembler accepts
\* the source. The output is complete in memory before any file is touched.
Compile(p) ==
    /\ pc[p] = "compile"
    /\ ~interrupted[p]
    /\ Goto(p, "create")
    /\ kind' = [kind EXCEPT ![p] = "gct"]
    /\ UNCHANGED <<disk, job, temp, errored, status, interrupted, litter, renamed, failures>>

\* A job fails before any of its outputs is written.
JobFails(p) == failures' = failures \cup {<<p, job[p], "gct">>}

\* Mutated form: the loop ends at the job that fails.
CompileFailsForAll(p, missingFile) ==
    /\ pc[p] = "compile"
    /\ IF missingFile /\ ~Current(p).missingFails THEN UNCHANGED status ELSE Raise(p)
    /\ Goto(p, "exited")
    /\ JobFails(p)
    /\ UNCHANGED <<disk, job, kind, temp, errored, interrupted, litter, renamed>>

\* Compile fails; a missing file may be reported with status zero.
CompileFails(p, missingFile) ==
    /\ pc[p] = "compile"
    /\ IF missingFile /\ ~Current(p).missingFails THEN UNCHANGED status ELSE Raise(p)
    /\ NextJob(p)
    /\ JobFails(p)
    /\ UNCHANGED <<disk, kind, temp, errored, interrupted, litter, renamed>>

\* The output has become the same file as the input since it was planned.
RefuseToOverwrite(p) ==
    /\ pc[p] = "compile"
    /\ ~interrupted[p]
    /\ Raise(p)
    /\ NextJob(p)
    /\ JobFails(p)
    /\ UNCHANGED <<disk, kind, temp, errored, interrupted, litter, renamed>>

----------------------------------------------------------------------------
(* writeAtomic *)

Temporary(p, whole) == [by |-> p, job |-> job[p], kind |-> kind[p], whole |-> whole]

Create(p) ==
    /\ pc[p] = "create"
    /\ temp' = [temp EXCEPT ![p] = Temporary(p, FALSE)]
    /\ Goto(p, "write")
    /\ UNCHANGED <<disk, job, kind, errored, status, interrupted, litter, renamed, failures>>

Write(p) ==
    /\ pc[p] = "write"
    /\ temp' = [temp EXCEPT ![p] = Temporary(p, TRUE)]
    /\ Goto(p, "close")
    /\ UNCHANGED <<disk, job, kind, errored, status, interrupted, litter, renamed, failures>>

Close(p) ==
    /\ pc[p] = "close"
    /\ Goto(p, "rename")
    /\ UNCHANGED <<disk, job, kind, temp, errored, status, interrupted, litter, renamed, failures>>

Rename(p) ==
    /\ pc[p] = "rename"
    /\ disk' = [disk EXCEPT ![Destination(p)] = temp[p]]
    /\ temp' = [temp EXCEPT ![p] = NoFile]
    /\ renamed' = renamed \cup {temp[p]}
    /\ Goto(p, "remove")
    /\ UNCHANGED <<job, kind, errored, status, interrupted, litter, failures>>

\* Mutated form: a failed write is noticed only after the rename.
WriteErrorGoesOn(p) ==
    /\ pc[p] \in {"create", "write", "close", "rename"}
    /\ errored' = [errored EXCEPT ![p] = TRUE]
    /\ Goto(p, IF pc[p] = "write" THEN "close" ELSE "remove")
    /\ failures' = failures \cup {<<p, job[p], kind[p]>>}
    /\ UNCHANGED <<disk, job, kind, temp, status, interrupted, litter, renamed>>

\* A system call of writeAtomic fails; after a failed write the temporary file
\* holds a part of the output.
WriteError(p) ==
    /\ pc[p] \in {"create", "write", "close", "rename"}
    /\ errored' = [errored EXCEPT ![p] = TRUE]
    /\ Goto(p, "remove")
    /\ failures' = failures \cup {<<p, job[p], kind[p]>>}
    /\ UNCHANGED <<disk, job, kind, temp, status, interrupted, litter, renamed>>

\* The next output of the job after the one of kind k, in the order of Run.
Rest(k) == CASE k = "gct" -> {"text", "log"} [] k = "text" -> {"log"} [] k = "log" -> {}
Following(p) ==
    LET rest == Rest(kind[p]) \cap Current(p).outputs
    IN  IF "text" \in rest THEN "text" ELSE "log"
IsLast(p) == Rest(kind[p]) \cap Current(p).outputs = {}

\* Mutated form: an error of the text or log file is only printed.
StatusOfGctOnly(p) == IF errored[p] /\ kind[p] = "gct" THEN Raise(p) ELSE UNCHANGED status

\* The status after the write in progress.
StatusAfterWrite(p) == IF errored[p] THEN Raise(p) ELSE UNCHANGED status

\* Mutated form: the loop does not continue with the next job when the GCT
\* could not be written.
ReturnWithoutContinue(p) ==
    /\ pc[p] = "remove"
    /\ temp' = [temp EXCEPT ![p] = NoFile]
    /\ errored' = [errored EXCEPT ![p] = FALSE]
    /\ StatusAfterWrite(p)
    /\ IF IsLast(p)
       THEN NextJob(p) /\ UNCHANGED kind
       ELSE Goto(p, "create") /\ kind' = [kind EXCEPT ![p] = Following(p)] /\ UNCHANGED job
    /\ UNCHANGED <<disk, interrupted, litter, renamed, failures>>

\* Mutated form: the temporary file is not removed.
ReturnWithoutRemove(p) ==
    /\ pc[p] = "remove"
    /\ errored' = [errored EXCEPT ![p] = FALSE]
    /\ StatusAfterWrite(p)
    /\ IF IsLast(p) \/ (errored[p] /\ kind[p] = "gct")
       THEN NextJob(p) /\ UNCHANGED kind
       ELSE Goto(p, "create") /\ kind' = [kind EXCEPT ![p] = Following(p)] /\ UNCHANGED job
    /\ UNCHANGED <<disk, temp, interrupted, litter, renamed, failures>>

\* The deferred removal of the temporary file, if it is still there, and what
\* Run does next: without a GCT there is no text and no log.
Return(p) ==
    /\ pc[p] = "remove"
    /\ temp' = [temp EXCEPT ![p] = NoFile]
    /\ errored' = [errored EXCEPT ![p] = FALSE]
    /\ StatusAfterWrite(p)
    /\ IF IsLast(p) \/ (errored[p] /\ kind[p] = "gct")
       THEN NextJob(p) /\ UNCHANGED kind
       ELSE Goto(p, "create") /\ kind' = [kind EXCEPT ![p] = Following(p)] /\ UNCHANGED job
    /\ UNCHANGED <<disk, interrupted, litter, renamed, failures>>

----------------------------------------------------------------------------
(* The environment *)

\* The signal cancels the context; only the assembler looks at it.
Interrupt(p) ==
    /\ pc[p] \in Steps
    /\ ~interrupted[p]
    /\ interrupted' = [interrupted EXCEPT ![p] = TRUE]
    /\ UNCHANGED <<disk, pc, job, kind, temp, errored, status, litter, renamed, failures>>

\* The process ends without running its deferred calls.
Crash(p) ==
    /\ pc[p] \in Steps
    /\ Goto(p, "crashed")
    /\ litter' = litter + (IF temp[p] = NoFile THEN 0 ELSE 1)
    /\ UNCHANGED <<disk, job, kind, temp, errored, status, interrupted, renamed, failures>>

Step(p) ==
    \/ Compile(p)
    \/ \E missingFile \in BOOLEAN : CompileFails(p, missingFile)
    \/ RefuseToOverwrite(p)
    \/ Create(p)
    \/ Write(p)
    \/ Close(p)
    \/ Rename(p)
    \/ WriteError(p)
    \/ Return(p)

Next == \E p \in Procs : Step(p) \/ Interrupt(p) \/ Crash(p)

Spec == Init /\ [][Next]_vars

\* The operating system runs every process that has not ended.
FairSpec == Spec /\ \A p \in Procs : WF_vars(Step(p))

----------------------------------------------------------------------------

\* The outputs that belong at path f.
OutputsAt(f) ==
    UNION {{Written(p, o[1], o[2]) : o \in {q \in Outputs(p) : PathOf(p, q) = f}} : p \in Procs}

Store == INSTANCE AtomicStore
    WITH Path <- Path, Initial <- {Before}, Output <- OutputsAt, disk <- disk

\* Whatever fails, is interrupted, crashes or runs at the same time, a file
\* changes only from what it held to one complete output that belongs there.
FilesChangeAsAWhole == Store!Spec

\* An exit status of zero means that every output of every job is in place,
\* complete, unless a job was excused for a missing file.
StatusZeroMeansDone ==
    \A p \in Procs :
        pc[p] = "exited" /\ status[p] = 0 /\ (\A j \in DOMAIN Jobs[p] : Jobs[p][j].missingFails) =>
            \A o \in Outputs(p) :
                /\ Written(p, o[1], o[2]) \in renamed
                /\ disk[PathOf(p, o)] # Before

\* Output o is in place, or it or the GCT of its job has failed.
Accounted(p, o) ==
    \/ Written(p, o[1], o[2]) \in renamed
    \/ <<p, o[1], o[2]>> \in failures
    \/ <<p, o[1], "gct">> \in failures

\* A job that fails costs no other job its outputs, and an output that fails costs
\* its job no other one unless it is the GCT: of a process that has exited, with any
\* status, each output is in place, or it or its GCT has failed.
FailuresStayApart == \A p \in Procs : pc[p] = "exited" => \A o \in Outputs(p) : Accounted(p, o)

\* A text or log file tells of a GCT that was put in place, complete, before it.
SidecarsFollowTheirGct ==
    \A c \in renamed : Written(c.by, c.job, "gct") \in renamed

\* Only a crash leaves a temporary file behind.
NoTemporaryFilesLeft ==
    /\ \A p \in Procs : pc[p] \in {"exited", "compile", "create"} => temp[p] = NoFile
    /\ litter <= Cardinality({p \in Procs : pc[p] = "crashed"})

\* Unless it crashes, a process comes to its end, whatever fails on the way, and has
\* then tried all of its jobs (FailuresStayApart).
EveryJobIsTried ==
    \A p \in Procs : <>(pc[p] = "crashed" \/ (pc[p] = "exited" /\ \A o \in Outputs(p) : Accounted(p, o)))

----------------------------------------------------------------------------
(* What the documentation says, and the code does not do *)

\* CONFIGURATION.md: "Output paths cannot overwrite selected config or source
\* files." An included file is a source file.
SourcesSurvive ==
    \A p \in Procs : \A j \in DOMAIN Jobs[p] :
        \A f \in {Config, Jobs[p][j].input} \cup Jobs[p][j].includes :
            disk[f] = Before
=============================================================================
