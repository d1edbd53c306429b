------------------------------ MODULE MCCliRun ------------------------------
(* CliRun on small job lists, for TLC. *)
EXTENDS CliRun, TLC

MCPath == {"a.asm", "a.GCT", "a_codeset.txt", "a_log.txt",
           "b.asm", "b.GCT", "b_log.txt", "part.asm", "gctrm.toml"}

JobA == [input |-> "a.asm", includes |-> {"part.asm"},
         outputs |-> Kinds, missingFails |-> TRUE,
         path |-> [gct |-> "a.GCT", text |-> "a_codeset.txt", log |-> "a_log.txt"]]
JobB == [input |-> "b.asm", includes |-> {},
         outputs |-> {"gct", "log"}, missingFails |-> TRUE,
         path |-> [gct |-> "b.GCT", text |-> "b.GCT", log |-> "b_log.txt"]]
JobALegacy == [JobA EXCEPT !.missingFails = FALSE]
JobAToPart == [JobA EXCEPT !.outputs = {"gct"}, !.path["gct"] = "part.asm"]

\* Two processes that build the same codeset, one of them another one, too.
SharedJobs == [p1 |-> <<JobA, JobB>>, p2 |-> <<JobALegacy>>]

\* One process that builds both.
TwoJobs == [p1 |-> <<JobA, JobB>>]

\* One process that is asked to write its GCT to a file that its source includes.
IncludeJobs == [p1 |-> <<JobAToPart>>]
=============================================================================
