---------------------------- MODULE AtomicStore ----------------------------
(***************************************************************************)
(* What the documentation promises of the output files (COMPATIBILITY.md,  *)
(* "temporary-file replacement per file"): a file changes only as a whole, *)
(* from whatever it held to one complete output.                           *)
(***************************************************************************)
CONSTANTS
    Path,        \* the output files
    Initial,     \* what a file may hold before, its absence included
    Output(_)    \* the complete outputs a file may receive

VARIABLE disk

Init == disk \in [Path -> Initial]

Replace(p) == \E c \in Output(p) : disk' = [disk EXCEPT ![p] = c]

Next == \E p \in Path : Replace(p)

Spec == Init /\ [][Next]_disk
=============================================================================
