--------------------------- MODULE MCBlockLayout ---------------------------
(* BlockLayout in an address space of 256 bytes, for TLC: the operand of a   *)
(* code has 4 bits, memory starts at 128, and BA or PO are needed from 144.  *)
EXTENDS BlockLayout, TLC

Corrected == [f \in Flags |-> f # "RejectDuplicateLabels"]
Legacy == [f \in Flags |-> FALSE]
Strict == [f \in Flags |-> TRUE]

MCPolicies == {Corrected, Legacy, Strict}
MCAddresses == {12, 132, 168}
MCBases == {120, 224}
MCGctOffsets == {24}
MCDataSizes == {1, 3}
MCReach == [b |-> 64, bc |-> 12]
LabelSymmetry == Permutations(Labels)
=============================================================================
