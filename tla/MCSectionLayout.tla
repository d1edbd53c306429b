-------------------------- MODULE MCSectionLayout --------------------------
(* SectionLayout on small codesets, for TLC. *)
EXTENDS SectionLayout, TLC

Corrected == [f \in Flags |-> f # "RejectDuplicateLabels"]
Legacy == [f \in Flags |-> FALSE]

\* Corrections that meet only when they are chosen one by one.
Mixed == [f \in Flags |-> f \in {"GeckoLabelOffsets", "GeckoLineFraming",
                                 "RejectDuplicateLabels"}]

MCPolicies == {Corrected, Legacy, Mixed}
OnlyCorrected == {Corrected}
MCDataSizes == {4, 9}
MCWriteSizes == {2}
MCBlockSizes == {2, 4}
LabelSymmetry == Permutations(Labels)
=============================================================================
