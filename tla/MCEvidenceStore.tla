--------------------------- MODULE MCEvidenceStore ---------------------------
(***************************************************************************)
(* Instances of EvidenceStore for TLC, on both backends: executions that   *)
(* draw the same stamp, and one that draws another.                        *)
(***************************************************************************)
EXTENDS EvidenceStore, TLC

CONSTANTS s1, s2  \* two milliseconds
CONSTANTS
    Late,     \* the executions of the second one
    MaxShared \* bound: files that two executions of one stamp both write

MCStamp == [x \in Executions |-> IF x \in Late THEN s2 ELSE s1]

\* The artefact that x is at.
Reached(x) == IF mode[x] = "mitigated" THEN 5 + pos[x] ELSE pos[x]
FewShared ==
    \A x, y \in Executions :
        x # y /\ Stamp[x] = Stamp[y] /\ Entered(x) /\ Entered(y) =>
          Reached(x) <= MaxShared \/ Reached(y) <= MaxShared

\* Executions of one stamp are not told apart, nor are readers.
MCSymmetry ==
    Permutations(Executions \ Late) \cup Permutations(Late)
      \cup Permutations(Readers)
=============================================================================
