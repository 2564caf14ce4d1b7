------------------------- MODULE MCExperimentStudio -------------------------
(***************************************************************************)
(* Instances of ExperimentStudio.  Ann is a researcher who becomes a       *)
(* reviewer; Ada is an admin, who may approve her own work.                *)
(***************************************************************************)
EXTENDS ExperimentStudio, TLC

CONSTANTS ann, ada

Team == {[name |-> ann, role |-> "researcher"],
         [name |-> ann, role |-> "reviewer"],
         [name |-> ada, role |-> "admin"]}

Budget(c, e, r, o, f) == [create |-> c, edit |-> e, request |-> r,
                          overlap |-> o, fail |-> f]

\* One request after another, one of which fails half-way; requests that
\* overlap on one version; and an overlap among two versions.
MCBudgets ==
    {Budget(1, 2, 5, 0, 1), Budget(1, 1, 5, 1, 0), Budget(2, 0, 5, 1, 0)}

\* The slots that serve requests are interchangeable, and so are contents.
StudioSymmetry == Permutations(Requests) \cup Permutations(Contents)
=============================================================================
