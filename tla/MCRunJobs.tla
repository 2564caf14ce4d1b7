----------------------------- MODULE MCRunJobs -----------------------------
(***************************************************************************)
(* Instances of RunJobs for TLC: one approved and one unapproved           *)
(* definition of one experiment, jobs in both execution contexts, and the  *)
(* fault budgets of the runs.                                              *)
(***************************************************************************)
EXTENDS RunJobs, TLC

CONSTANTS j1, j2, w1, w2, exp

Benign(a) == [external_targeting |-> FALSE, safety_level |-> "SYNTHETIC_ONLY",
              input_classification |-> "synthetic",
              weaponised_payloads |-> FALSE, approval_status |-> a]

MCDefinitions ==
    {Benign("approved"), Benign("draft"),
     [Benign("approved") EXCEPT !.external_targeting = TRUE]}

MCSymmetry == Permutations(Workers)

MCRequest ==
    [j \in Jobs |-> [experiment_id |-> exp,
                     execution_context |-> IF j = j1 THEN "experiment_run"
                                           ELSE "local_unit_test"]]

\* Exactly the faults of F, as often as F says.
Faults(F) == [k \in FaultKinds |-> IF k \in DOMAIN F THEN F[k] ELSE 0]

\* Two jobs, one worker: a crash while the experiments directory changes,
\* failing calls of the API handler, a dropped connection and a failing record
\* write; each pair can cost one of the jobs and must not cost the other.
PairsOfFaults ==
    {Faults([crash |-> 1, catalog |-> 1]),
     Faults([publish |-> 1, database |-> 1]),
     Faults([connection |-> 1, store |-> 1])}

\* Two workers: one crashes and one loses its connection and goes on working
\* beside the worker that gets the message; or they crash twice between them;
\* or one crashes and a record write or the look for the experiment raises.
CrashesAndMore ==
    {Faults([crash |-> 1, connection |-> 1]), Faults([crash |-> 2]),
     Faults([crash |-> 1, store |-> 1]), Faults([crash |-> 1, catalog |-> 1])}
CrashAndConnection == {Faults([crash |-> 1, connection |-> 1])}
=============================================================================
