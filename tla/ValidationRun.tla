--------------------------- MODULE ValidationRun ---------------------------
(***************************************************************************)
(* One validation run: the orchestrator reads the dataset, the runner      *)
(* reads it again and executes every case with the baseline and then with  *)
(* the mitigation, the orchestrator scores the results against what it     *)
(* read first, and the worker judges the comparison.                       *)
(*                                                                         *)
(* A test set maps the case_id of each case, a number here, to what is     *)
(* expected of it.  Case ids are unique, and the order of cases in a file  *)
(* changes no count: the lower id stands first.                            *)
(*                                                                         *)
(* The cases of a generated dataset are decided by the strategies of the   *)
(* platform; of a dataset without inputs nothing is known, and a strategy  *)
(* may decide anything.  The safety policy and the storing of evidence are *)
(* those of RunJobs and EvidenceStore.                                     *)
(***************************************************************************)
EXTENDS Verdict, Generators

CONSTANTS
    Definitions,     \* the experiments: a domain, and the test sets that
                     \* the file at dataset_path can hold
    Garbled,         \* the contents of a file that does not parse
    Draws,           \* what the seeded generators can draw
    BaselineOutcomes,
    MitigationOutcomes

Modes == {"baseline", "mitigated"}

OutcomesOf == [baseline |-> BaselineOutcomes, mitigated |-> MitigationOutcomes]

ASSUME RunAssumption ==
    /\ \A x \in Definitions :
         /\ x.domain \in {"vpn", "telecom"}
         /\ \A d \in x.holds :
              /\ d.expected \in [DOMAIN d.expected -> Decisions]
              /\ DOMAIN d.expected \in (SUBSET Nat) \ {{}}
              /\ IsFiniteSet(DOMAIN d.expected)
              /\ d.inputs = None \/ DOMAIN d.inputs = DOMAIN d.expected
    /\ BaselineOutcomes \cup MitigationOutcomes \subseteq Outcomes

\* A test set with a configuration is the one that the generator made from it,
\* and its file never holds another.
ASSUME GeneratedAssumption ==
    /\ Draws \subseteq Nat
    /\ \A x \in Definitions : \A d \in x.holds :
         d.config # None =>
             /\ x.holds = {d}
             /\ d.inputs # None
             /\ d.domain \in {"vpn", "telecom"}
             /\ d.config \in ConfigsOf(d.domain)
             /\ \E r \in Draws : d = generate(d.domain, d.config, r)

VARIABLES
    definition,  \* the experiment that is run
    file,        \* what the dataset file holds
    pc,          \* what the run does next
    test_set,    \* what the orchestrator read, or None
    cases,       \* what the runner read, or None
    results,     \* results[m][c]: the result of case c in mode m, once there
    comparison,  \* the ComparisonReport, or None
    verdict      \* the VerdictResult, or None

vars == <<definition, file, pc, test_set, cases, results, comparison, verdict>>

Init ==
    /\ definition \in Definitions
    /\ file \in definition.holds \cup {Garbled}
    /\ pc = "load"
    /\ test_set = None
    /\ cases = None
    /\ results = [m \in Modes |-> <<>>]
    /\ comparison = None
    /\ verdict = None
-----------------------------------------------------------------------------
\* Somebody replaces the dataset file.  Nobody reads it after the second read.
\* The name of a generated file is the hash of its contents: it is absent, half
\* written, or holds that one test set.
Rewrite(d) ==
    /\ pc \in {"load", "reload"}
    /\ file # d
    /\ file' = d
    /\ UNCHANGED <<definition, pc, test_set, cases, results, comparison,
                   verdict>>

\* execute_and_generate_evidence reads the dataset.
load_test_set ==
    /\ pc = "load"
    /\ IF file = Garbled
       THEN pc' = "failed" /\ UNCHANGED test_set
       ELSE pc' = "reload" /\ test_set' = file
    /\ UNCHANGED <<definition, file, cases, results, comparison, verdict>>

\* ExperimentRunner.run reads it again, and wants the experiment's domain.
RunnerLoad ==
    /\ pc = "reload"
    /\ IF file = Garbled \/ (file # Garbled /\ file.domain # definition.domain)
       THEN pc' = "failed" /\ UNCHANGED cases
       ELSE pc' = "baseline" /\ cases' = file
    /\ UNCHANGED <<definition, file, test_set, results, comparison, verdict>>

\* A case that raised is done: the run goes on with the next one.
Mut_Remaining(m) ==
    IF \E c \in DOMAIN results[m] : results[m][c].errored THEN {}
    ELSE DOMAIN cases.expected \ DOMAIN results[m]
Remaining(m) == DOMAIN cases.expected \ DOMAIN results[m]

\* What a strategy can make of a case.
Possible(m, c) ==
    IF cases.inputs = None THEN OutcomesOf[m]
    ELSE {process(definition.domain, m, cases.inputs[c])}

\* Results r and outcome o of case c.
WithResult(r, c, o) ==
    [x \in DOMAIN r \cup {c} |-> IF x = c THEN o ELSE r[x]]

\* _execute_case.  An outcome with errored set is an exception of the strategy.
ExecuteCase(m) ==
    /\ pc = m
    /\ Remaining(m) # {}
    /\ LET c == Min(Remaining(m))
       IN \E o \in Possible(m, c) :
            results' = [results EXCEPT ![m] = WithResult(@, c, o)]
    /\ UNCHANGED <<definition, file, pc, test_set, cases, comparison, verdict>>

\* _execute_mode has gone through all cases.
EndMode(m) ==
    /\ pc = m
    /\ Remaining(m) = {}
    /\ pc' = IF m = "baseline" THEN "mitigated" ELSE "analyse"
    /\ UNCHANGED <<definition, file, test_set, cases, results, comparison, verdict>>

\* The report on two sets of results, with expectations from test set t: what
\* a case with that id expects there, whatever the runner read.
Report(t, baseline, mitigation) ==
    compare(Cardinality(DOMAIN t.expected),
            calculate_metrics(baseline, t.expected),
            calculate_metrics(mitigation, t.expected))

\* A result whose case the first read did not have cannot be scored.
Analyse ==
    /\ pc = "analyse"
    /\ IF DOMAIN cases.expected \subseteq DOMAIN test_set.expected
       THEN /\ comparison' =
                 Report(test_set, results["baseline"], results["mitigated"])
            /\ pc' = "judge"
       ELSE pc' = "failed" /\ UNCHANGED comparison
    /\ UNCHANGED <<definition, file, test_set, cases, results, verdict>>

\* The worker has no earlier comparison to hand.
Judge ==
    /\ pc = "judge"
    /\ verdict' = compute_verdict(comparison, None)
    /\ pc' = "done"
    /\ UNCHANGED <<definition, file, test_set, cases, results, comparison>>

Next ==
    \/ \E d \in definition.holds \cup {Garbled} : Rewrite(d)
    \/ load_test_set
    \/ RunnerLoad
    \/ \E m \in Modes : EndMode(m) \/ ExecuteCase(m)
    \/ Analyse
    \/ Judge

Spec == Init /\ [][Next]_vars
-----------------------------------------------------------------------------
(* Properties. *)

\* How good a label is, as detect_regressions orders them.
Grade(v) == VerdictSeverity[v.label]

\* The verdict the run would have got with other results.
VerdictOn(baseline, mitigation) ==
    compute_verdict(Report(test_set, baseline, mitigation), None)

\* Result r as it is when the strategy decides d without an error.
Deciding(r, d) == [r EXCEPT !.decision = d, !.errored = FALSE]

\* A verdict is monotone in the results.  A mitigation that gets one more case
\* right, whatever it did there before, is never judged worse for it and is no
\* regression of the one it was; and a baseline that lets one more malicious
\* case through never makes the mitigation look worse.
VerdictIsMonotone ==
    pc = "done" =>
        /\ \A c \in DOMAIN results["mitigated"] :
             LET fixed == [results["mitigated"] EXCEPT
                             ![c] = Deciding(@, test_set.expected[c])]
                 report == Report(test_set, results["baseline"], fixed)
             IN /\ Grade(compute_verdict(report, None)) >= Grade(verdict)
                /\ compute_verdict(report, comparison).label # "regression"
        /\ \A c \in DOMAIN results["baseline"] :
             test_set.expected[c] = "blocked" =>
                 Grade(VerdictOn([results["baseline"] EXCEPT
                                    ![c] = Deciding(@, "accepted")],
                                 results["mitigated"])) >= Grade(verdict)

\* A favourable verdict rests on a malicious case that the mitigation blocked
\* and on a valid case that it accepted, both without an error: a group
\* without a scored case is never taken for a perfect one.
FavourableHasEvidence ==
    (pc = "done" /\ verdict.label \in {"effective", "partially_effective"}) =>
        \A d \in Decisions : \E c \in DOMAIN results["mitigated"] :
            /\ test_set.expected[c] = d
            /\ results["mitigated"][c].decision = d
            /\ ~results["mitigated"][c].errored

\* A verdict speaks of cases of the dataset its evidence names and, unless the
\* file changed between the two reads, of each of them in both modes: at
\* least the minimum for any verdict but "inconclusive".
ScoredAsExecuted ==
    pc = "done" => \A m \in Modes :
        LET ran == DOMAIN results[m]
        IN /\ ran \subseteq DOMAIN test_set.expected
           /\ test_set = cases =>
                /\ ran = DOMAIN test_set.expected
                /\ (verdict.label # "inconclusive") <=>
                     (Cardinality(ran) >= VerdictThresholds.min_total_cases)

Generated == pc = "done" /\ test_set.config # None

\* A generated dataset expects of each case what the platform's mitigation
\* does with it, but for the boundary and oversized cases of a configuration
\* whose limits are not the ones the mitigation enforces.
LabelsMatchMitigation ==
    Generated => \A c \in DOMAIN results["mitigated"] :
        \/ /\ results["mitigated"][c].decision = test_set.expected[c]
           /\ ~results["mitigated"][c].errored
        \/ /\ test_set.category[c] \in {"boundary", "oversized"}
           /\ test_set.config.limit # EnforcedLimits[test_set.domain]

\* On a generated dataset with the limits that it enforces the platform's own
\* mitigation is judged effective exactly when there are enough cases, valid
\* and malicious ones among them.
PerfectIsEffective ==
    (Generated /\ test_set.config.limit = EnforcedLimits[test_set.domain]) =>
        (verdict.label = "effective" <=>
            /\ Cardinality(DOMAIN test_set.expected)
                 >= VerdictThresholds.min_total_cases
            /\ Range(test_set.expected) = Decisions)

\* What a domain's baseline stops its mitigation stops too, whatever the
\* request is: a raised error counts as a stop.
MitigationStopsMore ==
    (pc = "done" /\ cases.inputs # None) =>
        \A c \in DOMAIN cases.inputs :
            results["baseline"][c].decision = "blocked" =>
                results["mitigated"][c].decision = "blocked"
-----------------------------------------------------------------------------
(***************************************************************************)
(* The inductive invariants that ValidationRunProofs proves.               *)
(***************************************************************************)

TypeOK ==
    /\ definition \in Definitions
    /\ file \in definition.holds \cup {Garbled}
    /\ pc \in Modes \cup {"load", "reload", "analyse", "judge", "done", "failed"}
    /\ results \in [Modes -> Range(results)]
    /\ \A m \in Modes : results[m] \in [DOMAIN results[m] -> Outcomes]

\* The two reads returned test sets of the experiment, the second one of its
\* domain.
ReadInv ==
    /\ pc \notin {"load", "failed"} => test_set \in definition.holds
    /\ pc \notin {"load", "reload", "failed"} =>
         cases \in definition.holds /\ cases.domain = definition.domain

\* The runner goes through all cases of what it read, mode by mode.
ProgressInv ==
    /\ pc \in {"load", "reload"} => \A m \in Modes : results[m] = <<>>
    /\ pc = "baseline" =>
         /\ DOMAIN results["baseline"] \subseteq DOMAIN cases.expected
         /\ results["mitigated"] = <<>>
    /\ pc = "mitigated" =>
         /\ DOMAIN results["baseline"] = DOMAIN cases.expected
         /\ DOMAIN results["mitigated"] \subseteq DOMAIN cases.expected
    /\ pc \in {"analyse", "judge", "done"} =>
         \A m \in Modes : DOMAIN results[m] = DOMAIN cases.expected

\* A request is decided by the strategy of the experiment's domain.
DecidedInv ==
    pc \notin {"load", "reload", "failed"} => cases.inputs = None \/
        \A m \in Modes : \A c \in DOMAIN results[m] :
            results[m][c] = process(definition.domain, m, cases.inputs[c])

\* The verdict is the one on these results.
JudgedInv ==
    /\ pc \in {"judge", "done"} =>
         /\ DOMAIN cases.expected \subseteq DOMAIN test_set.expected
         /\ comparison =
              Report(test_set, results["baseline"], results["mitigated"])
    /\ pc = "done" => verdict = compute_verdict(comparison, None)
=============================================================================
