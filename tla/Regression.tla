----------------------------- MODULE Regression -----------------------------
(***************************************************************************)
(* The comparison of two consecutive validations of a control: the rules   *)
(* of detect_regressions.  Rates are percentages, so a threshold of 0.05   *)
(* is 5; the sentences that explain a rule are left out.                   *)
(***************************************************************************)
EXTENDS Integers

VerdictLabels == {"effective", "partially_effective", "inconclusive",
                  "ineffective", "regression"}

VerdictSeverity ==
    [effective |-> 4, partially_effective |-> 3, inconclusive |-> 2,
     ineffective |-> 1, regression |-> 0]

Rates == 0..100

\* What a ControlValidation records of a run.  block_rate_improvement is a
\* difference of two rates.
Measurements ==
    [verdict_label : VerdictLabels, block_rate_improvement : -100..100,
     false_positive_rate : Rates, false_negative_rate : Rates,
     valid_acceptance_rate : Rates, parser_reach_rate : Rates]

\* RegressionThresholds: the largest degradation that is tolerated.
Thresholds ==
    [block_rate_improvement |-> 10, false_positive_rate |-> 5,
     false_negative_rate |-> 5, valid_acceptance_rate |-> 5,
     parser_reach_rate |-> 5]

\* By how much metric f is worse in latest than in previous.
Degradation(previous, latest, f) ==
    IF f \in {"block_rate_improvement", "valid_acceptance_rate"}
    THEN previous[f] - latest[f]
    ELSE latest[f] - previous[f]

\* Any single rule marks the comparison a regression.
detect_regressions(previous, latest) ==
    \/ VerdictSeverity[latest.verdict_label]
         < VerdictSeverity[previous.verdict_label]
    \/ \E f \in DOMAIN Thresholds :
         Degradation(previous, latest, f) > Thresholds[f]
=============================================================================
