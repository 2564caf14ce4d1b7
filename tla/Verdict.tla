------------------------------ MODULE Verdict ------------------------------
(***************************************************************************)
(* The metrics of a run, the comparison of a baseline with a mitigated run *)
(* and the verdict on it.  A rate is a fraction [num, den] and is compared *)
(* exactly; thresholds are percentages.  The sentences that explain a      *)
(* verdict are left out.                                                   *)
(***************************************************************************)
EXTENDS Regression, FiniteSets, FiniteSetsExt, Functions

CONSTANT None

Decisions == {"accepted", "blocked"}

\* A CaseResult, or a StrategyOutcome with the time it took.
Outcomes ==
    [decision : Decisions, parser_reached : BOOLEAN, errored : BOOLEAN,
     logged : BOOLEAN, latency_ms : Nat]

\* _safe_rate: the rate of an empty group is zero.
Rate(n, d) == IF d = 0 THEN [num |-> 0, den |-> 1] ELSE [num |-> n, den |-> d]

Minus(a, b) == [num |-> a.num * b.den - b.num * a.den, den |-> a.den * b.den]

Below(a, b) == a.num * b.den < b.num * a.den
AtLeast(r, percent) == 100 * r.num >= percent * r.den
AtMost(r, percent) == 100 * r.num <= percent * r.den

\* The cases of a run that count: those that did not end in an error.
Mut_Scored(results) == DOMAIN results
Scored(results) == {c \in DOMAIN results : ~results[c].errored}

\* Every case of results has an expectation.
calculate_metrics(results, expected) ==
    LET S     == Scored(results)
        N(T)  == Cardinality(T)
        Of(d) == {c \in S : expected[c] = d}
        As(T, d) == N({c \in T : results[c].decision = d})
        bad   == Of("blocked")
        good  == Of("accepted")
        held  == {c \in S : results[c].decision = "blocked"}
        total == N(DOMAIN results)
    IN [processing_success_rate |-> Rate(N(S), total),
        block_rate |-> Rate(As(bad, "blocked"), N(bad)),
        valid_acceptance_rate |-> Rate(As(good, "accepted"), N(good)),
        false_positive_rate |-> Rate(As(good, "blocked"), N(good)),
        false_negative_rate |-> Rate(As(bad, "accepted"), N(bad)),
        parser_reach_rate |->
            Rate(N({c \in bad : results[c].parser_reached}), N(bad)),
        log_completeness_rate |->
            Rate(N({c \in held : results[c].logged}), N(held)),
        mean_latency_ms |->
            Rate(SumFunction([c \in DOMAIN results |-> results[c].latency_ms]),
                 total)]

compare(total_cases, baseline, mitigation) ==
    [total_cases |-> total_cases,
     baseline_metrics |-> baseline, mitigation_metrics |-> mitigation,
     block_rate_improvement |->
         Minus(mitigation.block_rate, baseline.block_rate),
     latency_overhead_ms |->
         Minus(mitigation.mean_latency_ms, baseline.mean_latency_ms)]

\* DEFAULT_THRESHOLDS; any drop of the block rate is a regression.
VerdictThresholds ==
    [min_total_cases |-> 5,
     min_block_rate_improvement_effective |-> 50,
     min_block_rate_improvement_partial |-> 10,
     max_false_positive_rate |-> 5, max_false_negative_rate |-> 10,
     min_valid_acceptance_rate |-> 95, max_latency_overhead_ms |-> 100]

\* fp_ok, fn_ok, va_ok and latency_ok.
Mut_Meets(r, k) ==
    LET m == r.mitigation_metrics
        t == VerdictThresholds[k]
    IN CASE k = "max_false_positive_rate" -> AtMost(m.false_positive_rate, t)
         [] k = "max_false_negative_rate" -> AtLeast(m.false_negative_rate, t)
         [] k = "min_valid_acceptance_rate" ->
              AtLeast(m.valid_acceptance_rate, t)
         [] k = "max_latency_overhead_ms" ->
              r.latency_overhead_ms.num <= t * r.latency_overhead_ms.den

Meets(r, k) ==
    LET m == r.mitigation_metrics
        t == VerdictThresholds[k]
    IN CASE k = "max_false_positive_rate" -> AtMost(m.false_positive_rate, t)
         [] k = "max_false_negative_rate" -> AtMost(m.false_negative_rate, t)
         [] k = "min_valid_acceptance_rate" ->
              AtLeast(m.valid_acceptance_rate, t)
         [] k = "max_latency_overhead_ms" ->
              r.latency_overhead_ms.num <= t * r.latency_overhead_ms.den

\* The criteria, other than the improvement, that a comparison fails.
Failing(r) ==
    {k \in {"max_false_positive_rate", "max_false_negative_rate",
            "min_valid_acceptance_rate", "max_latency_overhead_ms"} :
       ~Meets(r, k)}

VerdictResult(label, failed) == [label |-> label, failed_criteria |-> failed]

Improved(r, k) == AtLeast(r.block_rate_improvement, VerdictThresholds[k])

Shortfall(r, label) ==
    {k \in CASE label = "partially_effective" ->
                  {"min_block_rate_improvement_effective"}
             [] label = "ineffective" ->
                  {"min_block_rate_improvement_partial"}
             [] OTHER -> {} : ~Improved(r, k)}

\* previous is the comparison of an earlier run, or None.
compute_verdict(r, previous) ==
    LET failed == Failing(r)
        label ==
          IF /\ Improved(r, "min_block_rate_improvement_effective")
             /\ failed = {}
          THEN "effective"
          ELSE IF /\ Improved(r, "min_block_rate_improvement_partial")
                  /\ "min_valid_acceptance_rate" \notin failed
          THEN "partially_effective" ELSE "ineffective"
    IN IF r.total_cases < VerdictThresholds.min_total_cases
       THEN VerdictResult("inconclusive", {"min_total_cases"})
       ELSE IF /\ previous # None
               /\ Below(r.mitigation_metrics.block_rate,
                        previous.mitigation_metrics.block_rate)
       THEN VerdictResult("regression", {"regression_block_rate_drop"})
       ELSE VerdictResult(label, failed \cup Shortfall(r, label))
=============================================================================
