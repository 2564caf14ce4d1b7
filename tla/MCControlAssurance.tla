------------------------ MODULE MCControlAssurance ------------------------
(***************************************************************************)
(* Instances of ControlAssurance and of ResearchAnalyst, which extends it. *)
(***************************************************************************)
EXTENDS ResearchAnalyst, TLC

CONSTANTS c1, c2, c3

\* An effective run and two that each trip the thresholds against the one
\* before, so that a control can regress twice in three runs.
Good == [verdict_label |-> "effective", block_rate_improvement |-> 60,
         false_positive_rate |-> 0, false_negative_rate |-> 0,
         valid_acceptance_rate |-> 100, parser_reach_rate |-> 10]
Bad == [Good EXCEPT !.verdict_label = "ineffective",
                    !.block_rate_improvement = 20]
Poor == [Bad EXCEPT !.valid_acceptance_rate = 80]
ThreeGrades == {Good, Bad, Poor}

\* A KEV listing stands for the four triggers that need the related CVEs of
\* the experiment.
MCNewsTriggers == <<"kev_state_change">>

\* Three vulnerabilities: c1 and c2 share a weakness and the vendor; c1 and c3
\* reach the least score exactly, if their domains agree; c2 and c3 reach it
\* with the experiment they share.
Fact(cwe, vendor, text, relevance, experiments) ==
    [cwe_ids |-> cwe, vendor |-> vendor, description |-> text,
     zero_click_relevance |-> relevance, experiments |-> experiments]
MCFacts ==
    (c1 :> Fact({79}, "acme", "overflow", "direct", {})) @@
    (c2 :> Fact({79, 20}, "acme", "bypass", Unknown, {"exp"})) @@
    (c3 :> Fact({}, Unknown, Unknown, "direct", {"exp"}))
MCTextRatio == [ab \in {"overflow", "bypass"} \X {"overflow", "bypass"} |->
                  IF ab[1] = ab[2] THEN 100 ELSE 30]
MCFirstTable ==
    (c1 :> [domain_guess |-> "VPN", updated_at |-> 0]) @@
    (c2 :> [domain_guess |-> "VPN", updated_at |-> -1]) @@
    (c3 :> [domain_guess |-> "TELECOM", updated_at |-> -2])

\* A pattern and a template for each domain.
MCPatterns == [VPN |-> {"request_schema"}, TELECOM |-> {"session_grammar"}]
MCTemplates ==
    {[domain |-> "VPN", id |-> "schema", version |-> 1],
     [domain |-> "TELECOM", id |-> "grammar", version |-> 1]}

\* Three runs of one worker with a decision and an explanation; three runs of
\* two workers, one of which may fail; a scan among outside events and a
\* candidate raised by hand or a decision; and requests about vulnerabilities
\* among syncs and reviews.
Budget(r, o, s, n, m, d, f) ==
    [run |-> r, overlap |-> o, scan |-> s, news |-> n, manual |-> m,
     decision |-> d, fail |-> f, ask |-> 0, explain |-> 0, sync |-> 0,
     review |-> 0]
AnalystBudget(a, y, v) ==
    [Budget(0, 0, 0, 0, 0, 0, 0) EXCEPT !.ask = a, !.sync = y, !.review = v]
MCBudgets ==
    {[Budget(3, 0, 0, 0, 0, 1, 0) EXCEPT !.explain = 1],
     Budget(3, 1, 0, 0, 0, 0, 1), Budget(1, 0, 1, 2, 0, 1, 0),
     Budget(2, 0, 1, 1, 0, 1, 0), Budget(2, 0, 1, 1, 1, 0, 0),
     AnalystBudget(2, 1, 0), AnalystBudget(1, 2, 0), AnalystBudget(1, 0, 2)}

AssuranceSymmetry == Permutations(Runs) \cup Permutations(Scans)
                       \cup Permutations(Decisions) \cup Permutations(Labels)
=============================================================================
