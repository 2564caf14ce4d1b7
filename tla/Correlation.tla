---------------------------- MODULE Correlation ----------------------------
(***************************************************************************)
(* The similarity of two vulnerabilities and the ranking of the candidates *)
(* for one of them: correlate and rank_correlations.                       *)
(*                                                                         *)
(* Points are hundredths until correlate rounds the total to tenths, and a *)
(* score is a number of tenths.  The ratio of two descriptions comes from  *)
(* difflib and is a table; the sentences of the explanation are left out.  *)
(***************************************************************************)
EXTENDS Integers, FiniteSets

CONSTANTS
    TextRatio,  \* TextRatio[<<a, b>>]: how similar two descriptions are, in %
    Unknown     \* a field without a value

\* CorrelationWeights: the most a feature can contribute.
CorrelationWeights ==
    [cwe_overlap |-> 2500, vendor |-> 1500, domain_guess |-> 1000,
     zero_click_relevance |-> 1000, text_similarity |-> 2000,
     shared_experiment |-> 2000]

TotalMax == 10000

CweOverlap(a, b) ==
    IF a = {} \/ b = {} THEN 0
    ELSE (CorrelationWeights.cwe_overlap * Cardinality(a \cap b))
           \div Cardinality(a \cup b)

TextSimilarity(a, b) ==
    IF Unknown \in {a, b} THEN 0
    ELSE (CorrelationWeights.text_similarity * TextRatio[<<a, b>>]) \div 100

\* The flat contribution of a feature both have with the same value.
Flat(f, a, b) ==
    IF a[f] # Unknown /\ a[f] = b[f] THEN CorrelationWeights[f] ELSE 0

correlate(subject, candidate) ==
    LET shared == subject.experiments \cap candidate.experiments
        total == CweOverlap(subject.cwe_ids, candidate.cwe_ids)
                   + Flat("vendor", subject, candidate)
                   + Flat("domain_guess", subject, candidate)
                   + Flat("zero_click_relevance", subject, candidate)
                   + TextSimilarity(subject.description, candidate.description)
                   + IF shared = {} THEN 0
                     ELSE CorrelationWeights.shared_experiment
    IN ((IF total > TotalMax THEN TotalMax ELSE total) + 5) \div 10

\* The "limit" best candidates with at least min_score.  The sort is stable:
\* of two equal ones the one listed first, the more recent one, comes first.
rank_correlations(subject, candidates, min_score, limit) ==
    LET score(c) == correlate(subject, c)
        good == {c \in candidates : /\ c.cve_id # subject.cve_id
                                    /\ score(c) >= min_score}
        ahead(c) == {d \in good : \/ score(d) > score(c)
                                  \/ score(d) = score(c)
                                       /\ d.updated_at > c.updated_at}
    IN {c.cve_id : c \in {c \in good : Cardinality(ahead(c)) < limit}}
=============================================================================
