------------------------------ MODULE Priority ------------------------------
(***************************************************************************)
(* classify_domain and the validation priority of a CVE.  Points are       *)
(* counted in thousandths: a CVSS score is given in tenths, an EPSS score  *)
(* in thousandths.  A text is known by the vocabulary it hits; the         *)
(* explanations are left out, and so is the cap on the total, which is the *)
(* sum of the weights.                                                     *)
(***************************************************************************)
EXTENDS Dedup, FiniteSets

CONSTANTS
    Texts,     \* descriptions and vendor names
    Hits       \* Hits[t]: the vocabularies text t contains a term of

Vocabularies == {"vpn_strong", "vpn_product", "telecom_strong",
                 "telecom_product"}

ASSUME HitsAssumption == Hits \in [Texts -> SUBSET Vocabularies]

Domains == {"vpn", "telecom"}
StrongTerms == [vpn |-> "vpn_strong", telecom |-> "telecom_strong"]
ProductTerms == [vpn |-> "vpn_product", telecom |-> "telecom_product"]

\* The vocabularies the text of a vulnerability hits.
Matched(v) == UNION {Hits[t] : t \in {v.description, v.vendor} \ {None}}

Classification(d, status) == [domain |-> d, support_status |-> status]

\* Hits of both domains are ambiguous; a product is stronger than a term.
classify_domain(v) ==
    LET hit == {d \in Domains :
                  {StrongTerms[d], ProductTerms[d]} \cap Matched(v) # {}}
        d   == CHOOSE e \in hit : TRUE
    IN CASE Cardinality(hit) = 2 ->
              Classification(None, "partially_supported")
         [] hit = {} -> Classification(None, "unsupported")
         [] OTHER -> Classification(d,
              IF ProductTerms[d] \in Matched(v) THEN "supported"
              ELSE "partially_supported")

\* PriorityWeights.
CvssMax == 30000
EpssMax == 25000
KevFlat == 20000
DomainMax == 15000
NoCoverageFlat == 10000

\* Unknown zero-click relevance counts as much as medium relevance.
domain_points(status, relevance) ==
    LET base == CASE status = "supported"           -> DomainMax
                  [] status = "partially_supported" -> DomainMax \div 2
                  [] OTHER                          -> 0
    IN CASE relevance = "high" -> base
         [] relevance = "low"  -> 0
         [] OTHER              -> base \div 2

\* The total before it is rounded to a tenth.
score(v, status, covered) ==
      (IF v.cvss_score = None THEN 0
       ELSE v.cvss_score * (CvssMax \div 100))
    + (IF v.epss_score = None THEN 0
       ELSE v.epss_score * (EpssMax \div 1000))
    + (IF v.kev_listed THEN KevFlat ELSE 0)
    + domain_points(status, v.zero_click_relevance)
    + (IF covered THEN 0 ELSE NoCoverageFlat)

\* label_for_score, of the total before it is rounded.
label_for_score(total) ==
    CASE total >= 85000 -> "critical"
      [] total >= 65000 -> "high"
      [] total >= 40000 -> "medium"
      [] OTHER          -> "low"

\* generate_candidate, where the domain is not unsupported.
CandidateOf(v, covered) ==
    LET k == classify_domain(v)
        s == score(v, k.support_status, covered)
    IN [domain |-> k.domain, support_status |-> k.support_status,
        priority_score |-> s, priority_label |-> label_for_score(s)]
=============================================================================
