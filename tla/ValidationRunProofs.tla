------------------------ MODULE ValidationRunProofs ------------------------
(***************************************************************************)
(* Proofs about ValidationRun, for every set of experiments and datasets   *)
(* and every request.                                                      *)
(***************************************************************************)
EXTENDS ValidationRun, FiniteSetTheorems, SequenceTheorems,
        WellFoundedInduction, TLAPS

-----------------------------------------------------------------------------
(***************************************************************************)
(* The strategies.                                                         *)
(***************************************************************************)

LEMMA MinOfNaturals ==
    ASSUME NEW S, S \subseteq Nat, S # {}
    PROVE  Min(S) \in S /\ \A y \in S : Min(S) <= y
<1> DEFINE R == OpToRel(<, Nat)
<1>1. PICK x \in S : \A y \in S : ~(<<y, x>> \in R)
  <2> HIDE DEF R
  <2>1. IsWellFoundedOn(R, Nat)
    BY NatLessThanWellFounded DEF R
  <2> QED
    BY <2>1, WFMin
<1>2. \A y \in S : x <= y
  <2>1. \A y \in S : y < x => <<y, x>> \in R
    BY DEF OpToRel
  <2> HIDE DEF R
  <2>2. \A y \in S : ~(y < x)
    BY <1>1, <2>1
  <2> QED
    BY <2>2
<1>3. \E z \in S : \A y \in S : z <= y
  BY <1>2
<1> QED
  BY <1>3 DEF Min

Verdicts == {"raises", "fails", "passes"}

LEMMA SaysType ==
    ASSUME NEW a, NEW b
    PROVE  /\ Says(a, b) \in Verdicts
           /\ b => Says(a, b) # "passes"
  BY DEF Says, Verdicts

\* The outcomes of the two families of strategies.
LEMMA OutcomeFacts ==
    /\ Accepted \in Outcomes /\ Raised \in Outcomes
    /\ Blocked(TRUE) \in Outcomes /\ Blocked(FALSE) \in Outcomes
    /\ Accepted.decision = "accepted"
    /\ Raised.decision = "blocked" /\ Blocked(TRUE).decision = "blocked"
    /\ Blocked(FALSE).decision = "blocked"
  BY DEF Accepted, Raised, Blocked, Outcomes, Decisions

LEMMA ComplaintFacts ==
    ASSUME NEW checks \in Seq(Verdicts)
    PROVE  /\ FirstComplaint(checks) = 0 <=>
                \A i \in 1..Len(checks) : checks[i] = "passes"
           /\ weak_process(checks) \in {Accepted, Blocked(FALSE)}
           /\ strict_process(checks) \in {Accepted, Blocked(TRUE), Raised}
           /\ weak_process(checks) = Blocked(FALSE) =>
                \E i \in 1..Len(checks) : checks[i] # "passes"
           /\ (\E i \in 1..Len(checks) : checks[i] # "passes") =>
                strict_process(checks).decision = "blocked"
<1> DEFINE I == {i \in 1..Len(checks) : checks[i] # "passes"}
           k == FirstComplaint(checks)
<1>1. k = IF I # {} THEN Min(I) ELSE 0
  BY DEF FirstComplaint, SelectInSeq
<1>2. I \subseteq Nat /\ 0 \notin I
  OBVIOUS
<1> HIDE DEF I
<1>3. k = 0 <=> I = {}
  BY <1>1, <1>2, MinOfNaturals
<1>4. I = {} <=> \A i \in 1..Len(checks) : checks[i] = "passes"
  BY DEF I
<1>5. strict_process(checks) = IF k = 0 THEN Accepted
                               ELSE IF checks[k] = "fails" THEN Blocked(TRUE)
                               ELSE Raised
  BY DEF strict_process
<1>6. weak_process(checks) = IF k = 0 THEN Accepted ELSE Blocked(FALSE)
  BY DEF weak_process
<1> HIDE DEF k
<1>7. Accepted # Blocked(FALSE)
  BY OutcomeFacts
<1>8. FirstComplaint(checks) = 0 <=>
        \A i \in 1..Len(checks) : checks[i] = "passes"
  BY <1>3, <1>4 DEF k
<1>9. /\ weak_process(checks) \in {Accepted, Blocked(FALSE)}
      /\ strict_process(checks) \in {Accepted, Blocked(TRUE), Raised}
  BY <1>5, <1>6
<1>10. weak_process(checks) = Blocked(FALSE) =>
         \E i \in 1..Len(checks) : checks[i] # "passes"
  BY <1>3, <1>4, <1>6, <1>7
<1>11. (\E i \in 1..Len(checks) : checks[i] # "passes") =>
         strict_process(checks).decision = "blocked"
  <2>1. ASSUME k # 0
        PROVE  strict_process(checks) \in {Blocked(TRUE), Raised}
    BY <1>5, <2>1
  <2> QED
    BY <1>3, <1>4, <2>1, OutcomeFacts
<1> QED
  BY <1>8, <1>9, <1>10, <1>11

\* What the VPN baseline stops fails the first check of the mitigation.
LEMMA VpnStops ==
    ASSUME NEW r
    PROVE  /\ weak_schema_length_baseline(r) \in Outcomes
           /\ strict_schema_canonicalisation_mitigation(r) \in Outcomes
           /\ weak_schema_length_baseline(r).decision = "blocked" =>
                strict_schema_canonicalisation_mitigation(r).decision = "blocked"
<1> DEFINE a == Says(FALSE, r.method # "text")
           b == Says(FALSE, r.path.len = 0)
           c == fails_schema_check(r)
           d == fails_length_checks(r)
           e == fails_duplicate_field_check(r)
           f == fails_type_check(r)
           g == fails_path_canonicalisation_check(r)
           weak == <<a, b>>
           strict == <<c, d, e, f, g>>
<1>1. {a, b, c, d, e, f, g} \subseteq Verdicts
  <2>1. a \in Verdicts /\ b \in Verdicts
    BY SaysType
  <2>2. c \in Verdicts
    BY SaysType DEF fails_schema_check
  <2>3. d \in Verdicts
    BY SaysType DEF fails_length_checks
  <2>4. e \in Verdicts
    BY SaysType DEF fails_duplicate_field_check
  <2>5. f \in Verdicts
    BY SaysType DEF fails_type_check
  <2>6. g \in Verdicts
    BY SaysType DEF fails_path_canonicalisation_check
  <2> HIDE DEF a, b, c, d, e, f, g
  <2> QED
    BY <2>1, <2>2, <2>3, <2>4, <2>5, <2>6
<1>2. a # "passes" \/ b # "passes" => c # "passes"
  BY DEF Says, fails_schema_check
<1>3. /\ weak_schema_length_baseline(r) = weak_process(weak)
      /\ strict_schema_canonicalisation_mitigation(r) = strict_process(strict)
  BY DEF weak_schema_length_baseline, strict_schema_canonicalisation_mitigation
<1> HIDE DEF a, b, c, d, e, f, g
<1>4. /\ weak \in Seq(Verdicts) /\ Len(weak) = 2 /\ weak[1] = a /\ weak[2] = b
      /\ strict \in Seq(Verdicts) /\ Len(strict) = 5 /\ strict[1] = c
  BY <1>1
<1> HIDE DEF weak, strict
<1>5. weak_process(weak) \in {Accepted, Blocked(FALSE)}
      /\ strict_process(strict) \in {Accepted, Blocked(TRUE), Raised}
  BY <1>4, ComplaintFacts
<1>6. ASSUME weak_process(weak).decision = "blocked"
      PROVE  strict_process(strict).decision = "blocked"
  <2>1. weak_process(weak) = Blocked(FALSE)
    BY <1>5, <1>6, OutcomeFacts
  <2>2. \E i \in 1..Len(weak) : weak[i] # "passes"
    BY <1>4, <2>1, ComplaintFacts
  <2>3. a # "passes" \/ b # "passes"
    BY <1>4, <2>2
  <2>4. \E i \in 1..Len(strict) : strict[i] # "passes"
    BY <1>2, <1>4, <2>3
  <2> QED
    BY <1>4, <2>4, ComplaintFacts
<1> QED
  BY <1>3, <1>5, <1>6, OutcomeFacts

\* What the telecom baseline stops lacks a mandatory header or is no legal
\* transition.
LEMMA TelecomStops ==
    ASSUME NEW r
    PROVE  /\ weak_mandatory_field_state_baseline(r) \in Outcomes
           /\ strict_grammar_state_machine_mitigation(r) \in Outcomes
           /\ weak_mandatory_field_state_baseline(r).decision = "blocked" =>
                strict_grammar_state_machine_mitigation(r).decision = "blocked"
<1> DEFINE a == Says(FALSE, r.method \notin KnownMethods)
           b == Says(FALSE, r.headers = <<>>)
           h == Says(FALSE, r.state \notin KnownStates)
           c == fails_mandatory_field_check(r)
           d == fails_duplicate_header_check(r)
           e == fails_size_limit_checks(r)
           f == fails_sequence_validation(r)
           g == fails_state_machine_check(r)
           weak == <<a, b, h>>
           strict == <<c, d, e, f, g>>
<1>1. {a, b, c, d, e, f, g, h} \subseteq Verdicts
  <2>1. a \in Verdicts /\ b \in Verdicts /\ h \in Verdicts
    BY SaysType
  <2>2. c \in Verdicts
    BY SaysType DEF fails_mandatory_field_check
  <2>3. d \in Verdicts
    BY SaysType DEF fails_duplicate_header_check
  <2>4. e \in Verdicts
    BY SaysType DEF fails_size_limit_checks
  <2>5. f \in Verdicts
    BY SaysType DEF fails_sequence_validation
  <2>6. g \in Verdicts
    BY SaysType DEF fails_state_machine_check
  <2> HIDE DEF a, b, c, d, e, f, g, h
  <2> QED
    BY <2>1, <2>2, <2>3, <2>4, <2>5, <2>6
<1>2. a # "passes" \/ h # "passes" => g # "passes"
  <2>1. r.method \notin KnownMethods \/ r.state \notin KnownStates =>
          <<r.state, r.method>> \notin LegalTransitions
    BY DEF KnownMethods, KnownStates, LegalTransitions
  <2> QED
    BY <2>1, SaysType DEF Says, fails_state_machine_check
<1>3. b # "passes" => c # "passes"
  <2>1. r.headers = <<>> => Keys(r.headers) = {}
    BY DEF Keys, Pairs
  <2>2. r.headers = <<>> => ~(MandatoryHeaders \subseteq Keys(r.headers))
    BY <2>1 DEF MandatoryHeaders
  <2> QED
    BY <2>2, SaysType DEF Says, fails_mandatory_field_check
<1>4. /\ weak_mandatory_field_state_baseline(r) = weak_process(weak)
      /\ strict_grammar_state_machine_mitigation(r) = strict_process(strict)
  BY DEF weak_mandatory_field_state_baseline,
         strict_grammar_state_machine_mitigation
<1> HIDE DEF a, b, c, d, e, f, g, h
<1>5. /\ weak \in Seq(Verdicts) /\ Len(weak) = 3
      /\ weak[1] = a /\ weak[2] = b /\ weak[3] = h
      /\ strict \in Seq(Verdicts) /\ Len(strict) = 5
      /\ strict[1] = c /\ strict[5] = g
  BY <1>1
<1> HIDE DEF weak, strict
<1>6. weak_process(weak) \in {Accepted, Blocked(FALSE)}
      /\ strict_process(strict) \in {Accepted, Blocked(TRUE), Raised}
  BY <1>5, ComplaintFacts
<1>7. ASSUME weak_process(weak).decision = "blocked"
      PROVE  strict_process(strict).decision = "blocked"
  <2>1. weak_process(weak) = Blocked(FALSE)
    BY <1>6, <1>7, OutcomeFacts
  <2>2. \E i \in 1..Len(weak) : weak[i] # "passes"
    BY <1>5, <2>1, ComplaintFacts
  <2>3. a # "passes" \/ b # "passes" \/ h # "passes"
    BY <1>5, <2>2
  <2>4. \E i \in 1..Len(strict) : strict[i] # "passes"
    BY <1>2, <1>3, <1>5, <2>3
  <2> QED
    BY <1>5, <2>4, ComplaintFacts
<1> QED
  BY <1>4, <1>6, <1>7, OutcomeFacts

\* What the baseline of a domain stops its mitigation stops too.
LEMMA ProcessFacts ==
    ASSUME NEW domain \in {"vpn", "telecom"}, NEW r
    PROVE  /\ \A m \in Modes : process(domain, m, r) \in Outcomes
           /\ process(domain, "baseline", r).decision = "blocked" =>
                process(domain, "mitigated", r).decision = "blocked"
<1>1. CASE domain = "vpn"
  <2>1. /\ process(domain, "baseline", r) = weak_schema_length_baseline(r)
        /\ process(domain, "mitigated", r) =
             strict_schema_canonicalisation_mitigation(r)
    BY <1>1 DEF process
  <2> QED
    BY <2>1, VpnStops DEF Modes
<1>2. CASE domain = "telecom"
  <2>1. /\ process(domain, "baseline", r) =
             weak_mandatory_field_state_baseline(r)
        /\ process(domain, "mitigated", r) =
             strict_grammar_state_machine_mitigation(r)
    BY <1>2 DEF process
  <2> QED
    BY <2>1, TelecomStops DEF Modes
<1> QED
  BY <1>1, <1>2
-----------------------------------------------------------------------------
(***************************************************************************)
(* The verdict.                                                            *)
(***************************************************************************)

Fraction(r) == r.num \in Nat /\ r.den \in Nat \ {0}

LEMMA RateFacts ==
    ASSUME NEW n \in Nat, NEW d \in Nat
    PROVE  Fraction(Rate(n, d)) /\ (Rate(n, d).num > 0 => n > 0)
<1>1. CASE d = 0
  <2>1. Rate(n, d) = [num |-> 0, den |-> 1]
    BY <1>1 DEF Rate
  <2> QED
    BY <2>1 DEF Fraction
<1>2. CASE d # 0
  <2>1. Rate(n, d) = [num |-> n, den |-> d]
    BY <1>2 DEF Rate
  <2> QED
    BY <1>2, <2>1 DEF Fraction
<1> QED
  BY <1>1, <1>2

LEMMA ProductFacts ==
    ASSUME NEW x \in Nat, NEW y \in Nat
    PROVE  x * y \in Nat /\ (x # 0 /\ y # 0 => x * y > 0)
  OBVIOUS

\* An improvement by a positive percentage needs a positive rate.
LEMMA ImprovementFacts ==
    ASSUME NEW a, NEW b, Fraction(a), Fraction(b), NEW p \in Nat \ {0},
           AtLeast(Minus(a, b), p)
    PROVE  a.num > 0
<1> DEFINE X == b.num * a.den
           Y == a.den * b.den
           Z == a.num * b.den
<1>1. X \in Nat /\ Y \in Nat /\ Y > 0
  BY ProductFacts DEF Fraction
<1>2. 100 * (Z - X) >= p * Y
  BY DEF AtLeast, Minus
<1>3. p * Y > 0 /\ p * Y \in Nat
  <2> HIDE DEF Y
  <2> QED
    BY <1>1, ProductFacts
<1>4. CASE a.num = 0
  <2>1. Z = 0
    BY <1>4 DEF Fraction
  <2> DEFINE W == p * Y
  <2> HIDE DEF X, Y, Z
  <2>2. 100 * (0 - X) >= W /\ W > 0 /\ W \in Nat
    BY <1>2, <1>3, <2>1
  <2> HIDE DEF W
  <2> QED
    BY <1>1, <2>2
<1> QED
  BY <1>4 DEF Fraction

LEMMA AtLeastFacts ==
    ASSUME NEW a, Fraction(a), NEW p \in Nat \ {0}, AtLeast(a, p)
    PROVE  a.num > 0
<1>1. p * a.den > 0 /\ p * a.den \in Nat
  BY ProductFacts DEF Fraction
<1>2. 100 * a.num >= p * a.den
  BY DEF AtLeast
<1> DEFINE W == p * a.den
<1> HIDE DEF W
<1>3. 100 * a.num >= W /\ W > 0 /\ W \in Nat /\ a.num \in Nat
  BY <1>1, <1>2 DEF W, Fraction
<1> QED
  BY <1>3

\* The results of a finite set of cases.
Sample(res) ==
    IsFiniteSet(DOMAIN res) /\ res \in [DOMAIN res -> Outcomes]

\* A rate that is positive counts a scored case of its group.
LEMMA MetricsFacts ==
    ASSUME NEW res, Sample(res), NEW expected
    PROVE  LET m == calculate_metrics(res, expected)
               Right(d) == \E c \in DOMAIN res : /\ expected[c] = d
                                                 /\ res[c].decision = d
                                                 /\ ~res[c].errored
           IN /\ Fraction(m.block_rate) /\ Fraction(m.valid_acceptance_rate)
              /\ m.block_rate.num > 0 => Right("blocked")
              /\ m.valid_acceptance_rate.num > 0 => Right("accepted")
<1> DEFINE m == calculate_metrics(res, expected)
           Right(d) == \E c \in DOMAIN res : /\ expected[c] = d
                                             /\ res[c].decision = d
                                             /\ ~res[c].errored
           Of(d) == {c \in Scored(res) : expected[c] = d}
           As(d) == {c \in Of(d) : res[c].decision = d}
           R(d) == Rate(Cardinality(As(d)), Cardinality(Of(d)))
<1>1. m.block_rate = R("blocked") /\ m.valid_acceptance_rate = R("accepted")
  BY DEF calculate_metrics
<1>2. ASSUME NEW d
      PROVE  Fraction(R(d)) /\ (R(d).num > 0 => Right(d))
  <2>1. IsFiniteSet(DOMAIN res)
    BY DEF Sample
  <2>2. Of(d) \subseteq DOMAIN res /\ As(d) \subseteq DOMAIN res
    BY DEF Scored
  <2>3. IsFiniteSet(Of(d)) /\ IsFiniteSet(As(d))
    BY <2>1, <2>2, FS_Subset
  <2>4. \A c \in As(d) : Right(d)
    BY DEF Scored
  <2>5. Cardinality(Of(d)) \in Nat /\ Cardinality(As(d)) \in Nat
    BY <2>3, FS_CardinalityType
  <2>6. As(d) = {} => Cardinality(As(d)) = 0
    BY FS_EmptySet
  <2>7. Fraction(R(d)) /\ (R(d).num > 0 => Cardinality(As(d)) > 0)
    BY <2>5, RateFacts
  <2> HIDE DEF As, R, Right
  <2> QED
    BY <2>4, <2>6, <2>7
<1> HIDE DEF m, R, Right
<1>3. /\ Fraction(m.block_rate) /\ Fraction(m.valid_acceptance_rate)
      /\ m.block_rate.num > 0 => Right("blocked")
      /\ m.valid_acceptance_rate.num > 0 => Right("accepted")
  BY <1>1, <1>2
<1> QED
  BY <1>3 DEF m, Right

\* When each label is given.
LEMMA LabelFacts ==
    ASSUME NEW r
    PROVE  LET v == compute_verdict(r, None)
           IN /\ v.label = "inconclusive" <=> r.total_cases < 5
              /\ v.label \in {"effective", "partially_effective"} =>
                   /\ \E p \in {10, 50} : AtLeast(r.block_rate_improvement, p)
                   /\ AtLeast(r.mitigation_metrics.valid_acceptance_rate, 95)
<1> DEFINE v == compute_verdict(r, None)
           va == AtLeast(r.mitigation_metrics.valid_acceptance_rate, 95)
           big == AtLeast(r.block_rate_improvement, 50)
           some == AtLeast(r.block_rate_improvement, 10)
           few == r.total_cases < 5
<1>1. "min_valid_acceptance_rate" \notin Failing(r) => va
  BY DEF Failing, Meets, VerdictThresholds
<1>2. /\ Improved(r, "min_block_rate_improvement_effective") <=> big
      /\ Improved(r, "min_block_rate_improvement_partial") <=> some
  BY DEF Improved, VerdictThresholds
<1>3. /\ few => v.label = "inconclusive"
      /\ ~few => \/ v.label = "effective" /\ big /\ Failing(r) = {}
                 \/ /\ v.label = "partially_effective" /\ some
                    /\ "min_valid_acceptance_rate" \notin Failing(r)
                 \/ v.label = "ineffective"
  BY <1>2 DEF compute_verdict, VerdictResult, VerdictThresholds
<1> HIDE DEF v, va, big, some, few
<1>4. /\ v.label = "inconclusive" <=> few
      /\ v.label \in {"effective", "partially_effective"} =>
           (big \/ some) /\ va
  BY <1>1, <1>3
<1> QED
  BY <1>4 DEF v, va, big, some, few
-----------------------------------------------------------------------------
(***************************************************************************)
(* The run.                                                                *)
(***************************************************************************)

RunInv == TypeOK /\ ReadInv /\ ProgressInv /\ DecidedInv /\ JudgedInv

LEMMA DatasetFacts ==
    ASSUME NEW x \in Definitions, NEW d \in x.holds
    PROVE  /\ x.domain \in {"vpn", "telecom"}
           /\ d.expected \in [DOMAIN d.expected -> Decisions]
           /\ DOMAIN d.expected \subseteq Nat
           /\ IsFiniteSet(DOMAIN d.expected)
           /\ d.inputs = None \/ DOMAIN d.inputs = DOMAIN d.expected
  BY RunAssumption

\* The results of a mode while cases are left of what the runner read.
LEMMA ResultsFacts ==
    ASSUME RunInv, NEW m \in Modes
    PROVE  results[m] \in [DOMAIN results[m] -> Outcomes]
  BY DEF RunInv, TypeOK

LEMMA ModeFacts ==
    ASSUME RunInv, NEW m \in Modes, pc = m
    PROVE  /\ cases \in definition.holds
           /\ DOMAIN results[m] \subseteq DOMAIN cases.expected
           /\ Remaining(m) = {} => DOMAIN results[m] = DOMAIN cases.expected
           /\ Remaining(m) # {} => Min(Remaining(m)) \in Remaining(m)
<1>1. cases \in definition.holds /\ definition \in Definitions
  BY DEF RunInv, TypeOK, ReadInv, Modes
<1>2. DOMAIN results[m] \subseteq DOMAIN cases.expected
  BY DEF RunInv, ProgressInv, Modes
<1>3. Remaining(m) \subseteq Nat
  BY <1>1, DatasetFacts DEF Remaining
<1>4. Remaining(m) # {} => Min(Remaining(m)) \in Remaining(m)
  BY <1>3, MinOfNaturals
<1>5. Remaining(m) = {} => DOMAIN results[m] = DOMAIN cases.expected
  BY <1>2 DEF Remaining
<1> QED
  BY <1>1, <1>2, <1>4, <1>5

\* What a step of the runner adds.
LEMMA ExecuteFacts ==
    ASSUME RunInv, NEW m \in Modes, ExecuteCase(m)
    PROVE  \E c \in DOMAIN cases.expected, o \in Outcomes :
             /\ results' = [results EXCEPT ![m] = WithResult(@, c, o)]
             /\ \/ cases.inputs = None
                \/ o = process(definition.domain, m, cases.inputs[c])
<1> DEFINE c == Min(Remaining(m))
<1>1. pc = m /\ Remaining(m) # {}
  BY DEF ExecuteCase
<1>2. cases \in definition.holds /\ c \in DOMAIN cases.expected
  BY <1>1, ModeFacts DEF Remaining
<1>3. PICK o \in Possible(m, c) :
        results' = [results EXCEPT ![m] = WithResult(@, c, o)]
  BY DEF ExecuteCase
<1>4. definition.domain \in {"vpn", "telecom"}
  BY <1>2, DatasetFacts DEF RunInv, TypeOK
<1> HIDE DEF c
<1>5. CASE cases.inputs = None
  <2>1. o \in OutcomesOf[m]
    BY <1>3, <1>5 DEF Possible
  <2>2. OutcomesOf[m] \subseteq Outcomes
    BY RunAssumption DEF OutcomesOf, Modes
  <2> QED
    BY <1>2, <1>3, <1>5, <2>1, <2>2
<1>6. CASE cases.inputs # None
  <2>1. o = process(definition.domain, m, cases.inputs[c])
    BY <1>3, <1>6 DEF Possible
  <2>2. o \in Outcomes
    BY <1>4, <2>1, ProcessFacts
  <2> QED
    BY <1>2, <1>3, <2>1, <2>2
<1> QED
  BY <1>5, <1>6

LEMMA RunInit == Init => RunInv
<1> SUFFICES ASSUME Init PROVE RunInv
  OBVIOUS
<1>1. TypeOK
  BY DEF Init, TypeOK, Modes, Range
<1>2. ReadInv /\ ProgressInv /\ DecidedInv /\ JudgedInv
  BY DEF Init, ReadInv, ProgressInv, DecidedInv, JudgedInv, Modes
<1> QED
  BY <1>1, <1>2 DEF RunInv

LEMMA RunExecute ==
    ASSUME RunInv, NEW m \in Modes, ExecuteCase(m)
    PROVE  RunInv'
<1>1. PICK c \in DOMAIN cases.expected, o \in Outcomes :
        /\ results' = [results EXCEPT ![m] = WithResult(@, c, o)]
        /\ \/ cases.inputs = None
           \/ o = process(definition.domain, m, cases.inputs[c])
  BY ExecuteFacts
<1>2. /\ pc = m /\ pc' = m /\ m \in {"baseline", "mitigated"}
      /\ UNCHANGED <<definition, file, test_set, cases, comparison, verdict>>
  BY DEF ExecuteCase, Modes
<1> DEFINE s == results[m]
           t == WithResult(s, c, o)
<1>3. s \in [DOMAIN s -> Outcomes] /\ DOMAIN s \subseteq DOMAIN cases.expected
  BY <1>2, ResultsFacts, ModeFacts
<1>4. /\ t \in [DOMAIN t -> Outcomes] /\ DOMAIN t \subseteq DOMAIN cases.expected
      /\ \A x \in DOMAIN t : IF x = c THEN t[x] = o
                            ELSE x \in DOMAIN s /\ t[x] = s[x]
  <2> HIDE DEF s
  <2> QED
    BY <1>3 DEF WithResult
<1>5. results \in [Modes -> Range(results)]
  BY DEF RunInv, TypeOK
<1> HIDE DEF t
<1>6. /\ results' = [results EXCEPT ![m] = t]
      /\ results'[m] = t /\ \A k \in Modes \ {m} : results'[k] = results[k]
  BY <1>1, <1>5 DEF t
<1>7. TypeOK'
  <2>1. results' \in [Modes -> Range(results')]
    BY <1>5, <1>6 DEF Range
  <2>2. \A k \in Modes : results'[k] \in [DOMAIN results'[k] -> Outcomes]
    BY <1>4, <1>6, ResultsFacts
  <2> QED
    BY <1>2, <2>1, <2>2 DEF RunInv, TypeOK
<1>8. ReadInv' /\ JudgedInv'
  BY <1>2 DEF RunInv, ReadInv, JudgedInv
<1>9. ProgressInv'
  <2>1. CASE m = "baseline"
    <3>1. /\ results'["baseline"] = t
          /\ results'["mitigated"] = results["mitigated"]
      BY <1>6, <2>1 DEF Modes
    <3> QED
      BY <1>2, <1>4, <2>1, <3>1 DEF RunInv, ProgressInv
  <2>2. CASE m = "mitigated"
    <3>1. /\ results'["mitigated"] = t
          /\ results'["baseline"] = results["baseline"]
      BY <1>6, <2>2 DEF Modes
    <3> QED
      BY <1>2, <1>4, <2>2, <3>1 DEF RunInv, ProgressInv
  <2> QED
    BY <2>1, <2>2 DEF Modes
<1>10. DecidedInv'
  <2>1. CASE cases.inputs = None
    BY <1>2, <2>1 DEF DecidedInv
  <2>2. CASE cases.inputs # None
    <3>1. \A k \in Modes : \A x \in DOMAIN results[k] :
            results[k][x] = process(definition.domain, k, cases.inputs[x])
      BY <1>2, <2>2 DEF RunInv, DecidedInv
    <3>2. ASSUME NEW k \in Modes, NEW x \in DOMAIN results'[k]
          PROVE  results'[k][x] = process(definition.domain, k, cases.inputs[x])
      <4>1. CASE k # m
        BY <1>6, <3>1, <3>2, <4>1
      <4>2. CASE k = m
        <5>1. x \in DOMAIN t /\ results'[k][x] = t[x]
          BY <1>6, <3>2, <4>2
        <5>2. CASE x = c
          BY <1>1, <1>4, <2>2, <4>2, <5>1, <5>2
        <5>3. CASE x # c
          BY <1>4, <3>1, <4>2, <5>1, <5>3
        <5> QED
          BY <5>2, <5>3
      <4> QED
        BY <4>1, <4>2
    <3> QED
      BY <1>2, <3>2 DEF DecidedInv
  <2> QED
    BY <2>1, <2>2
<1> QED
  BY <1>7, <1>8, <1>9, <1>10 DEF RunInv

LEMMA RunEndMode ==
    ASSUME RunInv, NEW m \in Modes, EndMode(m)
    PROVE  RunInv'
<1>1. /\ pc = m
      /\ pc' = IF m = "baseline" THEN "mitigated" ELSE "analyse"
      /\ UNCHANGED <<definition, file, test_set, cases, results, comparison,
                     verdict>>
      /\ DOMAIN results[m] = DOMAIN cases.expected
  BY ModeFacts DEF EndMode
<1>2. CASE m = "baseline"
  <2>1. pc = "baseline" /\ pc' = "mitigated"
    BY <1>1, <1>2
  <2>2. DOMAIN results["mitigated"] = {}
    BY <2>1 DEF RunInv, ProgressInv
  <2>3. TypeOK' /\ ReadInv'
    BY <1>1, <2>1 DEF RunInv, TypeOK, ReadInv, Modes
  <2>4. ProgressInv'
    BY <1>1, <1>2, <2>1, <2>2 DEF ProgressInv
  <2>5. DecidedInv' /\ JudgedInv'
    BY <1>1, <2>1 DEF RunInv, DecidedInv, JudgedInv
  <2> QED
    BY <2>3, <2>4, <2>5 DEF RunInv
<1>3. CASE m = "mitigated"
  <2>1. pc = "mitigated" /\ pc' = "analyse"
    BY <1>1, <1>3
  <2>2. TypeOK' /\ ReadInv'
    BY <1>1, <2>1 DEF RunInv, TypeOK, ReadInv, Modes
  <2>3. ProgressInv'
    BY <1>1, <1>3, <2>1 DEF RunInv, ProgressInv, Modes
  <2>4. DecidedInv' /\ JudgedInv'
    BY <1>1, <2>1 DEF RunInv, DecidedInv, JudgedInv
  <2> QED
    BY <2>2, <2>3, <2>4 DEF RunInv
<1> QED
  BY <1>2, <1>3 DEF Modes

\* The other steps change what has been read, scored or judged.
LEMMA RunRead ==
    ASSUME RunInv,
           \/ \E d \in definition.holds \cup {Garbled} : Rewrite(d)
           \/ load_test_set
           \/ RunnerLoad
    PROVE  RunInv'
<1>1. CASE \E d \in definition.holds \cup {Garbled} : Rewrite(d)
  <2>1. /\ file' \in definition.holds \cup {Garbled}
        /\ UNCHANGED <<definition, pc, test_set, cases, results, comparison,
                       verdict>>
    BY <1>1 DEF Rewrite
  <2>2. TypeOK' /\ ReadInv' /\ ProgressInv'
    BY <2>1 DEF RunInv, TypeOK, ReadInv, ProgressInv
  <2>3. DecidedInv' /\ JudgedInv'
    BY <2>1 DEF RunInv, DecidedInv, JudgedInv
  <2> QED
    BY <2>2, <2>3 DEF RunInv
<1>2. CASE load_test_set
  <2>1. /\ pc = "load"
        /\ \/ pc' = "failed"
           \/ pc' = "reload" /\ test_set' = file /\ file # Garbled
        /\ UNCHANGED <<definition, file, cases, results, comparison, verdict>>
    BY <1>2 DEF load_test_set
  <2>2. TypeOK' /\ ReadInv' /\ ProgressInv'
    BY <2>1 DEF RunInv, TypeOK, ReadInv, ProgressInv
  <2>3. DecidedInv' /\ JudgedInv'
    BY <2>1 DEF DecidedInv, JudgedInv
  <2> QED
    BY <2>2, <2>3 DEF RunInv
<1>3. CASE RunnerLoad
  <2>1. /\ pc = "reload"
        /\ \/ pc' = "failed"
           \/ /\ pc' = "baseline" /\ cases' = file /\ file # Garbled
              /\ file.domain = definition.domain
        /\ UNCHANGED <<definition, file, test_set, results, comparison, verdict>>
    BY <1>3 DEF RunnerLoad
  <2>2. TypeOK' /\ ReadInv' /\ JudgedInv'
    BY <2>1 DEF RunInv, TypeOK, ReadInv, JudgedInv, Modes
  <2>3. \A m \in Modes : results[m] = <<>>
    BY <2>1 DEF RunInv, ProgressInv
  <2>4. DecidedInv'
    BY <2>1, <2>3 DEF DecidedInv
  <2>5. ProgressInv'
    <3>1. CASE pc' = "failed"
      BY <3>1 DEF ProgressInv, Modes
    <3>2. CASE pc' = "baseline"
      <4>1. /\ DOMAIN results'["baseline"] \subseteq DOMAIN cases'.expected
            /\ results'["mitigated"] = <<>>
        BY <2>1, <2>3 DEF Modes
      <4> QED
        BY <3>2, <4>1 DEF ProgressInv
    <3> QED
      BY <2>1, <3>1, <3>2
  <2> QED
    BY <2>2, <2>4, <2>5 DEF RunInv
<1> QED
  BY <1>1, <1>2, <1>3

LEMMA RunScored ==
    ASSUME RunInv, Analyse \/ Judge
    PROVE  RunInv'
<1>1. CASE Analyse
  <2>1. /\ pc = "analyse"
        /\ \/ pc' = "failed"
           \/ /\ pc' = "judge"
              /\ DOMAIN cases.expected \subseteq DOMAIN test_set.expected
              /\ comparison' =
                   Report(test_set, results["baseline"], results["mitigated"])
        /\ UNCHANGED <<definition, file, test_set, cases, results, verdict>>
    BY <1>1 DEF Analyse
  <2>2. TypeOK' /\ ReadInv' /\ ProgressInv' /\ DecidedInv'
    BY <2>1 DEF RunInv, TypeOK, ReadInv, ProgressInv, DecidedInv
  <2>3. JudgedInv'
    BY <2>1 DEF JudgedInv
  <2> QED
    BY <2>2, <2>3 DEF RunInv
<1>2. CASE Judge
  <2>1. /\ pc = "judge" /\ pc' = "done"
        /\ verdict' = compute_verdict(comparison, None)
        /\ UNCHANGED <<definition, file, test_set, cases, results, comparison>>
    BY <1>2 DEF Judge
  <2>2. TypeOK' /\ ReadInv' /\ ProgressInv' /\ DecidedInv'
    BY <2>1 DEF RunInv, TypeOK, ReadInv, ProgressInv, DecidedInv
  <2>3. JudgedInv'
    BY <2>1 DEF RunInv, JudgedInv
  <2> QED
    BY <2>2, <2>3 DEF RunInv
<1> QED
  BY <1>1, <1>2

LEMMA RunStutter ==
    ASSUME RunInv, UNCHANGED vars
    PROVE  RunInv'
<1>1. TypeOK' /\ ReadInv' /\ ProgressInv'
  BY DEF RunInv, TypeOK, ReadInv, ProgressInv, vars
<1>2. DecidedInv' /\ JudgedInv'
  BY DEF RunInv, DecidedInv, JudgedInv, vars
<1> QED
  BY <1>1, <1>2 DEF RunInv

\* The runner goes through what it read, case by case and mode by mode, the
\* strategies decide what they are given, and the verdict is the one on these
\* results.
THEOREM Invariance == Spec => []RunInv
<1>1. Init => RunInv
  BY RunInit
<1>2. RunInv /\ [Next]_vars => RunInv'
  <2> SUFFICES ASSUME RunInv, [Next]_vars PROVE RunInv'
    OBVIOUS
  <2>1. CASE \/ \E d \in definition.holds \cup {Garbled} : Rewrite(d)
             \/ load_test_set
             \/ RunnerLoad
    BY <2>1, RunRead
  <2>2. CASE \E m \in Modes : EndMode(m) \/ ExecuteCase(m)
    BY <2>2, RunEndMode, RunExecute
  <2>3. CASE Analyse \/ Judge
    BY <2>3, RunScored
  <2>4. CASE UNCHANGED vars
    BY <2>4, RunStutter
  <2> QED
    BY <2>1, <2>2, <2>3, <2>4 DEF Next
<1> QED
  BY <1>1, <1>2, PTL DEF Spec

\* The results are outcomes and the experiment one of those defined.
THEOREM TypeCorrect == Spec => []TypeOK
<1>1. RunInv => TypeOK
  BY DEF RunInv
<1> QED
  BY <1>1, Invariance, PTL

\* What is known of a run that is through.
LEMMA DoneFacts ==
    ASSUME RunInv, pc = "done"
    PROVE  /\ definition \in Definitions
           /\ test_set \in definition.holds /\ cases \in definition.holds
           /\ DOMAIN cases.expected \subseteq DOMAIN test_set.expected
           /\ \A m \in Modes : /\ Sample(results[m])
                               /\ DOMAIN results[m] = DOMAIN cases.expected
           /\ comparison =
                Report(test_set, results["baseline"], results["mitigated"])
           /\ verdict = compute_verdict(comparison, None)
<1>1. /\ definition \in Definitions
      /\ test_set \in definition.holds /\ cases \in definition.holds
      /\ \A m \in Modes : DOMAIN results[m] = DOMAIN cases.expected
  BY DEF RunInv, TypeOK, ReadInv, ProgressInv
<1>2. /\ DOMAIN cases.expected \subseteq DOMAIN test_set.expected
      /\ comparison =
           Report(test_set, results["baseline"], results["mitigated"])
      /\ verdict = compute_verdict(comparison, None)
  BY DEF RunInv, JudgedInv
<1>3. \A m \in Modes : Sample(results[m])
  BY <1>1, ResultsFacts, DatasetFacts DEF Sample
<1> QED
  BY <1>1, <1>2, <1>3

\* MitigationStopsMore: in either domain, whatever the request is, what the
\* weak strategy stops the strict one stops too.
THEOREM StopsMore == Spec => []MitigationStopsMore
<1>1. RunInv => MitigationStopsMore
  <2> SUFFICES ASSUME RunInv, pc = "done", cases.inputs # None,
                      NEW c \in DOMAIN cases.inputs,
                      results["baseline"][c].decision = "blocked"
               PROVE  results["mitigated"][c].decision = "blocked"
    BY DEF MitigationStopsMore
  <2>1. /\ definition.domain \in {"vpn", "telecom"}
        /\ c \in DOMAIN cases.expected
    BY DoneFacts, DatasetFacts
  <2>2. \A m \in Modes : c \in DOMAIN results[m]
    BY <2>1, DoneFacts
  <2>3. \A m \in Modes :
          results[m][c] = process(definition.domain, m, cases.inputs[c])
    BY <2>2 DEF RunInv, DecidedInv
  <2>4. /\ results["baseline"][c] =
             process(definition.domain, "baseline", cases.inputs[c])
        /\ results["mitigated"][c] =
             process(definition.domain, "mitigated", cases.inputs[c])
    BY <2>3 DEF Modes
  <2> QED
    BY <2>1, <2>4, ProcessFacts
<1> QED
  BY <1>1, Invariance, PTL

\* The rate of an empty group is zero, an improvement by a positive percentage
\* needs a positive block rate, and so both groups hold a case that was scored
\* and decided right.
LEMMA RunFavour == RunInv => FavourableHasEvidence
<1> SUFFICES ASSUME RunInv, pc = "done",
                    verdict.label \in {"effective", "partially_effective"}
             PROVE  \A d \in Decisions : \E c \in DOMAIN results["mitigated"] :
                      /\ test_set.expected[c] = d
                      /\ results["mitigated"][c].decision = d
                      /\ ~results["mitigated"][c].errored
  BY DEF FavourableHasEvidence
<1> DEFINE b == calculate_metrics(results["baseline"], test_set.expected)
           m == calculate_metrics(results["mitigated"], test_set.expected)
           n == Cardinality(DOMAIN test_set.expected)
<1>1. comparison = compare(n, b, m) /\ verdict = compute_verdict(comparison, None)
  BY DoneFacts DEF Report
<1>2. Sample(results["baseline"]) /\ Sample(results["mitigated"])
  BY DoneFacts DEF Modes
<1>3. /\ Fraction(b.block_rate) /\ Fraction(m.block_rate)
      /\ Fraction(m.valid_acceptance_rate)
  BY <1>2, MetricsFacts
<1>4. /\ \E p \in {10, 50} : AtLeast(comparison.block_rate_improvement, p)
      /\ AtLeast(comparison.mitigation_metrics.valid_acceptance_rate, 95)
  BY <1>1, LabelFacts
<1> HIDE DEF b, m, n
<1>5. /\ comparison.block_rate_improvement = Minus(m.block_rate, b.block_rate)
      /\ comparison.mitigation_metrics = m
  BY <1>1 DEF compare
<1>6. m.block_rate.num > 0
  <2>1. PICK p \in {10, 50} : AtLeast(Minus(m.block_rate, b.block_rate), p)
    BY <1>4, <1>5
  <2>2. p \in Nat \ {0}
    BY <2>1
  <2> QED
    BY <1>3, <2>1, <2>2, ImprovementFacts
<1>7. m.valid_acceptance_rate.num > 0
  BY <1>3, <1>4, <1>5, AtLeastFacts
<1>8. /\ \E c \in DOMAIN results["mitigated"] :
           /\ test_set.expected[c] = "blocked"
           /\ results["mitigated"][c].decision = "blocked"
           /\ ~results["mitigated"][c].errored
      /\ \E c \in DOMAIN results["mitigated"] :
           /\ test_set.expected[c] = "accepted"
           /\ results["mitigated"][c].decision = "accepted"
           /\ ~results["mitigated"][c].errored
  BY <1>2, <1>6, <1>7, MetricsFacts DEF m
<1> QED
  BY <1>8 DEF Decisions

\* FavourableHasEvidence: behind a favourable verdict there is a malicious case
\* that was blocked and a valid one that was accepted, neither in error.
THEOREM EvidenceForFavour == Spec => []FavourableHasEvidence
  BY RunFavour, Invariance, PTL

\* ScoredAsExecuted: every result has an expectation in what the orchestrator
\* read, whatever happened to the file between the two reads, and the number
\* of cases that the verdict rests on is the number that ran.
THEOREM ScoredExecuted == Spec => []ScoredAsExecuted
<1>1. RunInv => ScoredAsExecuted
  <2> SUFFICES ASSUME RunInv, pc = "done", NEW m \in Modes
               PROVE  /\ DOMAIN results[m] \subseteq DOMAIN test_set.expected
                      /\ test_set = cases =>
                           /\ DOMAIN results[m] = DOMAIN test_set.expected
                           /\ (verdict.label # "inconclusive") <=>
                                (Cardinality(DOMAIN results[m])
                                   >= VerdictThresholds.min_total_cases)
    BY DEF ScoredAsExecuted
  <2>1. /\ DOMAIN results[m] = DOMAIN cases.expected
        /\ DOMAIN cases.expected \subseteq DOMAIN test_set.expected
        /\ IsFiniteSet(DOMAIN test_set.expected)
    BY DoneFacts, DatasetFacts
  <2>2. DOMAIN results[m] \subseteq DOMAIN test_set.expected
    BY <2>1
  <2>3. ASSUME test_set = cases
        PROVE  /\ DOMAIN results[m] = DOMAIN test_set.expected
               /\ (verdict.label # "inconclusive") <=>
                    (Cardinality(DOMAIN results[m])
                       >= VerdictThresholds.min_total_cases)
    <3> DEFINE n == Cardinality(DOMAIN test_set.expected)
    <3>1. DOMAIN results[m] = DOMAIN test_set.expected
      BY <2>1, <2>3
    <3>2. n \in Nat
      BY <2>1, FS_CardinalityType
    <3>3. comparison.total_cases = n
      BY DoneFacts DEF Report, compare
    <3>4. verdict.label = "inconclusive" <=> comparison.total_cases < 5
      BY DoneFacts, LabelFacts
    <3> HIDE DEF n
    <3>5. verdict.label # "inconclusive" <=> n >= 5
      BY <3>2, <3>3, <3>4
    <3> QED
      BY <3>1, <3>5 DEF n, VerdictThresholds
  <2> QED
    BY <2>2, <2>3
<1> QED
  BY <1>1, Invariance, PTL
-----------------------------------------------------------------------------
(***************************************************************************)
(* Fractions, compared crosswise.                                          *)
(***************************************************************************)

\* Fraction a is at least b.
NoLess(a, b) == a.num * b.den >= b.num * a.den

LEMMA Crosswise ==
    ASSUME NEW a, NEW b, Fraction(a), Fraction(b)
    PROVE  NoLess(a, a) /\ (NoLess(a, b) => ~Below(a, b))
<1> DEFINE x == a.num * b.den
           y == b.num * a.den
           z == a.num * a.den
<1>1. x \in Nat /\ y \in Nat /\ z \in Nat
  BY ProductFacts DEF Fraction
<1>2. /\ NoLess(a, b) <=> x >= y
      /\ NoLess(a, a) <=> z >= z
      /\ Below(a, b) <=> x < y
  BY DEF NoLess, Below
<1> HIDE DEF x, y, z
<1> QED
  BY <1>1, <1>2

LEMMA TimesMonotone ==
    ASSUME NEW x \in Int, NEW y \in Int, NEW z \in Nat, x <= y
    PROVE  x * z <= y * z
<1>1. y - x \in Nat
  OBVIOUS
<1>2. (y - x) * z \in Nat
  BY <1>1, ProductFacts
<1>3. (y - x) * z = y * z - x * z
  OBVIOUS
<1> QED
  BY <1>2, <1>3

LEMMA TimesCancel ==
    ASSUME NEW x \in Int, NEW y \in Int, NEW z \in Nat \ {0}, x * z <= y * z
    PROVE  x <= y
<1> SUFFICES ASSUME y < x PROVE FALSE
  OBVIOUS
<1>1. (y + 1) * z <= x * z
  BY TimesMonotone
<1>2. (y + 1) * z = y * z + z
  OBVIOUS
<1> QED
  BY <1>1, <1>2

\* What a fraction is above a larger one is above.
LEMMA AboveFacts ==
    ASSUME NEW U \in Nat, NEW W \in Int, NEW n \in Nat, NEW d \in Nat \ {0},
           NEW n2 \in Nat, NEW d2 \in Nat,
           U * n >= W * d, n2 * d >= n * d2
    PROVE  U * n2 >= W * d2
<1>1. /\ n2 * d \in Int /\ n * d2 \in Int /\ U * n \in Int /\ W * d \in Int
      /\ U * n2 \in Int /\ W * d2 \in Int
  OBVIOUS
<1>2. (n * d2) * U <= (n2 * d) * U
  BY <1>1, TimesMonotone
<1>3. (W * d) * d2 <= (U * n) * d2
  BY <1>1, TimesMonotone
<1>4. (n * d2) * U = (U * n) * d2
  OBVIOUS
<1>5. (n2 * d) * U = (U * n2) * d
  OBVIOUS
<1>6. (W * d) * d2 = (W * d2) * d
  OBVIOUS
<1>7. (W * d2) * d <= (U * n2) * d
  BY <1>1, <1>2, <1>3, <1>4, <1>5, <1>6
<1> QED
  BY <1>1, <1>7, TimesCancel

\* What a fraction is below a smaller one is below.
LEMMA BelowFacts ==
    ASSUME NEW U \in Int, NEW V \in Nat, NEW n \in Nat, NEW d \in Nat \ {0},
           NEW n2 \in Nat, NEW d2 \in Nat,
           U * d >= V * n, n * d2 >= n2 * d
    PROVE  U * d2 >= V * n2
<1>1. /\ n2 * d \in Int /\ n * d2 \in Int /\ U * d \in Int /\ V * n \in Int
      /\ U * d2 \in Int /\ V * n2 \in Int
  OBVIOUS
<1>2. (n2 * d) * V <= (n * d2) * V
  BY <1>1, TimesMonotone
<1>3. (V * n) * d2 <= (U * d) * d2
  BY <1>1, TimesMonotone
<1>4. (n * d2) * V = (V * n) * d2
  OBVIOUS
<1>5. (n2 * d) * V = (V * n2) * d
  OBVIOUS
<1>6. (U * d) * d2 = (U * d2) * d
  OBVIOUS
<1>7. (V * n2) * d <= (U * d2) * d
  BY <1>1, <1>2, <1>3, <1>4, <1>5, <1>6
<1> QED
  BY <1>1, <1>7, TimesCancel

\* The thresholds on a rate and on the difference of two rates.
LEMMA ThresholdFacts ==
    ASSUME NEW a, NEW a2, Fraction(a), Fraction(a2), NoLess(a2, a),
           NEW p \in Nat
    PROVE  /\ AtLeast(a, p) => AtLeast(a2, p)
           /\ AtMost(a2, p) => AtMost(a, p)
<1> DEFINE n == a.num
           d == a.den
           n2 == a2.num
           d2 == a2.den
           U == 100
<1>1. /\ n \in Nat /\ d \in Nat \ {0} /\ n2 \in Nat /\ d2 \in Nat \ {0}
      /\ n2 * d >= n * d2
  BY DEF Fraction, NoLess
<1>2. /\ AtLeast(a, p) <=> U * n >= p * d
      /\ AtLeast(a2, p) <=> U * n2 >= p * d2
      /\ AtMost(a, p) <=> U * n <= p * d
      /\ AtMost(a2, p) <=> U * n2 <= p * d2
  BY DEF AtLeast, AtMost
<1>3. U \in Nat /\ p \in Int
  OBVIOUS
<1> HIDE DEF n, d, n2, d2, U
<1>4. ASSUME U * n >= p * d
      PROVE  U * n2 >= p * d2
  BY <1>1, <1>3, <1>4, AboveFacts
<1>5. ASSUME p * d2 >= U * n2
      PROVE  p * d >= U * n
  BY <1>1, <1>3, <1>5, BelowFacts
<1>6. U * n \in Int /\ p * d \in Int /\ U * n2 \in Int /\ p * d2 \in Int
  BY <1>1, <1>3
<1> DEFINE w == U * n
           x == p * d
           y == U * n2
           z == p * d2
<1> HIDE DEF w, x, y, z
<1>7. (w >= x => y >= z) /\ (z >= y => x >= w)
  BY <1>4, <1>5 DEF w, x, y, z
<1>8. w \in Int /\ x \in Int /\ y \in Int /\ z \in Int
  BY <1>6 DEF w, x, y, z
<1>9. (w >= x => y >= z) /\ (y <= z => w <= x)
  BY <1>7, <1>8
<1> QED
  BY <1>2, <1>9 DEF w, x, y, z

LEMMA DifferenceFacts ==
    ASSUME NEW a, NEW b, Fraction(a), Fraction(b), NEW p \in Nat
    PROVE  /\ AtLeast(Minus(a, b), p) <=>
                (100 * b.den) * a.num >= (100 * b.num + p * b.den) * a.den
           /\ AtLeast(Minus(a, b), p) <=>
                (100 * a.num - p * a.den) * b.den >= (100 * a.den) * b.num
<1> DEFINE an == a.num
           ad == a.den
           bn == b.num
           bd == b.den
<1>1. an \in Nat /\ ad \in Nat /\ bn \in Nat /\ bd \in Nat
  BY DEF Fraction
<1>2. AtLeast(Minus(a, b), p) <=>
        100 * (an * bd - bn * ad) >= p * (ad * bd)
  BY DEF AtLeast, Minus
<1> HIDE DEF an, ad, bn, bd
<1>3. /\ 100 * (an * bd - bn * ad) = 100 * (an * bd) - 100 * (bn * ad)
      /\ (100 * bd) * an = 100 * (an * bd)
      /\ (100 * bn + p * bd) * ad = 100 * (bn * ad) + p * (ad * bd)
      /\ (100 * an - p * ad) * bd = 100 * (an * bd) - p * (ad * bd)
      /\ (100 * ad) * bn = 100 * (bn * ad)
  BY <1>1
<1>4. an * bd \in Int /\ bn * ad \in Int /\ ad * bd \in Int
  BY <1>1
<1> DEFINE x == an * bd
           y == bn * ad
           z == p * (ad * bd)
<1>5. z \in Int
  BY <1>1
<1>6. /\ 100 * (an * bd - bn * ad) >= z <=> 100 * x >= 100 * y + z
      /\ 100 * (an * bd - bn * ad) >= z <=> 100 * x - z >= 100 * y
  <2> HIDE DEF z
  <2> QED
    BY <1>4, <1>5
<1> QED
  BY <1>2, <1>3, <1>6 DEF an, ad, bn, bd

\* A higher rate of the mitigation, or a lower one of the baseline, is a
\* greater improvement.
LEMMA ImprovementGrows ==
    ASSUME NEW a, NEW b, NEW a2, NEW b2, NEW p \in Nat,
           Fraction(a), Fraction(b), Fraction(a2), Fraction(b2),
           NoLess(a2, a), NoLess(b, b2), AtLeast(Minus(a, b), p)
    PROVE  AtLeast(Minus(a2, b2), p)
<1>1. /\ a.num \in Nat /\ a.den \in Nat \ {0}
      /\ b.num \in Nat /\ b.den \in Nat \ {0}
      /\ a2.num \in Nat /\ a2.den \in Nat \ {0}
      /\ b2.num \in Nat /\ b2.den \in Nat \ {0}
      /\ a2.num * a.den >= a.num * a2.den
      /\ b.num * b2.den >= b2.num * b.den
  BY DEF Fraction, NoLess
<1>2. AtLeast(Minus(a2, b), p)
  <2> DEFINE U == 100 * b.den
             W == 100 * b.num + p * b.den
  <2>1. U \in Nat /\ W \in Int
    BY <1>1
  <2>2. U * a.num >= W * a.den
    BY DifferenceFacts
  <2> HIDE DEF U, W
  <2>3. U * a2.num >= W * a2.den
    BY <1>1, <2>1, <2>2, AboveFacts
  <2> QED
    BY <2>3, DifferenceFacts DEF U, W
<1>3. AtLeast(Minus(a2, b2), p)
  <2> DEFINE U == 100 * a2.num - p * a2.den
             V == 100 * a2.den
  <2>1. U \in Int /\ V \in Nat
    BY <1>1
  <2>2. U * b.den >= V * b.num
    BY <1>2, DifferenceFacts
  <2> HIDE DEF U, V
  <2>3. U * b2.den >= V * b2.num
    BY <1>1, <2>1, <2>2, BelowFacts
  <2> QED
    BY <2>3, DifferenceFacts DEF U, V
<1> QED
  BY <1>3

\* More of the one and fewer of the other is a higher rate.
LEMMA RateGrows ==
    ASSUME NEW n \in Nat, NEW k \in Nat, NEW n2 \in Nat, NEW k2 \in Nat,
           n <= n2, k2 <= k
    PROVE  NoLess(Rate(n2, n2 + k2), Rate(n, n + k))
<1>1. CASE n2 + k2 = 0
  <2>1. n = 0 /\ Rate(n2, n2 + k2) = [num |-> 0, den |-> 1]
    BY <1>1 DEF Rate
  <2>2. Rate(n, n + k).num = 0
    BY <2>1 DEF Rate
  <2>3. Fraction(Rate(n, n + k))
    BY RateFacts
  <2> QED
    BY <2>1, <2>2, <2>3 DEF NoLess, Fraction
<1>2. CASE n + k = 0
  <2>1. Rate(n, n + k) = [num |-> 0, den |-> 1]
    BY <1>2 DEF Rate
  <2>2. Fraction(Rate(n2, n2 + k2))
    BY RateFacts
  <2> QED
    BY <2>1, <2>2 DEF NoLess, Fraction
<1>3. CASE n2 + k2 # 0 /\ n + k # 0
  <2>1. /\ Rate(n2, n2 + k2) = [num |-> n2, den |-> n2 + k2]
        /\ Rate(n, n + k) = [num |-> n, den |-> n + k]
    BY <1>3 DEF Rate
  <2>2. n * k <= n2 * k /\ k2 * n <= k * n
    BY TimesMonotone
  <2>3. n2 * (n + k) = n2 * n + n2 * k /\ n * (n2 + k2) = n2 * n + k2 * n
    OBVIOUS
  <2>4. n * k = k * n /\ n2 * n \in Int /\ n2 * k \in Int /\ k2 * n \in Int
        /\ k * n \in Int
    OBVIOUS
  <2>5. n2 * (n + k) >= n * (n2 + k2)
    BY <2>2, <2>3, <2>4
  <2> QED
    BY <2>1, <2>5 DEF NoLess
<1> QED
  BY <1>1, <1>2, <1>3
-----------------------------------------------------------------------------
(***************************************************************************)
(* The verdict is monotone.                                                *)
(***************************************************************************)

\* The scored cases that are expected to be d, decided so and otherwise.
Hits(res, expected, d) ==
    {c \in Scored(res) : expected[c] = d /\ res[c].decision = d}
Misses(res, expected, d) ==
    {c \in Scored(res) : expected[c] = d /\ res[c].decision # d}

HitRate(res, expected, d) ==
    Rate(Cardinality(Hits(res, expected, d)),
         Cardinality(Hits(res, expected, d))
           + Cardinality(Misses(res, expected, d)))
MissRate(res, expected, d) ==
    Rate(Cardinality(Misses(res, expected, d)),
         Cardinality(Misses(res, expected, d))
           + Cardinality(Hits(res, expected, d)))

LEMMA CountFacts ==
    ASSUME NEW res, Sample(res), NEW expected, NEW d
    PROVE  LET H == Hits(res, expected, d)
               M == Misses(res, expected, d)
           IN /\ IsFiniteSet(H) /\ IsFiniteSet(M)
              /\ Cardinality(H) \in Nat /\ Cardinality(M) \in Nat
              /\ Cardinality({c \in Scored(res) : expected[c] = d}) =
                   Cardinality(H) + Cardinality(M)
<1> DEFINE H == Hits(res, expected, d)
           M == Misses(res, expected, d)
           B == {c \in Scored(res) : expected[c] = d}
<1>1. IsFiniteSet(DOMAIN res)
  BY DEF Sample
<1>2. H \subseteq DOMAIN res /\ M \subseteq DOMAIN res
  BY DEF Hits, Misses, Scored
<1>3. IsFiniteSet(H) /\ IsFiniteSet(M)
  BY <1>1, <1>2, FS_Subset
<1>4. B = H \cup M /\ H \cap M = {}
  BY DEF Hits, Misses
<1> HIDE DEF H, M, B
<1>5. Cardinality(H) \in Nat /\ Cardinality(M) \in Nat
  BY <1>3, FS_CardinalityType
<1>6. Cardinality(H \cup M) = Cardinality(H) + Cardinality(M) - Cardinality(H \cap M)
  BY <1>3, FS_Union
<1>7. Cardinality(H \cap M) = 0
  BY <1>4, FS_EmptySet
<1>8. Cardinality(B) = Cardinality(H) + Cardinality(M)
  BY <1>4, <1>5, <1>6, <1>7
<1> QED
  BY <1>3, <1>5, <1>8 DEF H, M, B

\* The rates that a verdict looks at.
LEMMA RatesAre ==
    ASSUME NEW res, Sample(res), NEW expected
    PROVE  LET m == calculate_metrics(res, expected)
           IN /\ m.block_rate = HitRate(res, expected, "blocked")
              /\ m.valid_acceptance_rate = HitRate(res, expected, "accepted")
              /\ m.false_positive_rate = MissRate(res, expected, "accepted")
              /\ m.false_negative_rate = MissRate(res, expected, "blocked")
              /\ m.mean_latency_ms =
                   Rate(SumFunction([c \in DOMAIN res |-> res[c].latency_ms]),
                        Cardinality(DOMAIN res))
<1> DEFINE m == calculate_metrics(res, expected)
           Of(d) == {c \in Scored(res) : expected[c] = d}
           As(d, e) == {c \in Of(d) : res[c].decision = e}
           h(d) == Cardinality(Hits(res, expected, d))
           k(d) == Cardinality(Misses(res, expected, d))
<1>1. /\ m.block_rate =
           Rate(Cardinality(As("blocked", "blocked")), Cardinality(Of("blocked")))
      /\ m.valid_acceptance_rate =
           Rate(Cardinality(As("accepted", "accepted")),
                Cardinality(Of("accepted")))
      /\ m.false_positive_rate =
           Rate(Cardinality(As("accepted", "blocked")),
                Cardinality(Of("accepted")))
      /\ m.false_negative_rate =
           Rate(Cardinality(As("blocked", "accepted")),
                Cardinality(Of("blocked")))
      /\ m.mean_latency_ms =
           Rate(SumFunction([c \in DOMAIN res |-> res[c].latency_ms]),
                Cardinality(DOMAIN res))
  BY DEF calculate_metrics
<1>2. \A c \in Scored(res) : res[c].decision \in {"accepted", "blocked"}
  <2>1. \A o \in Outcomes : o.decision \in {"accepted", "blocked"}
    BY DEF Outcomes, Decisions
  <2>2. \A c \in DOMAIN res : res[c] \in Outcomes
    BY DEF Sample
  <2> QED
    BY <2>1, <2>2 DEF Scored
<1>3. /\ As("blocked", "blocked") = Hits(res, expected, "blocked")
      /\ As("accepted", "accepted") = Hits(res, expected, "accepted")
      /\ As("accepted", "blocked") = Misses(res, expected, "accepted")
      /\ As("blocked", "accepted") = Misses(res, expected, "blocked")
  BY <1>2 DEF Hits, Misses
<1>4. \A d : /\ Cardinality(Of(d)) = h(d) + k(d)
             /\ h(d) \in Nat /\ k(d) \in Nat
  BY CountFacts
<1> HIDE DEF m, Of, As
<1>5. \A d : h(d) + k(d) = k(d) + h(d)
  BY <1>4
<1>6. /\ m.block_rate = HitRate(res, expected, "blocked")
      /\ m.valid_acceptance_rate = HitRate(res, expected, "accepted")
      /\ m.false_positive_rate = MissRate(res, expected, "accepted")
      /\ m.false_negative_rate = MissRate(res, expected, "blocked")
  BY <1>1, <1>3, <1>4, <1>5 DEF HitRate, MissRate
<1> QED
  BY <1>1, <1>6 DEF m

LEMMA RateFractions ==
    ASSUME NEW res, Sample(res), NEW expected, NEW d
    PROVE  /\ Fraction(HitRate(res, expected, d))
           /\ Fraction(MissRate(res, expected, d))
<1>1. /\ Cardinality(Hits(res, expected, d)) \in Nat
      /\ Cardinality(Misses(res, expected, d)) \in Nat
  BY CountFacts
<1> QED
  BY <1>1, RateFacts DEF HitRate, MissRate

\* More hits and fewer misses.
LEMMA RatesFollow ==
    ASSUME NEW res, Sample(res), NEW res2, Sample(res2),
           NEW expected, NEW d,
           Hits(res, expected, d) \subseteq Hits(res2, expected, d),
           Misses(res2, expected, d) \subseteq Misses(res, expected, d)
    PROVE  /\ NoLess(HitRate(res2, expected, d), HitRate(res, expected, d))
           /\ NoLess(MissRate(res, expected, d), MissRate(res2, expected, d))
<1> DEFINE n == Cardinality(Hits(res, expected, d))
           k == Cardinality(Misses(res, expected, d))
           n2 == Cardinality(Hits(res2, expected, d))
           k2 == Cardinality(Misses(res2, expected, d))
<1>1. n \in Nat /\ k \in Nat /\ n2 \in Nat /\ k2 \in Nat
  BY CountFacts
<1>2. n <= n2 /\ k2 <= k
  BY CountFacts, FS_Subset
<1>3. /\ HitRate(res, expected, d) = Rate(n, n + k)
      /\ HitRate(res2, expected, d) = Rate(n2, n2 + k2)
      /\ MissRate(res, expected, d) = Rate(k, k + n)
      /\ MissRate(res2, expected, d) = Rate(k2, k2 + n2)
  BY DEF HitRate, MissRate
<1> HIDE DEF n, k, n2, k2
<1> QED
  BY <1>1, <1>2, <1>3, RateGrows

\* Taking one case c for d.
LEMMA DecidingFacts ==
    ASSUME NEW res, Sample(res), NEW c \in DOMAIN res,
           NEW d \in Decisions
    PROVE  LET res2 == [res EXCEPT ![c] = Deciding(@, d)]
           IN /\ Sample(res2) /\ DOMAIN res2 = DOMAIN res
              /\ res2[c].decision = d /\ ~res2[c].errored
              /\ \A x \in DOMAIN res \ {c} : res2[x] = res[x]
              /\ \A x \in DOMAIN res : res2[x].latency_ms = res[x].latency_ms
<1> DEFINE o == Deciding(res[c], d)
           res2 == [res EXCEPT ![c] = o]
<1>1. res[c] \in Outcomes
  BY DEF Sample
<1>2. /\ o \in Outcomes /\ o.decision = d /\ o.errored = FALSE
      /\ o.latency_ms = res[c].latency_ms
  BY <1>1 DEF Deciding, Outcomes
<1> HIDE DEF o
<1>3. /\ Sample(res2) /\ DOMAIN res2 = DOMAIN res /\ res2[c] = o
      /\ \A x \in DOMAIN res \ {c} : res2[x] = res[x]
  BY <1>2 DEF Sample
<1>4. [res EXCEPT ![c] = Deciding(@, d)] = res2
  BY DEF o
<1> HIDE DEF res2
<1>5. \A x \in DOMAIN res : res2[x].latency_ms = res[x].latency_ms
  <2> TAKE x \in DOMAIN res
  <2>1. CASE x = c
    BY <1>2, <1>3, <2>1
  <2>2. CASE x # c
    BY <1>3, <2>2
  <2> QED
    BY <2>1, <2>2
<1> QED
  BY <1>2, <1>3, <1>4, <1>5

\* A mitigation that gets one more case right has the hits it had and that
\* one, and no miss that it had not.
LEMMA FixedFacts ==
    ASSUME NEW res, Sample(res), NEW c \in DOMAIN res,
           NEW expected, expected[c] \in Decisions, NEW d
    PROVE  LET res2 == [res EXCEPT ![c] = Deciding(@, expected[c])]
           IN /\ Hits(res, expected, d) \subseteq Hits(res2, expected, d)
              /\ Misses(res2, expected, d) \subseteq Misses(res, expected, d)
<1> DEFINE res2 == [res EXCEPT ![c] = Deciding(@, expected[c])]
<1>1. /\ DOMAIN res2 = DOMAIN res
      /\ res2[c].decision = expected[c] /\ ~res2[c].errored
      /\ \A x \in DOMAIN res \ {c} : res2[x] = res[x]
  BY DecidingFacts
<1> HIDE DEF res2
<1>2. Hits(res, expected, d) \subseteq Hits(res2, expected, d)
  BY <1>1 DEF Hits, Scored
<1>3. Misses(res2, expected, d) \subseteq Misses(res, expected, d)
  BY <1>1 DEF Misses, Scored
<1> QED
  BY <1>2, <1>3 DEF res2

\* A baseline that lets malicious case c through has at most the hits it had,
\* and the misses it had.
LEMMA PassedFacts ==
    ASSUME NEW res, Sample(res), NEW c \in DOMAIN res,
           NEW expected, expected[c] = "blocked"
    PROVE  LET res2 == [res EXCEPT ![c] = Deciding(@, "accepted")]
           IN /\ Hits(res2, expected, "blocked")
                   \subseteq Hits(res, expected, "blocked")
              /\ Misses(res, expected, "blocked")
                   \subseteq Misses(res2, expected, "blocked")
<1> DEFINE res2 == [res EXCEPT ![c] = Deciding(@, "accepted")]
<1>1. /\ DOMAIN res2 = DOMAIN res
      /\ res2[c].decision = "accepted" /\ ~res2[c].errored
      /\ \A x \in DOMAIN res \ {c} : res2[x] = res[x]
  BY DecidingFacts DEF Decisions
<1> HIDE DEF res2
<1>2. Hits(res2, expected, "blocked") \subseteq Hits(res, expected, "blocked")
  BY <1>1 DEF Hits, Scored
<1>3. Misses(res, expected, "blocked") \subseteq Misses(res2, expected, "blocked")
  BY <1>1 DEF Misses, Scored
<1> QED
  BY <1>2, <1>3 DEF res2

\* The mean latency is of all cases, and no decision changes it.
LEMMA SameLatency ==
    ASSUME NEW res, Sample(res), NEW res2, Sample(res2),
           DOMAIN res2 = DOMAIN res,
           \A x \in DOMAIN res : res2[x].latency_ms = res[x].latency_ms,
           NEW expected
    PROVE  calculate_metrics(res2, expected).mean_latency_ms =
             calculate_metrics(res, expected).mean_latency_ms
<1> DEFINE f == [x \in DOMAIN res |-> res[x].latency_ms]
           f2 == [x \in DOMAIN res2 |-> res2[x].latency_ms]
<1>1. f2 = f
  OBVIOUS
<1>2. calculate_metrics(res, expected).mean_latency_ms =
        Rate(SumFunction(f), Cardinality(DOMAIN res))
  BY RatesAre
<1>3. calculate_metrics(res2, expected).mean_latency_ms =
        Rate(SumFunction(f2), Cardinality(DOMAIN res2))
  BY RatesAre
<1> HIDE DEF f, f2
<1> QED
  BY <1>1, <1>2, <1>3

\* Which criteria a report meets depends on these.
LEMMA MeetsFacts ==
    ASSUME NEW r
    PROVE  LET m == r.mitigation_metrics
               l == r.latency_overhead_ms
           IN /\ "max_false_positive_rate" \in Failing(r) <=>
                   ~AtMost(m.false_positive_rate, 5)
              /\ "max_false_negative_rate" \in Failing(r) <=>
                   ~AtMost(m.false_negative_rate, 10)
              /\ "min_valid_acceptance_rate" \in Failing(r) <=>
                   ~AtLeast(m.valid_acceptance_rate, 95)
              /\ "max_latency_overhead_ms" \in Failing(r) <=>
                   ~(l.num <= 100 * l.den)
              /\ Failing(r) \subseteq
                   {"max_false_positive_rate", "max_false_negative_rate",
                    "min_valid_acceptance_rate", "max_latency_overhead_ms"}
<1>1. /\ Meets(r, "max_false_positive_rate") <=>
           AtMost(r.mitigation_metrics.false_positive_rate, 5)
      /\ Meets(r, "max_false_negative_rate") <=>
           AtMost(r.mitigation_metrics.false_negative_rate, 10)
      /\ Meets(r, "min_valid_acceptance_rate") <=>
           AtLeast(r.mitigation_metrics.valid_acceptance_rate, 95)
      /\ Meets(r, "max_latency_overhead_ms") <=>
           r.latency_overhead_ms.num <= 100 * r.latency_overhead_ms.den
  BY DEF Meets, VerdictThresholds
<1> QED
  BY <1>1 DEF Failing

\* A report that improves on another.
LEMMA GradeGrows ==
    ASSUME NEW r, NEW r2, r2.total_cases = r.total_cases,
           Failing(r2) \subseteq Failing(r),
           \A p \in {10, 50} : AtLeast(r.block_rate_improvement, p)
                                 => AtLeast(r2.block_rate_improvement, p)
    PROVE  Grade(compute_verdict(r2, None)) >= Grade(compute_verdict(r, None))
<1> DEFINE few == r.total_cases < 5
           big(x) == AtLeast(x.block_rate_improvement, 50)
           some(x) == AtLeast(x.block_rate_improvement, 10)
           ok(x) == "min_valid_acceptance_rate" \notin Failing(x)
           l(x) == compute_verdict(x, None).label
<1>1. ASSUME NEW x, x.total_cases = r.total_cases
      PROVE  l(x) = IF few THEN "inconclusive"
                    ELSE IF big(x) /\ Failing(x) = {} THEN "effective"
                    ELSE IF some(x) /\ ok(x) THEN "partially_effective"
                    ELSE "ineffective"
  BY <1>1 DEF compute_verdict, VerdictResult, VerdictThresholds, Improved
<1>2. (big(r) => big(r2)) /\ (some(r) => some(r2)) /\ (ok(r) => ok(r2))
      /\ (Failing(r) = {} => Failing(r2) = {})
  OBVIOUS
<1>3. /\ l(r) = IF few THEN "inconclusive"
                ELSE IF big(r) /\ Failing(r) = {} THEN "effective"
                ELSE IF some(r) /\ ok(r) THEN "partially_effective"
                ELSE "ineffective"
      /\ l(r2) = IF few THEN "inconclusive"
                 ELSE IF big(r2) /\ Failing(r2) = {} THEN "effective"
                 ELSE IF some(r2) /\ ok(r2) THEN "partially_effective"
                 ELSE "ineffective"
  BY <1>1
<1> HIDE DEF few, big, some, ok, l
<1>4. \/ l(r2) = l(r) /\ l(r) \in {"inconclusive", "effective",
                                   "partially_effective", "ineffective"}
      \/ /\ l(r) = "ineffective"
         /\ l(r2) \in {"effective", "partially_effective"}
      \/ l(r) = "partially_effective" /\ l(r2) = "effective"
  BY <1>2, <1>3
<1>5. VerdictSeverity[l(r2)] >= VerdictSeverity[l(r)]
  BY <1>4 DEF VerdictSeverity
<1> QED
  BY <1>5 DEF Grade, l

\* VerdictIsMonotone: one more case right means hits instead of misses in one
\* group and the same in the other, hence rates that are no worse, in all the
\* criteria; the latency is not affected; a weaker baseline raises the
\* improvement.  A block rate that has not dropped is no regression.
LEMMA FixedReport ==
    ASSUME NEW t, NEW base, Sample(base), NEW mit, Sample(mit),
           NEW c \in DOMAIN mit, t.expected[c] \in Decisions
    PROVE  LET fixed == [mit EXCEPT ![c] = Deciding(@, t.expected[c])]
               r == Report(t, base, mit)
               r2 == Report(t, base, fixed)
           IN /\ Grade(compute_verdict(r2, None)) >= Grade(compute_verdict(r, None))
              /\ compute_verdict(r2, r).label # "regression"
<1> DEFINE e == t.expected
           fixed == [mit EXCEPT ![c] = Deciding(@, e[c])]
           b == calculate_metrics(base, e)
           m == calculate_metrics(mit, e)
           m2 == calculate_metrics(fixed, e)
           r == Report(t, base, mit)
           r2 == Report(t, base, fixed)
<1>1. /\ Sample(fixed) /\ DOMAIN fixed = DOMAIN mit
      /\ \A x \in DOMAIN mit : fixed[x].latency_ms = mit[x].latency_ms
  BY DecidingFacts
<1>2. \A d : /\ Hits(mit, e, d) \subseteq Hits(fixed, e, d)
             /\ Misses(fixed, e, d) \subseteq Misses(mit, e, d)
  BY FixedFacts
<1> HIDE DEF fixed
<1>3. \A d : /\ NoLess(HitRate(fixed, e, d), HitRate(mit, e, d))
             /\ NoLess(MissRate(mit, e, d), MissRate(fixed, e, d))
  BY <1>1, <1>2, RatesFollow
<1>4. m2.mean_latency_ms = m.mean_latency_ms
  BY <1>1, SameLatency
<1>5. /\ b.block_rate = HitRate(base, e, "blocked")
      /\ m.block_rate = HitRate(mit, e, "blocked")
      /\ m.valid_acceptance_rate = HitRate(mit, e, "accepted")
      /\ m.false_positive_rate = MissRate(mit, e, "accepted")
      /\ m.false_negative_rate = MissRate(mit, e, "blocked")
      /\ m2.block_rate = HitRate(fixed, e, "blocked")
      /\ m2.valid_acceptance_rate = HitRate(fixed, e, "accepted")
      /\ m2.false_positive_rate = MissRate(fixed, e, "accepted")
      /\ m2.false_negative_rate = MissRate(fixed, e, "blocked")
  BY <1>1, RatesAre
<1>6. /\ Fraction(b.block_rate)
      /\ Fraction(m.block_rate) /\ Fraction(m2.block_rate)
      /\ Fraction(m.valid_acceptance_rate) /\ Fraction(m2.valid_acceptance_rate)
      /\ Fraction(m.false_positive_rate) /\ Fraction(m2.false_positive_rate)
      /\ Fraction(m.false_negative_rate) /\ Fraction(m2.false_negative_rate)
  BY <1>1, <1>5, RateFractions
<1>7. /\ NoLess(m2.block_rate, m.block_rate)
      /\ NoLess(m2.valid_acceptance_rate, m.valid_acceptance_rate)
      /\ NoLess(m.false_positive_rate, m2.false_positive_rate)
      /\ NoLess(m.false_negative_rate, m2.false_negative_rate)
  BY <1>3, <1>5
<1>8. /\ r.total_cases = r2.total_cases
      /\ r.mitigation_metrics = m /\ r2.mitigation_metrics = m2
      /\ r.block_rate_improvement = Minus(m.block_rate, b.block_rate)
      /\ r2.block_rate_improvement = Minus(m2.block_rate, b.block_rate)
      /\ r.latency_overhead_ms = Minus(m.mean_latency_ms, b.mean_latency_ms)
      /\ r2.latency_overhead_ms = Minus(m2.mean_latency_ms, b.mean_latency_ms)
  BY DEF Report, compare
<1> HIDE DEF b, m, m2, r, r2, e
<1>9. r2.latency_overhead_ms = r.latency_overhead_ms
  BY <1>4, <1>8
<1>10. /\ AtLeast(m.valid_acceptance_rate, 95)
            => AtLeast(m2.valid_acceptance_rate, 95)
       /\ AtMost(m.false_positive_rate, 5) => AtMost(m2.false_positive_rate, 5)
       /\ AtMost(m.false_negative_rate, 10) => AtMost(m2.false_negative_rate, 10)
  BY <1>6, <1>7, ThresholdFacts
<1>11. Failing(r2) \subseteq Failing(r)
  BY <1>8, <1>9, <1>10, MeetsFacts
<1>12. NoLess(b.block_rate, b.block_rate)
  BY <1>6, Crosswise
<1>13. \A p \in {10, 50} : AtLeast(r.block_rate_improvement, p)
                             => AtLeast(r2.block_rate_improvement, p)
  BY <1>6, <1>7, <1>8, <1>12, ImprovementGrows
<1>14. Grade(compute_verdict(r2, None)) >= Grade(compute_verdict(r, None))
  BY <1>8, <1>11, <1>13, GradeGrows
<1>15. ~Below(r2.mitigation_metrics.block_rate, r.mitigation_metrics.block_rate)
  BY <1>6, <1>7, <1>8, Crosswise
<1>16. compute_verdict(r2, r).label # "regression"
  BY <1>15 DEF compute_verdict, VerdictResult
<1> QED
  BY <1>14, <1>16 DEF r, r2, fixed, e

LEMMA PassedReport ==
    ASSUME NEW t, NEW base, Sample(base), NEW mit, Sample(mit),
           NEW c \in DOMAIN base, t.expected[c] = "blocked"
    PROVE  LET weaker == [base EXCEPT ![c] = Deciding(@, "accepted")]
           IN Grade(compute_verdict(Report(t, weaker, mit), None))
                >= Grade(compute_verdict(Report(t, base, mit), None))
<1> DEFINE e == t.expected
           weaker == [base EXCEPT ![c] = Deciding(@, "accepted")]
           b == calculate_metrics(base, e)
           b2 == calculate_metrics(weaker, e)
           m == calculate_metrics(mit, e)
           r == Report(t, base, mit)
           r2 == Report(t, weaker, mit)
<1>1. /\ Sample(weaker) /\ DOMAIN weaker = DOMAIN base
      /\ \A x \in DOMAIN base : weaker[x].latency_ms = base[x].latency_ms
  BY DecidingFacts DEF Decisions
<1>2. /\ Hits(weaker, e, "blocked") \subseteq Hits(base, e, "blocked")
      /\ Misses(base, e, "blocked") \subseteq Misses(weaker, e, "blocked")
  BY PassedFacts
<1> HIDE DEF weaker
<1>3. NoLess(HitRate(base, e, "blocked"), HitRate(weaker, e, "blocked"))
  BY <1>1, <1>2, RatesFollow
<1>4. b2.mean_latency_ms = b.mean_latency_ms
  BY <1>1, SameLatency
<1>5. /\ b.block_rate = HitRate(base, e, "blocked")
      /\ b2.block_rate = HitRate(weaker, e, "blocked")
      /\ m.block_rate = HitRate(mit, e, "blocked")
  BY <1>1, RatesAre
<1>6. /\ Fraction(b.block_rate) /\ Fraction(b2.block_rate)
      /\ Fraction(m.block_rate)
  BY <1>1, <1>5, RateFractions
<1>7. /\ r.total_cases = r2.total_cases
      /\ r.mitigation_metrics = m /\ r2.mitigation_metrics = m
      /\ r.block_rate_improvement = Minus(m.block_rate, b.block_rate)
      /\ r2.block_rate_improvement = Minus(m.block_rate, b2.block_rate)
      /\ r.latency_overhead_ms = Minus(m.mean_latency_ms, b.mean_latency_ms)
      /\ r2.latency_overhead_ms = Minus(m.mean_latency_ms, b2.mean_latency_ms)
  BY DEF Report, compare
<1> HIDE DEF b, b2, m, r, r2, e
<1>8. Failing(r2) \subseteq Failing(r)
  BY <1>4, <1>7, MeetsFacts
<1>9. NoLess(m.block_rate, m.block_rate)
  BY <1>6, Crosswise
<1>10. \A p \in {10, 50} : AtLeast(r.block_rate_improvement, p)
                             => AtLeast(r2.block_rate_improvement, p)
  BY <1>3, <1>5, <1>6, <1>7, <1>9, ImprovementGrows
<1>11. Grade(compute_verdict(r2, None)) >= Grade(compute_verdict(r, None))
  BY <1>7, <1>8, <1>10, GradeGrows
<1> QED
  BY <1>11 DEF r, r2, weaker

\* VerdictIsMonotone: one more case decided right never costs a better verdict
\* and is no regression, and a weaker baseline never hurts the mitigation.
THEOREM MonotoneVerdict == Spec => []VerdictIsMonotone
<1>1. RunInv => VerdictIsMonotone
  <2> SUFFICES ASSUME RunInv, pc = "done" PROVE VerdictIsMonotone
    BY DEF VerdictIsMonotone
  <2> DEFINE base == results["baseline"]
             mit == results["mitigated"]
  <2>1. Sample(base) /\ Sample(mit)
    BY DoneFacts DEF Modes
  <2>2. /\ comparison = Report(test_set, base, mit)
        /\ verdict = compute_verdict(comparison, None)
    BY DoneFacts
  <2>3. /\ test_set.expected \in [DOMAIN test_set.expected -> Decisions]
        /\ DOMAIN mit \subseteq DOMAIN test_set.expected
    BY DoneFacts, DatasetFacts DEF Modes
  <2> HIDE DEF base, mit
  <2>4. ASSUME NEW c \in DOMAIN mit
        PROVE  LET fixed == [mit EXCEPT ![c] = Deciding(@, test_set.expected[c])]
                   report == Report(test_set, base, fixed)
               IN /\ Grade(compute_verdict(report, None)) >= Grade(verdict)
                  /\ compute_verdict(report, comparison).label # "regression"
    <3>1. test_set.expected[c] \in Decisions
      BY <2>3
    <3> QED
      BY <2>1, <2>2, <3>1, FixedReport
  <2>5. ASSUME NEW c \in DOMAIN base, test_set.expected[c] = "blocked"
        PROVE  Grade(VerdictOn([base EXCEPT ![c] = Deciding(@, "accepted")], mit))
                 >= Grade(verdict)
    BY <2>1, <2>2, <2>5, PassedReport DEF VerdictOn
  <2> QED
    BY <2>4, <2>5 DEF VerdictIsMonotone, base, mit
<1> QED
  BY <1>1, Invariance, PTL
-----------------------------------------------------------------------------
(***************************************************************************)
(* The strategies on requests that make no check raise.                    *)
(***************************************************************************)

LEMMA PlainFacts ==
    ASSUME NEW checks \in Seq({"fails", "passes"})
    PROVE  /\ (\A i \in 1..Len(checks) : checks[i] = "passes") =>
                strict_process(checks) = Accepted /\ weak_process(checks) = Accepted
           /\ (\E i \in 1..Len(checks) : checks[i] = "fails") =>
                strict_process(checks) = Blocked(TRUE)
<1> DEFINE I == {i \in 1..Len(checks) : checks[i] # "passes"}
           k == FirstComplaint(checks)
<1>1. k = IF I # {} THEN Min(I) ELSE 0
  BY DEF FirstComplaint, SelectInSeq
<1>2. I \subseteq Nat /\ 0 \notin I /\ \A i \in I : checks[i] = "fails"
  OBVIOUS
<1>3. /\ I = {} <=> \A i \in 1..Len(checks) : checks[i] = "passes"
      /\ (\E i \in 1..Len(checks) : checks[i] = "fails") => I # {}
  OBVIOUS
<1>4. /\ strict_process(checks) = IF k = 0 THEN Accepted
                                  ELSE IF checks[k] = "fails" THEN Blocked(TRUE)
                                  ELSE Raised
      /\ weak_process(checks) = IF k = 0 THEN Accepted ELSE Blocked(FALSE)
  BY DEF strict_process, weak_process
<1> HIDE DEF I, k
<1>5. I # {} => k \in I
  BY <1>1, <1>2, MinOfNaturals
<1>6. /\ I = {} => strict_process(checks) = Accepted /\ weak_process(checks) = Accepted
      /\ I # {} => strict_process(checks) = Blocked(TRUE)
  BY <1>1, <1>2, <1>4, <1>5
<1> QED
  BY <1>3, <1>6

\* What is wrong with a VPN request whose schema is right and whose fields
\* raise nothing.
VpnBad(r) ==
    \/ r.path.len > 256 \/ BadLength(r.declared, r.actual, 8192)
    \/ LongerThan(r.headers, 512) \/ \E n \in r.query : n > 512
    \/ RepeatsKey(r.headers)
    \/ r.encoding \notin {"utf-8", "ascii"} \/ r.path.traversal

LEMMA VpnDecides ==
    ASSUME NEW r, r.method = "text", r.path.len # 0,
           Hashable(r.encoding), ~CannotHash(r.headers)
    PROVE  /\ weak_schema_length_baseline(r) = Accepted
           /\ strict_schema_canonicalisation_mitigation(r) =
                IF VpnBad(r) THEN Blocked(TRUE) ELSE Accepted
<1> DEFINE a == fails_schema_check(r)
           b == fails_length_checks(r)
           c == fails_duplicate_field_check(r)
           d == fails_type_check(r)
           e == fails_path_canonicalisation_check(r)
           f == Says(FALSE, r.method # "text")
           g == Says(FALSE, r.path.len = 0)
           weak == <<f, g>>
           strict == <<a, b, c, d, e>>
           long == \/ r.path.len > 256 \/ BadLength(r.declared, r.actual, 8192)
                   \/ LongerThan(r.headers, 512) \/ \E n \in r.query : n > 512
<1>1. f = "passes" /\ g = "passes" /\ a = "passes"
  BY DEF Says, fails_schema_check
<1>2. b = IF long THEN "fails" ELSE "passes"
  BY DEF Says, fails_length_checks, VpnLimits
<1>3. c = IF RepeatsKey(r.headers) THEN "fails" ELSE "passes"
  BY DEF Says, fails_duplicate_field_check
<1>4. d = IF r.encoding \notin {"utf-8", "ascii"} THEN "fails" ELSE "passes"
  BY DEF Says, fails_type_check
<1>5. e = IF r.path.traversal THEN "fails" ELSE "passes"
  BY DEF Says, fails_path_canonicalisation_check
<1>6. /\ weak_schema_length_baseline(r) = weak_process(weak)
      /\ strict_schema_canonicalisation_mitigation(r) = strict_process(strict)
  BY DEF weak_schema_length_baseline, strict_schema_canonicalisation_mitigation
<1>7. VpnBad(r) <=> \/ long \/ RepeatsKey(r.headers)
                    \/ r.encoding \notin {"utf-8", "ascii"} \/ r.path.traversal
  BY DEF VpnBad
<1> HIDE DEF a, b, c, d, e, f, g, long
<1>8. /\ weak \in Seq({"fails", "passes"}) /\ Len(weak) = 2
      /\ weak[1] = f /\ weak[2] = g
  BY <1>1
<1>9. /\ strict \in Seq({"fails", "passes"}) /\ Len(strict) = 5
      /\ strict[1] = a /\ strict[2] = b /\ strict[3] = c /\ strict[4] = d
      /\ strict[5] = e
  BY <1>1, <1>2, <1>3, <1>4, <1>5
<1> HIDE DEF weak, strict
<1>10. weak_process(weak) = Accepted
  <2>1. \A i \in 1..Len(weak) : i = 1 \/ i = 2
    BY <1>8
  <2> QED
    BY <1>1, <1>8, <2>1, PlainFacts
<1>11. \A i \in 1..Len(strict) : i = 1 \/ i = 2 \/ i = 3 \/ i = 4 \/ i = 5
  BY <1>9
<1>12. VpnBad(r) => \E i \in 1..Len(strict) : strict[i] = "fails"
  BY <1>2, <1>3, <1>4, <1>5, <1>7, <1>9
<1>13. ~VpnBad(r) => \A i \in 1..Len(strict) : strict[i] = "passes"
  BY <1>1, <1>2, <1>3, <1>4, <1>5, <1>7, <1>9, <1>11
<1>14. strict_process(strict) = IF VpnBad(r) THEN Blocked(TRUE) ELSE Accepted
  BY <1>9, <1>12, <1>13, PlainFacts
<1> QED
  BY <1>6, <1>10, <1>14

TelecomBad(r) ==
    \/ ~(MandatoryHeaders \subseteq Keys(r.headers))
    \/ RepeatsKey(r.headers)
    \/ BadLength(r.declared, r.actual, 4096) \/ LongerThan(r.attributes, 256)
    \/ r.sequence # r.expected_sequence
    \/ <<r.state, r.method>> \notin LegalTransitions

LEMMA TelecomDecides ==
    ASSUME NEW r, r.method \in KnownMethods, r.state \in KnownStates,
           r.headers # <<>>, ~CannotHash(r.headers)
    PROVE  /\ weak_mandatory_field_state_baseline(r) = Accepted
           /\ strict_grammar_state_machine_mitigation(r) =
                IF TelecomBad(r) THEN Blocked(TRUE) ELSE Accepted
<1> DEFINE a == fails_mandatory_field_check(r)
           b == fails_duplicate_header_check(r)
           c == fails_size_limit_checks(r)
           d == fails_sequence_validation(r)
           e == fails_state_machine_check(r)
           f == Says(FALSE, r.method \notin KnownMethods)
           g == Says(FALSE, r.headers = <<>>)
           h == Says(FALSE, r.state \notin KnownStates)
           weak == <<f, g, h>>
           strict == <<a, b, c, d, e>>
           lacks == ~(MandatoryHeaders \subseteq Keys(r.headers))
           long == \/ BadLength(r.declared, r.actual, 4096)
                   \/ LongerThan(r.attributes, 256)
           illegal == <<r.state, r.method>> \notin LegalTransitions
<1>1. f = "passes" /\ g = "passes" /\ h = "passes"
  BY DEF Says
<1>2. a = IF lacks THEN "fails" ELSE "passes"
  BY DEF Says, fails_mandatory_field_check
<1>3. b = IF RepeatsKey(r.headers) THEN "fails" ELSE "passes"
  BY DEF Says, fails_duplicate_header_check
<1>4. c = IF long THEN "fails" ELSE "passes"
  BY DEF Says, fails_size_limit_checks, TelecomLimits
<1>5. d = IF r.sequence # r.expected_sequence THEN "fails" ELSE "passes"
  BY DEF Says, fails_sequence_validation
<1>6. e = IF illegal THEN "fails" ELSE "passes"
  <2>1. Hashable(r.state) /\ Hashable(r.method)
    BY DEF Hashable, Unhashable, KnownMethods, KnownStates
  <2> QED
    BY <2>1 DEF Says, fails_state_machine_check
<1>7. /\ weak_mandatory_field_state_baseline(r) = weak_process(weak)
      /\ strict_grammar_state_machine_mitigation(r) = strict_process(strict)
  BY DEF weak_mandatory_field_state_baseline,
         strict_grammar_state_machine_mitigation
<1>8. TelecomBad(r) <=> \/ lacks \/ RepeatsKey(r.headers) \/ long
                        \/ r.sequence # r.expected_sequence \/ illegal
  BY DEF TelecomBad
<1> HIDE DEF a, b, c, d, e, f, g, h, long, lacks, illegal
<1>9. /\ weak \in Seq({"fails", "passes"}) /\ Len(weak) = 3
      /\ weak[1] = f /\ weak[2] = g /\ weak[3] = h
  BY <1>1
<1>10. /\ strict \in Seq({"fails", "passes"}) /\ Len(strict) = 5
       /\ strict[1] = a /\ strict[2] = b /\ strict[3] = c /\ strict[4] = d
       /\ strict[5] = e
  BY <1>2, <1>3, <1>4, <1>5, <1>6
<1> HIDE DEF weak, strict
<1>11. weak_process(weak) = Accepted
  <2>1. \A i \in 1..Len(weak) : i = 1 \/ i = 2 \/ i = 3
    BY <1>9
  <2> QED
    BY <1>1, <1>9, <2>1, PlainFacts
<1>12. \A i \in 1..Len(strict) : i = 1 \/ i = 2 \/ i = 3 \/ i = 4 \/ i = 5
  BY <1>10
<1>13. TelecomBad(r) => \E i \in 1..Len(strict) : strict[i] = "fails"
  BY <1>2, <1>3, <1>4, <1>5, <1>6, <1>8, <1>10
<1>14. ~TelecomBad(r) => \A i \in 1..Len(strict) : strict[i] = "passes"
  BY <1>2, <1>3, <1>4, <1>5, <1>6, <1>8, <1>10, <1>12
<1>15. strict_process(strict) = IF TelecomBad(r) THEN Blocked(TRUE) ELSE Accepted
  BY <1>10, <1>13, <1>14, PlainFacts
<1> QED
  BY <1>7, <1>11, <1>15
-----------------------------------------------------------------------------
(***************************************************************************)
(* The generated datasets.                                                 *)
(***************************************************************************)

\* A sequence, of whatever it is made of.
IsList(s) == s \in Seq({s[i] : i \in DOMAIN s})

LEMMA FunctionIsList ==
    ASSUME NEW n \in Nat, NEW S, NEW f \in [1..n -> S]
    PROVE  f \in Seq(S) /\ Len(f) = n
  OBVIOUS

LEMMA ListOf ==
    ASSUME NEW n \in Nat, NEW f, f = [i \in 1..n |-> f[i]]
    PROVE  IsList(f) /\ DOMAIN f = 1..n /\ Len(f) = n
<1> DEFINE S == {f[i] : i \in 1..n}
<1>1. DOMAIN f = 1..n
  OBVIOUS
<1>2. f \in [1..n -> S]
  OBVIOUS
<1>3. f \in Seq(S) /\ Len(f) = n
  <2> HIDE DEF S
  <2> QED
    BY <1>2
<1> QED
  BY <1>1, <1>3 DEF IsList

\* A sequence of elements of two others.
Mixes(u, s, t) ==
    /\ IsList(u)
    /\ \A i \in DOMAIN u : \/ \E j \in DOMAIN s : u[i] = s[j]
                           \/ \E j \in DOMAIN t : u[i] = t[j]

LEMMA Joined ==
    ASSUME NEW s, NEW t, IsList(s), IsList(t)
    PROVE  Mixes(s \o t, s, t)
<1> DEFINE A == {s[i] : i \in DOMAIN s}
           B == {t[i] : i \in DOMAIN t}
           u == s \o t
           S == A \cup B
<1>1. s \in Seq(A) /\ t \in Seq(B)
  BY DEF IsList
<1>2. /\ Len(s) \in Nat /\ DOMAIN s = 1..Len(s)
      /\ Len(t) \in Nat /\ DOMAIN t = 1..Len(t)
  <2> HIDE DEF A, B
  <2> QED
    BY <1>1
<1>3. /\ DOMAIN u = 1..(Len(s) + Len(t))
      /\ \A i \in 1..Len(s) : u[i] = s[i]
      /\ \A i \in (Len(s) + 1)..(Len(s) + Len(t)) : u[i] = t[i - Len(s)]
      /\ u = [i \in DOMAIN u |-> u[i]]
  <2>1. s \in Seq(S) /\ t \in Seq(S)
    <3> HIDE DEF A, B
    <3> QED
      BY <1>1
  <2> HIDE DEF S
  <2>2. u \in Seq(S) /\ Len(u) = Len(s) + Len(t)
    BY <2>1
  <2>3. \A i \in 1..(Len(s) + Len(t)) :
          u[i] = IF i <= Len(s) THEN s[i] ELSE t[i - Len(s)]
    BY <1>2, <2>1
  <2> HIDE DEF u
  <2>4. DOMAIN u = 1..(Len(s) + Len(t)) /\ u = [i \in DOMAIN u |-> u[i]]
    BY <2>2
  <2>5. \A i \in 1..Len(s) : i \in 1..(Len(s) + Len(t)) /\ i <= Len(s)
    BY <1>2
  <2>6. \A i \in (Len(s) + 1)..(Len(s) + Len(t)) :
          i \in 1..(Len(s) + Len(t)) /\ ~(i <= Len(s))
    BY <1>2
  <2> QED
    BY <2>3, <2>4, <2>5, <2>6
<1>4. \A i \in DOMAIN u : \/ \E j \in DOMAIN s : u[i] = s[j]
                          \/ \E j \in DOMAIN t : u[i] = t[j]
  <2> TAKE i \in DOMAIN u
  <2> HIDE DEF u
  <2>1. CASE i <= Len(s)
    BY <1>2, <1>3, <2>1
  <2>2. CASE ~(i <= Len(s))
    <3>1. i \in (Len(s) + 1)..(Len(s) + Len(t)) /\ i - Len(s) \in 1..Len(t)
      BY <1>2, <1>3, <2>2
    <3> QED
      BY <1>2, <1>3, <3>1
  <2> QED
    BY <2>1, <2>2
<1>5. IsList(u)
  <2>1. Len(s) + Len(t) \in Nat
    BY <1>2
  <2> HIDE DEF u
  <2> QED
    BY <1>3, <2>1, ListOf
<1> HIDE DEF u
<1>6. Mixes(u, s, t)
  BY <1>4, <1>5 DEF Mixes
<1> QED
  BY <1>6 DEF u

\* The baseline accepts a request, and the mitigation blocks it if it is bad.
Decided(domain, r, bad) ==
    /\ process(domain, "baseline", r) = Accepted
    /\ process(domain, "mitigated", r) =
         IF bad THEN Blocked(TRUE) ELSE Accepted

Stopped(domain, r) == Decided(domain, r, TRUE)

\* A case that is decided without an error, as it is expected but for the
\* boundary and oversized ones of a configuration with other limits.
Fits(domain, config, x) ==
    /\ process(domain, "baseline", x.input) = Accepted
    /\ process(domain, "mitigated", x.input) \in {Accepted, Blocked(TRUE)}
    /\ \/ process(domain, "mitigated", x.input).decision = x.expected
       \/ /\ x.category \in {"boundary", "oversized"}
          /\ config.limit # EnforcedLimits[domain]

AllStopped(domain, s) ==
    IsList(s) /\ \A i \in DOMAIN s : Stopped(domain, s[i])
AllFit(domain, config, s) ==
    IsList(s) /\ \A i \in DOMAIN s : Fits(domain, config, s[i])

LEMMA JoinedFit ==
    ASSUME NEW domain, NEW config, NEW s, NEW t
    PROVE  /\ AllStopped(domain, s) /\ AllStopped(domain, t) =>
                AllStopped(domain, s \o t)
           /\ AllFit(domain, config, s) /\ AllFit(domain, config, t) =>
                AllFit(domain, config, s \o t)
<1> DEFINE u == s \o t
<1>1. IsList(s) /\ IsList(t) => Mixes(u, s, t)
  BY Joined
<1> HIDE DEF u
<1>2. AllStopped(domain, s) /\ AllStopped(domain, t) => AllStopped(domain, u)
  BY <1>1 DEF AllStopped, Mixes
<1>3. /\ AllFit(domain, config, s) /\ AllFit(domain, config, t) =>
           AllFit(domain, config, u)
  BY <1>1 DEF AllFit, Mixes
<1> QED
  BY <1>2, <1>3 DEF u

\* Cases of one kind.
LEMMA CasesFit ==
    ASSUME NEW domain, NEW config, NEW inputs, IsList(inputs),
           NEW category, NEW expected,
           \A i \in DOMAIN inputs :
              Fits(domain, config, Case(category, inputs[i], expected))
    PROVE  AllFit(domain, config, Cases(category, inputs, expected))
<1> DEFINE f == Cases(category, inputs, expected)
<1>1. Len(inputs) \in Nat /\ DOMAIN inputs = 1..Len(inputs)
  BY DEF IsList
<1>2. f = [i \in 1..Len(inputs) |-> Case(category, inputs[i], expected)]
  BY <1>1 DEF Cases
<1> HIDE DEF f
<1>3. f = [i \in 1..Len(inputs) |-> f[i]] /\ DOMAIN f = 1..Len(inputs)
  BY <1>2
<1>4. IsList(f)
  BY <1>1, <1>3, ListOf
<1>5. \A i \in DOMAIN f : Fits(domain, config, f[i])
  BY <1>1, <1>2, <1>3
<1> QED
  BY <1>4, <1>5 DEF AllFit, f

LEMMA CaseFits ==
    ASSUME NEW domain, NEW config, NEW category, NEW input,
           NEW expected \in Decisions, NEW bad \in BOOLEAN,
           Decided(domain, input, bad),
           \/ bad <=> expected = "blocked"
           \/ /\ category \in {"boundary", "oversized"}
              /\ config.limit # EnforcedLimits[domain]
    PROVE  Fits(domain, config, Case(category, input, expected))
<1> DEFINE x == Case(category, input, expected)
           o == process(domain, "mitigated", input)
<1>1. x.input = input /\ x.expected = expected /\ x.category = category
  BY DEF Case
<1>2. o \in {Accepted, Blocked(TRUE)}
  BY DEF Decided
<1>3. o.decision = IF bad THEN "blocked" ELSE "accepted"
  BY OutcomeFacts DEF Decided
<1>4. process(domain, "baseline", input) = Accepted
  BY DEF Decided
<1> HIDE DEF x, o
<1>5. (bad <=> expected = "blocked") => o.decision = expected
  BY <1>3 DEF Decisions
<1>6. o = process(domain, "mitigated", input)
  BY DEF o
<1>7. Fits(domain, config, x)
  BY <1>1, <1>2, <1>4, <1>5, <1>6 DEF Fits
<1> QED
  BY <1>7 DEF x

LEMMA StoppedFit ==
    ASSUME NEW domain, NEW config, NEW inputs, AllStopped(domain, inputs),
           NEW category
    PROVE  AllFit(domain, config, Cases(category, inputs, "blocked"))
<1>1. ASSUME NEW i \in DOMAIN inputs
      PROVE  Fits(domain, config, Case(category, inputs[i], "blocked"))
  <2>1. Stopped(domain, inputs[i])
    BY DEF AllStopped
  <2> QED
    BY <2>1, CaseFits DEF Stopped, Decisions
<1> QED
  BY <1>1, CasesFit DEF AllStopped

\* As many of the same.
LEMMA Copies ==
    ASSUME NEW domain, NEW config, NEW n \in Nat, NEW f,
           f = [i \in 1..n |-> f[i]]
    PROVE  /\ (\A i \in 1..n : Stopped(domain, f[i])) => AllStopped(domain, f)
           /\ (\A i \in 1..n : Fits(domain, config, f[i])) =>
                AllFit(domain, config, f)
  BY ListOf DEF AllStopped, AllFit

LEMMA TurnFacts ==
    ASSUME NEW k \in Nat \ {0}, NEW i \in Nat \ {0}
    PROVE  Turn(k, i) \in 1..k
<1>1. i - 1 \in Int
  OBVIOUS
<1>2. (i - 1) % k \in 0..(k - 1)
  BY <1>1
<1> QED
  BY <1>2 DEF Turn

LEMMA MaxFacts ==
    ASSUME NEW k \in Int
    PROVE  Max({0, k}) = IF k > 0 THEN k ELSE 0
<1> DEFINE m == IF k > 0 THEN k ELSE 0
<1>1. m \in {0, k} /\ \A y \in {0, k} : m >= y
  OBVIOUS
<1>2. \A x \in {0, k} : (\A y \in {0, k} : x >= y) => x = m
  OBVIOUS
<1> HIDE DEF m
<1>3. Max({0, k}) = m
  BY <1>1, <1>2 DEF Max
<1> QED
  BY <1>3 DEF m

LEMMA PathFacts ==
    ASSUME NEW n \in Nat
    PROVE  PathOfLength(n) = IF n > 8 THEN n ELSE 8
<1> DEFINE k == n - 8
           m == Max({0, k})
<1>1. k \in Int /\ k = n - 8
  OBVIOUS
<1>2. PathOfLength(n) = 8 + m
  BY DEF PathOfLength, VpnPrefix
<1> HIDE DEF k
<1>3. m = IF k > 0 THEN k ELSE 0
  BY <1>1, MaxFacts
<1> HIDE DEF m
<1> QED
  BY <1>1, <1>2, <1>3

OneHost == <<Host>>
TwoHosts == <<Host, Host>>

LEMMA HostFacts ==
    /\ ~CannotHash(OneHost) /\ ~CannotHash(TwoHosts)
    /\ ~RepeatsKey(OneHost) /\ RepeatsKey(TwoHosts)
    /\ ~LongerThan(OneHost, 512) /\ ~LongerThan(TwoHosts, 512)
    /\ OneHost # TwoHosts
<1>1. Host.key = "Host" /\ Host.len = 17
  BY DEF Host
<1>2. /\ Pairs(OneHost) = {1} /\ Pairs(TwoHosts) = {1, 2}
  BY <1>1 DEF Pairs, OneHost, TwoHosts
<1> HIDE DEF Host
<1>3. Keys(OneHost) = {"Host"} /\ Keys(TwoHosts) = {"Host"}
  BY <1>1, <1>2 DEF Keys, OneHost, TwoHosts
<1> QED
  BY <1>1, <1>2, <1>3
  DEF CannotHash, Unhashable, RepeatsKey, LongerThan, OneHost, TwoHosts

\* The requests that the VPN generator makes.
VpnMade(r) ==
    /\ r.method = "text" /\ r.path.len \in Nat \ {0}
    /\ r.headers \in {OneHost, TwoHosts} /\ r.query = {}
    /\ r.declared \in Nat /\ r.actual \in Nat /\ r.encoding # Unhashable

\* What can be wrong with them.
VpnFlaw(r) ==
    \/ r.path.len > 256 \/ r.declared > 8192
    \/ r.declared # r.actual \/ r.headers = TwoHosts
    \/ r.encoding \notin {"utf-8", "ascii"} \/ r.path.traversal

LEMMA VpnPlain ==
    ASSUME NEW r, VpnMade(r), NEW bad \in BOOLEAN, bad <=> VpnFlaw(r)
    PROVE  Decided("vpn", r, bad)
<1>1. Hashable(r.encoding) /\ ~CannotHash(r.headers)
  BY HostFacts DEF Hashable, VpnMade
<1>2. BadLength(r.declared, r.actual, 8192) <=>
        r.declared > 8192 \/ r.declared # r.actual
  BY DEF BadLength, VpnMade
<1>3. /\ RepeatsKey(r.headers) <=> r.headers = TwoHosts
      /\ ~LongerThan(r.headers, 512)
  BY HostFacts DEF VpnMade
<1>4. ~(\E n \in r.query : n > 512)
  BY DEF VpnMade
<1>5. VpnBad(r) <=> bad
  BY <1>2, <1>3, <1>4 DEF VpnBad, VpnFlaw
<1>6. /\ process("vpn", "baseline", r) = weak_schema_length_baseline(r)
      /\ process("vpn", "mitigated", r) =
           strict_schema_canonicalisation_mitigation(r)
  BY DEF process
<1>7. r.method = "text" /\ r.path.len # 0
  BY DEF VpnMade
<1>8. /\ weak_schema_length_baseline(r) = Accepted
      /\ strict_schema_canonicalisation_mitigation(r) =
           IF VpnBad(r) THEN Blocked(TRUE) ELSE Accepted
  BY <1>1, <1>7, VpnDecides
<1> QED
  BY <1>5, <1>6, <1>8 DEF Decided

LEMMA VpnRequestFacts ==
    ASSUME NEW n \in Nat \ {0}, NEW bad \in BOOLEAN, bad <=> n > 256
    PROVE  Decided("vpn", VpnRequest(n), bad)
<1> DEFINE r == VpnRequest(n)
<1>1. /\ r.method = "text" /\ r.path.len = n /\ r.path.traversal = FALSE
      /\ r.headers = OneHost /\ r.query = {} /\ r.declared = 0
      /\ r.actual = 0 /\ r.encoding = "utf-8"
  BY DEF VpnRequest, OneHost
<1> HIDE DEF r
<1>2. VpnMade(r)
  BY <1>1 DEF VpnMade, Unhashable
<1>3. bad <=> VpnFlaw(r)
  BY <1>1, HostFacts DEF VpnFlaw
<1>4. Decided("vpn", r, bad)
  BY <1>2, <1>3, VpnPlain
<1> QED
  BY <1>4 DEF r

\* The login request with one thing changed.
Login == VpnRequest(13)

LEMMA LoginFacts ==
    /\ DOMAIN Login = {"method", "path", "headers", "declared", "actual",
                       "query", "encoding"}
    /\ Login.method = "text" /\ Login.path = [len |-> 13, traversal |-> FALSE]
    /\ Login.headers = OneHost /\ Login.query = {} /\ Login.declared = 0
    /\ Login.actual = 0 /\ Login.encoding = "utf-8"
    /\ Decided("vpn", Login, FALSE)
<1>1. Decided("vpn", Login, FALSE)
  <2>1. 13 \in Nat \ {0} /\ ~(13 > 256)
    OBVIOUS
  <2> QED
    BY <2>1, VpnRequestFacts DEF Login
<1> QED
  BY <1>1 DEF Login, VpnRequest, OneHost

LoginOf(declared, actual) ==
    [Login EXCEPT !.declared = declared, !.actual = actual]

LEMMA LoginSized ==
    ASSUME NEW declared \in Nat, NEW actual \in Nat, NEW bad \in BOOLEAN,
           bad <=> (declared > 8192 \/ declared # actual)
    PROVE  Decided("vpn", LoginOf(declared, actual), bad)
<1> DEFINE r == LoginOf(declared, actual)
<1>1. /\ r.method = "text" /\ r.path.len = 13 /\ r.path.traversal = FALSE
      /\ r.headers = OneHost /\ r.query = {} /\ r.declared = declared
      /\ r.actual = actual /\ r.encoding = "utf-8"
  BY LoginFacts DEF LoginOf
<1> HIDE DEF r
<1>2. VpnMade(r)
  BY <1>1 DEF VpnMade, Unhashable
<1>3. bad <=> VpnFlaw(r)
  BY <1>1, HostFacts DEF VpnFlaw
<1>4. Decided("vpn", r, bad)
  BY <1>2, <1>3, VpnPlain
<1> QED
  BY <1>4 DEF r

LEMMA LoginMalformed ==
    /\ Stopped("vpn", [Login EXCEPT !.headers = TwoHosts])
    /\ Stopped("vpn", [Login EXCEPT !.path.traversal = TRUE])
    /\ \A e \in {"utf-7", "cesu-8", "unspecified-binary"} :
         Stopped("vpn", [Login EXCEPT !.encoding = e])
<1>1. Stopped("vpn", [Login EXCEPT !.headers = TwoHosts])
  <2> DEFINE r == [Login EXCEPT !.headers = TwoHosts]
  <2>1. /\ r.method = "text" /\ r.path.len = 13 /\ r.path.traversal = FALSE
        /\ r.headers = TwoHosts /\ r.query = {} /\ r.declared = 0
        /\ r.actual = 0 /\ r.encoding = "utf-8"
    BY LoginFacts
  <2> HIDE DEF r
  <2>2. VpnMade(r)
    BY <2>1 DEF VpnMade, Unhashable
  <2>3. TRUE <=> VpnFlaw(r)
    BY <2>1 DEF VpnFlaw
  <2>4. Stopped("vpn", r)
    BY <2>2, <2>3, VpnPlain DEF Stopped
  <2> QED
    BY <2>4 DEF r
<1>2. Stopped("vpn", [Login EXCEPT !.path.traversal = TRUE])
  <2> DEFINE r == [Login EXCEPT !.path.traversal = TRUE]
  <2>1. /\ r.method = "text" /\ r.path.len = 13 /\ r.path.traversal = TRUE
        /\ r.headers = OneHost /\ r.query = {} /\ r.declared = 0
        /\ r.actual = 0 /\ r.encoding = "utf-8"
    BY LoginFacts
  <2> HIDE DEF r
  <2>2. VpnMade(r)
    BY <2>1 DEF VpnMade, Unhashable
  <2>3. TRUE <=> VpnFlaw(r)
    BY <2>1 DEF VpnFlaw
  <2>4. Stopped("vpn", r)
    BY <2>2, <2>3, VpnPlain DEF Stopped
  <2> QED
    BY <2>4 DEF r
<1>3. ASSUME NEW e \in {"utf-7", "cesu-8", "unspecified-binary"}
      PROVE  Stopped("vpn", [Login EXCEPT !.encoding = e])
  <2> DEFINE r == [Login EXCEPT !.encoding = e]
  <2>1. /\ r.method = "text" /\ r.path.len = 13 /\ r.path.traversal = FALSE
        /\ r.headers = OneHost /\ r.query = {} /\ r.declared = 0
        /\ r.actual = 0 /\ r.encoding = e
    BY LoginFacts
  <2> HIDE DEF r
  <2>2. VpnMade(r)
    BY <2>1 DEF VpnMade, Unhashable
  <2>3. TRUE <=> VpnFlaw(r)
    BY <2>1 DEF VpnFlaw
  <2>4. Stopped("vpn", r)
    BY <2>2, <2>3, VpnPlain DEF Stopped
  <2> QED
    BY <2>4 DEF r
<1> QED
  BY <1>1, <1>2, <1>3

LEMMA VpnFits ==
    ASSUME NEW config \in ConfigsOf("vpn"), NEW draw \in Nat
    PROVE  AllFit("vpn", config, vpn_test_set(config, draw))
<1> DEFINE too_long == config.limit.body + 1 + draw
           m1 == [i \in 1..config.duplicate_field |->
                    [Login EXCEPT !.headers = TwoHosts]]
           m2 == [i \in 1..config.mismatched_length |-> LoginOf(42, 142 + draw)]
           words == <<"utf-7", "cesu-8", "unspecified-binary">>
           m3 == [i \in 1..config.unsupported_encoding |->
                    [Login EXCEPT !.encoding = Cycle(words, i)]]
           m4 == [i \in 1..config.invalid_path |->
                    [Login EXCEPT !.path.traversal = TRUE]]
           plain == [i \in 1..config.valid |-> Login]
           c1 == Cases("valid", plain, "accepted")
           c2 == [i \in 1..(2 * config.boundary) |-> VpnBoundary(config, i)]
           large == [i \in 1..config.oversized |-> LoginOf(too_long, too_long)]
           c3 == Cases("oversized", large, "blocked")
           c4 == Cases("malformed", m1 \o m2 \o m3 \o m4, "blocked")
           strict == config.limit = EnforcedLimits["vpn"]
<1>1. vpn_test_set(config, draw) = c1 \o c2 \o c3 \o c4
  BY DEF vpn_test_set, Login, LoginOf, TwoHosts
<1>2. /\ config.valid \in Nat /\ config.boundary \in Nat
      /\ config.oversized \in Nat /\ config.duplicate_field \in Nat
      /\ config.mismatched_length \in Nat
      /\ config.unsupported_encoding \in Nat /\ config.invalid_path \in Nat
      /\ config.limit.path \in Nat \ {0} /\ config.limit.body \in Nat \ {0}
  BY DEF ConfigsOf, Limits
<1>3. strict => config.limit.path = 256 /\ config.limit.body = 8192
  BY DEF EnforcedLimits, VpnLimits
<1> HIDE DEF strict
<1>4. AllFit("vpn", config, c1)
  <2>1. Fits("vpn", config, Case("valid", Login, "accepted"))
    BY LoginFacts, CaseFits DEF Decisions
  <2>2. /\ plain = [i \in 1..config.valid |-> plain[i]]
        /\ \A i \in 1..config.valid : plain[i] = Login
    OBVIOUS
  <2> HIDE DEF plain
  <2>3. IsList(plain) /\ DOMAIN plain = 1..config.valid
    BY <1>2, <2>2, ListOf
  <2> QED
    BY <2>1, <2>2, <2>3, CasesFit
<1>5. AllFit("vpn", config, c2)
  <2> DEFINE n == 2 * config.boundary
  <2>1. ASSUME NEW i \in 1..n
        PROVE  Fits("vpn", config, VpnBoundary(config, i))
    <3> DEFINE p == config.limit.path
               at == PathOfLength(p)
               over == PathOfLength(p + 1)
    <3>1. p \in Nat \ {0} /\ p + 1 \in Nat
      BY <1>2
    <3> HIDE DEF p
    <3>2. /\ at = IF p > 8 THEN p ELSE 8
          /\ over = IF p + 1 > 8 THEN p + 1 ELSE 8
      BY <3>1, PathFacts
    <3> HIDE DEF at, over
    <3>3. /\ at \in Nat \ {0} /\ over \in Nat \ {0}
          /\ p = 256 => ~(at > 256) /\ over > 256
      BY <3>1, <3>2
    <3>4. strict => ~(at > 256) /\ over > 256
      BY <1>3, <3>3 DEF p
    <3> DEFINE x == at > 256
               y == over > 256
    <3>5. x \in BOOLEAN /\ y \in BOOLEAN
      OBVIOUS
    <3> HIDE DEF x, y
    <3>6. Decided("vpn", VpnRequest(at), x) /\ Decided("vpn", VpnRequest(over), y)
      BY <3>3, <3>5, VpnRequestFacts DEF x, y
    <3>7. strict => ~x /\ y
      BY <3>4 DEF x, y
    <3>8. Fits("vpn", config, Case("boundary", VpnRequest(at), "accepted"))
      BY <3>5, <3>6, <3>7, CaseFits DEF Decisions, strict
    <3>9. Fits("vpn", config, Case("boundary", VpnRequest(over), "blocked"))
      BY <3>5, <3>6, <3>7, CaseFits DEF Decisions, strict
    <3> QED
      BY <3>8, <3>9 DEF VpnBoundary, OverLimitPath, at, over, p
  <2>2. /\ n \in Nat /\ c2 = [i \in 1..n |-> c2[i]]
        /\ \A i \in 1..n : c2[i] = VpnBoundary(config, i)
    BY <1>2
  <2> HIDE DEF c2, n
  <2> QED
    BY <2>1, <2>2, Copies
<1>6. AllFit("vpn", config, c3)
  <2> DEFINE bad == too_long > 8192
             r == LoginOf(too_long, too_long)
  <2>1. too_long \in Nat /\ (config.limit.body = 8192 => too_long > 8192)
    BY <1>2
  <2>2. bad \in BOOLEAN
    OBVIOUS
  <2>3. strict => bad
    BY <1>3, <2>1
  <2> HIDE DEF too_long, bad
  <2>4. Decided("vpn", r, bad)
    <3>1. bad <=> (too_long > 8192 \/ too_long # too_long)
      BY DEF bad
    <3> QED
      BY <2>1, <2>2, <3>1, LoginSized
  <2>5. /\ large = [i \in 1..config.oversized |-> large[i]]
        /\ \A i \in 1..config.oversized : large[i] = r
    OBVIOUS
  <2> HIDE DEF r, large
  <2>6. Fits("vpn", config, Case("oversized", r, "blocked"))
    BY <2>2, <2>3, <2>4, CaseFits DEF Decisions, strict
  <2>7. IsList(large) /\ DOMAIN large = 1..config.oversized
    BY <1>2, <2>5, ListOf
  <2> QED
    BY <2>5, <2>6, <2>7, CasesFit
<1>7. AllStopped("vpn", m1)
  <2> DEFINE n == config.duplicate_field
  <2>1. m1 = [i \in 1..n |-> m1[i]] /\ \A i \in 1..n : Stopped("vpn", m1[i])
    BY LoginMalformed
  <2> HIDE DEF m1
  <2> QED
    BY <1>2, <2>1, Copies
<1>8. AllStopped("vpn", m2)
  <2> DEFINE n == config.mismatched_length
             k == 142 + draw
  <2>1. k \in Nat /\ 42 \in Nat /\ 42 # k
    OBVIOUS
  <2> HIDE DEF k
  <2>2. Stopped("vpn", LoginOf(42, k))
    <3> DEFINE bad == 42 > 8192 \/ 42 # k
    <3>1. bad \in BOOLEAN /\ bad
      BY <2>1
    <3>2. bad <=> (42 > 8192 \/ 42 # k)
      OBVIOUS
    <3> HIDE DEF bad
    <3>3. Decided("vpn", LoginOf(42, k), bad)
      BY <2>1, <3>1, <3>2, LoginSized
    <3> QED
      BY <3>1, <3>3 DEF Stopped, Decided
  <2>3. m2 = [i \in 1..n |-> m2[i]] /\ \A i \in 1..n : Stopped("vpn", m2[i])
    BY <2>2 DEF k
  <2> HIDE DEF m2
  <2> QED
    BY <1>2, <2>3, Copies
<1>9. AllStopped("vpn", m3)
  <2> DEFINE n == config.unsupported_encoding
             encodings == {"utf-7", "cesu-8", "unspecified-binary"}
  <2>1. ASSUME NEW i \in 1..n
        PROVE  Cycle(words, i) \in encodings
    <3>1. i \in Nat \ {0} /\ 3 \in Nat \ {0}
      BY <1>2
    <3>2. Turn(3, i) \in 1..3
      BY <3>1, TurnFacts
    <3>3. Cycle(words, i) = words[Turn(3, i)]
      BY DEF Cycle
    <3>4. \A k \in 1..3 : words[k] \in encodings
      OBVIOUS
    <3> QED
      BY <3>2, <3>3, <3>4
  <2> HIDE DEF words
  <2>2. m3 = [i \in 1..n |-> m3[i]] /\ \A i \in 1..n : Stopped("vpn", m3[i])
    BY <2>1, LoginMalformed
  <2> HIDE DEF m3
  <2> QED
    BY <1>2, <2>2, Copies
<1>10. AllStopped("vpn", m4)
  <2> DEFINE n == config.invalid_path
  <2>1. m4 = [i \in 1..n |-> m4[i]] /\ \A i \in 1..n : Stopped("vpn", m4[i])
    BY LoginMalformed
  <2> HIDE DEF m4
  <2> QED
    BY <1>2, <2>1, Copies
<1> HIDE DEF m1, m2, m3, m4
<1>11. AllFit("vpn", config, c4)
  BY <1>7, <1>8, <1>9, <1>10, JoinedFit, StoppedFit
<1> HIDE DEF c1, c2, c3, c4
<1> QED
  BY <1>1, <1>4, <1>5, <1>6, <1>11, JoinedFit

\* The requests that the telecom generator makes.
TelecomMade(r) ==
    /\ r.method \in KnownMethods /\ r.state \in KnownStates
    /\ r.headers # <<>> /\ ~CannotHash(r.headers)
    /\ r.declared \in Nat /\ r.actual \in Nat

\* What can be wrong with them.
TelecomFlaw(r) ==
    \/ ~(MandatoryHeaders \subseteq Keys(r.headers)) \/ RepeatsKey(r.headers)
    \/ r.declared > 4096 \/ r.declared # r.actual
    \/ LongerThan(r.attributes, 256) \/ r.sequence # r.expected_sequence
    \/ <<r.state, r.method>> \notin LegalTransitions

LEMMA TelecomPlain ==
    ASSUME NEW r, TelecomMade(r), NEW bad \in BOOLEAN, bad <=> TelecomFlaw(r)
    PROVE  Decided("telecom", r, bad)
<1>1. BadLength(r.declared, r.actual, 4096) <=>
        r.declared > 4096 \/ r.declared # r.actual
  BY DEF BadLength, TelecomMade
<1>2. TelecomBad(r) <=> bad
  BY <1>1 DEF TelecomBad, TelecomFlaw
<1>3. /\ process("telecom", "baseline", r) =
           weak_mandatory_field_state_baseline(r)
      /\ process("telecom", "mitigated", r) =
           strict_grammar_state_machine_mitigation(r)
  BY DEF process
<1>4. /\ r.method \in KnownMethods /\ r.state \in KnownStates
      /\ r.headers # <<>> /\ ~CannotHash(r.headers)
  BY DEF TelecomMade
<1>5. /\ weak_mandatory_field_state_baseline(r) = Accepted
      /\ strict_grammar_state_machine_mitigation(r) =
           IF TelecomBad(r) THEN Blocked(TRUE) ELSE Accepted
  BY <1>4, TelecomDecides
<1> QED
  BY <1>2, <1>3, <1>5 DEF Decided

\* A list of headers from their keys.
LEMMA HeaderFacts ==
    /\ Headers \in Seq({Headers[1], Headers[2], Headers[3]})
    /\ Len(Headers) = 3 /\ DOMAIN Headers = 1..3
    /\ \A k \in 1..3 : Headers[k].key = Mandatory[k]
    /\ Mandatory[1] = "Call-ID" /\ Mandatory[2] = "From" /\ Mandatory[3] = "To"
<1> DEFINE S == {Headers[1], Headers[2], Headers[3]}
<1>1. /\ DOMAIN Headers = 1..3
      /\ \A k \in 1..3 : Headers[k].key = Mandatory[k]
      /\ Headers = [k \in 1..3 |-> Headers[k]]
  BY DEF Headers
<1>2. \A k \in 1..3 : k = 1 \/ k = 2 \/ k = 3
  OBVIOUS
<1>3. \A k \in 1..3 : Headers[k] \in S
  BY <1>2
<1> HIDE DEF S
<1>4. Headers \in [1..3 -> S]
  BY <1>1, <1>3
<1>5. Headers \in Seq(S) /\ Len(Headers) = 3
  <2>1. 3 \in Nat
    OBVIOUS
  <2> QED
    BY <1>4, <2>1, FunctionIsList
<1> QED
  BY <1>1, <1>5 DEF Mandatory, S

LEMMA AllHeaders ==
    /\ Headers # <<>> /\ ~CannotHash(Headers)
    /\ MandatoryHeaders \subseteq Keys(Headers) /\ ~RepeatsKey(Headers)
<1>1. Pairs(Headers) = 1..3
  BY HeaderFacts DEF Pairs
<1>2. \A k \in 1..3 : k = 1 \/ k = 2 \/ k = 3
  OBVIOUS
<1>3. Keys(Headers) = {"Call-ID", "From", "To"}
  BY <1>1, <1>2, HeaderFacts DEF Keys
<1>4. ~RepeatsKey(Headers)
  BY <1>1, <1>2, HeaderFacts DEF RepeatsKey
<1>5. Headers # <<>>
  <2>1. Len(Headers) = 3
    BY HeaderFacts
  <2>2. Len(<<>>) = 0
    OBVIOUS
  <2> QED
    BY <2>1, <2>2
<1> QED
  BY <1>3, <1>4, <1>5 DEF CannotHash, Unhashable, MandatoryHeaders

LEMMA HeaderMissing ==
    ASSUME NEW k \in 1..3
    PROVE  LET h == RemoveAt(Headers, k)
           IN /\ h # <<>> /\ ~CannotHash(h)
              /\ ~(MandatoryHeaders \subseteq Keys(h))
<1> DEFINE h == RemoveAt(Headers, k)
           S == {Headers[1], Headers[2], Headers[3]}
           a == SubSeq(Headers, 1, k - 1)
           b == SubSeq(Headers, k + 1, 3)
<1>1. h = a \o b
  BY HeaderFacts DEF RemoveAt
<1>2. Headers \in Seq(S) /\ Len(Headers) = 3
  BY HeaderFacts
<1> HIDE DEF S
<1>3. \A i \in 1..3 : Headers[i] \in S
  BY <1>2
<1>4. /\ a \in Seq(S) /\ Len(a) = k - 1
      /\ \A i \in 1..(k - 1) : a[i] = Headers[i]
  <2>1. /\ 1 \in Int /\ k - 1 \in Int
        /\ \A i \in 1..(k - 1) : Headers[i] \in S
    BY <1>3
  <2>2. /\ a \in Seq(S) /\ Len(a) = IF 1 <= k - 1 THEN k - 1 - 1 + 1 ELSE 0
        /\ \A i \in 1..(k - 1 - 1 + 1) : a[i] = Headers[1 + i - 1]
    BY <2>1, SubSeqProperties
  <2> HIDE DEF a
  <2> QED
    BY <2>2
<1>5. /\ b \in Seq(S) /\ Len(b) = 3 - k
      /\ \A i \in 1..(3 - k) : b[i] = Headers[k + i]
  <2>1. /\ k + 1 \in Int /\ 3 \in Int
        /\ \A i \in (k + 1)..3 : Headers[i] \in S
    BY <1>3
  <2>2. /\ b \in Seq(S)
        /\ Len(b) = IF k + 1 <= 3 THEN 3 - (k + 1) + 1 ELSE 0
        /\ \A i \in 1..(3 - (k + 1) + 1) : b[i] = Headers[k + 1 + i - 1]
    BY <2>1, SubSeqProperties
  <2> HIDE DEF b
  <2> QED
    BY <2>2
<1> HIDE DEF a, b
<1>6. /\ h \in Seq(S) /\ Len(h) = 2
      /\ \A i \in 1..2 : h[i] = IF i <= k - 1 THEN a[i] ELSE b[i - (k - 1)]
  <2> HIDE DEF h
  <2> DEFINE u == a \o b
  <2>1. /\ u \in Seq(S) /\ Len(u) = Len(a) + Len(b)
        /\ \A i \in 1..(Len(a) + Len(b)) :
              u[i] = IF i <= Len(a) THEN a[i] ELSE b[i - Len(a)]
    <3>1. a \in Seq(S) /\ b \in Seq(S)
      BY <1>4, <1>5
    <3> QED
      BY <3>1, ConcatProperties
  <2>2. h = u
    BY <1>1
  <2> HIDE DEF u
  <2>3. /\ Len(a) = k - 1 /\ Len(b) = 3 - k /\ Len(a) + Len(b) = 2
    BY <1>4, <1>5
  <2> QED
    BY <2>1, <2>2, <2>3
<1> HIDE DEF h
<1>7. \A i \in 1..2 : h[i] = IF i <= k - 1 THEN Headers[i] ELSE Headers[i + 1]
  <2> TAKE i \in 1..2
  <2>1. CASE i <= k - 1
    BY <1>4, <1>6, <2>1
  <2>2. CASE ~(i <= k - 1)
    <3>1. i - (k - 1) \in 1..(3 - k) /\ k + (i - (k - 1)) = i + 1
      BY <2>2
    <3> QED
      BY <1>5, <1>6, <2>2, <3>1
  <2> QED
    BY <2>1, <2>2
<1>8. DOMAIN h = 1..2
  BY <1>6
<1>9. /\ h[1].key = IF k = 1 THEN "From" ELSE "Call-ID"
      /\ h[2].key = IF k = 3 THEN "From" ELSE "To"
  <2>1. k = 1 \/ k = 2 \/ k = 3
    OBVIOUS
  <2>2. /\ Headers[1].key = "Call-ID" /\ Headers[2].key = "From"
        /\ Headers[3].key = "To"
    BY HeaderFacts
  <2>3. /\ h[1] = IF k = 1 THEN Headers[2] ELSE Headers[1]
        /\ h[2] = IF k = 3 THEN Headers[2] ELSE Headers[3]
    BY <1>7, <2>1
  <2> QED
    BY <2>1, <2>2, <2>3
<1>10. Pairs(h) = {1, 2}
  BY <1>8, <1>9 DEF Pairs
<1>11. Keys(h) = {IF k = 1 THEN "From" ELSE "Call-ID",
                  IF k = 3 THEN "From" ELSE "To"}
  BY <1>9, <1>10 DEF Keys
<1>12. ~CannotHash(h) /\ ~(MandatoryHeaders \subseteq Keys(h))
  BY <1>11 DEF CannotHash, Unhashable, MandatoryHeaders
<1>13. h # <<>>
  BY <1>6
<1> QED
  BY <1>12, <1>13 DEF h

LEMMA HeaderTwice ==
    ASSUME NEW k \in 1..3
    PROVE  LET h == Append(Headers, [key |-> Mandatory[k], len |-> 30])
           IN h # <<>> /\ ~CannotHash(h) /\ RepeatsKey(h)
<1> DEFINE e == [key |-> Mandatory[k], len |-> 30]
           S == {Headers[1], Headers[2], Headers[3]}
           h == Append(Headers, e)
<1>1. e.key = Mandatory[k]
  OBVIOUS
<1>2. Headers \in Seq(S \cup {e}) /\ Len(Headers) = 3
  <2> HIDE DEF S
  <2>1. Headers \in Seq(S)
    BY HeaderFacts DEF S
  <2> QED
    BY <2>1, HeaderFacts
<1> HIDE DEF S, e
<1>3. /\ Len(h) = 4 /\ DOMAIN h = 1..4 /\ h[4] = e
      /\ \A i \in 1..3 : h[i] = Headers[i]
  <2> DEFINE T == S \cup {e}
  <2>1. Headers \in Seq(T) /\ e \in T
    BY <1>2
  <2> HIDE DEF T
  <2>2. /\ h \in Seq(T) /\ Len(h) = Len(Headers) + 1
        /\ h[Len(Headers) + 1] = e
        /\ \A i \in 1..Len(Headers) : h[i] = Headers[i]
    BY <2>1, AppendProperties
  <2> HIDE DEF h
  <2> QED
    BY <1>2, <2>2
<1> HIDE DEF h
<1>4. /\ \A i \in 1..4 : i = 4 \/ i \in 1..3
      /\ \A i \in 1..3 : i = 1 \/ i = 2 \/ i = 3
  OBVIOUS
<1>5. /\ h[1].key = "Call-ID" /\ h[2].key = "From" /\ h[3].key = "To"
      /\ h[4].key = Mandatory[k]
      /\ Mandatory[k] \in {"Call-ID", "From", "To"}
  BY <1>1, <1>3, <1>4, HeaderFacts
<1>6. Pairs(h) = 1..4
  BY <1>3, <1>4, <1>5 DEF Pairs
<1>7. Keys(h) \subseteq {"Call-ID", "From", "To"}
  BY <1>4, <1>5, <1>6 DEF Keys
<1>8. RepeatsKey(h)
  <2>1. h[k].key = Mandatory[k] /\ k # 4 /\ k \in 1..4 /\ 4 \in 1..4
    BY <1>3, HeaderFacts
  <2> QED
    BY <1>5, <1>6, <2>1 DEF RepeatsKey
<1>9. h # <<>> /\ ~CannotHash(h)
  BY <1>3, <1>7 DEF CannotHash, Unhashable
<1> QED
  BY <1>8, <1>9 DEF h, e

LEMMA AttributeFacts ==
    ASSUME NEW n
    PROVE  LongerThan(<<[key |-> "accept-type", len |-> n]>>, 256) <=> n > 256
<1> DEFINE e == [key |-> "accept-type", len |-> n]
           l == <<e>>
<1>1. e.key = "accept-type" /\ e.len = n
  OBVIOUS
<1> HIDE DEF e
<1>2. DOMAIN l = {1} /\ l[1] = e
  OBVIOUS
<1> HIDE DEF l
<1>3. Pairs(l) = {1}
  BY <1>1, <1>2 DEF Pairs
<1>4. LongerThan(l, 256) <=> n > 256
  BY <1>1, <1>2, <1>3 DEF LongerThan
<1> QED
  BY <1>4 DEF l, e

LEMMA TelecomRequestFacts ==
    ASSUME NEW t \in KnownStates \X KnownMethods, NEW a, NEW b,
           NEW bad \in BOOLEAN, bad <=> (t \notin LegalTransitions \/ a # b)
    PROVE  Decided("telecom", TelecomRequest(t, a, b), bad)
<1> DEFINE r == TelecomRequest(t, a, b)
<1>1. /\ r.state = t[1] /\ r.method = t[2] /\ r.headers = Headers
      /\ r.sequence = a /\ r.expected_sequence = b
      /\ r.attributes = <<[key |-> "accept-type", len |-> 9]>>
      /\ r.declared = 32 /\ r.actual = 32
  BY DEF TelecomRequest
<1> HIDE DEF r
<1>2. ~LongerThan(r.attributes, 256)
  <2>1. ~(9 > 256)
    OBVIOUS
  <2> QED
    BY <1>1, <2>1, AttributeFacts
<1>3. <<r.state, r.method>> = t
  BY <1>1
<1>4. TelecomMade(r)
  BY <1>1, AllHeaders DEF TelecomMade
<1>5. bad <=> TelecomFlaw(r)
  BY <1>1, <1>2, <1>3, AllHeaders DEF TelecomFlaw
<1>6. Decided("telecom", r, bad)
  BY <1>4, <1>5, TelecomPlain
<1> QED
  BY <1>6 DEF r

\* The invitation with one thing changed.
LEMMA InviteFacts ==
    /\ DOMAIN Invite = {"state", "method", "headers", "sequence",
                        "expected_sequence", "attributes", "declared", "actual"}
    /\ Invite.state = "INIT" /\ Invite.method = "INVITE"
    /\ Invite.headers = Headers /\ Invite.sequence = 1
    /\ Invite.expected_sequence = 1
    /\ Invite.attributes = <<[key |-> "accept-type", len |-> 9]>>
    /\ Invite.declared = 32 /\ Invite.actual = 32
  BY DEF Invite, TelecomRequest

\* An invitation but for its headers, its length and its attributes.
LEMMA InvitePlain ==
    ASSUME NEW r, r.state = "INIT", r.method = "INVITE", r.sequence = 1,
           r.expected_sequence = 1, r.declared = 32, r.actual \in Nat,
           r.headers # <<>>, ~CannotHash(r.headers), NEW bad \in BOOLEAN,
           bad <=> \/ ~(MandatoryHeaders \subseteq Keys(r.headers))
                   \/ RepeatsKey(r.headers)
                   \/ r.actual # 32 \/ LongerThan(r.attributes, 256)
    PROVE  Decided("telecom", r, bad)
<1>1. TelecomMade(r)
  BY DEF TelecomMade, KnownMethods, KnownStates
<1>2. <<r.state, r.method>> \in LegalTransitions
  BY DEF LegalTransitions
<1>3. /\ ~(r.declared > 4096) /\ (r.declared # r.actual <=> r.actual # 32)
      /\ r.sequence = r.expected_sequence
  OBVIOUS
<1>4. bad <=> TelecomFlaw(r)
  BY <1>2, <1>3 DEF TelecomFlaw
<1> QED
  BY <1>1, <1>4, TelecomPlain

LEMMA InviteAttribute ==
    ASSUME NEW n, NEW bad \in BOOLEAN, bad <=> n > 256
    PROVE  Decided("telecom", WithAttribute(n), bad)
<1> DEFINE r == WithAttribute(n)
<1>1. /\ r.state = "INIT" /\ r.method = "INVITE" /\ r.headers = Headers
      /\ r.sequence = 1 /\ r.expected_sequence = 1
      /\ r.declared = 32 /\ r.actual = 32
  BY InviteFacts DEF WithAttribute
<1>2. r.attributes = <<[key |-> "accept-type", len |-> n]>>
  BY InviteFacts DEF WithAttribute
<1> HIDE DEF r
<1>3. LongerThan(r.attributes, 256) <=> n > 256
  BY <1>2, AttributeFacts
<1>4. r.actual \in Nat /\ r.actual = 32
  BY <1>1
<1>5. /\ r.headers # <<>> /\ ~CannotHash(r.headers) /\ ~RepeatsKey(r.headers)
      /\ MandatoryHeaders \subseteq Keys(r.headers)
  BY <1>1, AllHeaders
<1>6. bad <=> \/ ~(MandatoryHeaders \subseteq Keys(r.headers))
              \/ RepeatsKey(r.headers)
              \/ r.actual # 32 \/ LongerThan(r.attributes, 256)
  BY <1>3, <1>4, <1>5
<1>7. Decided("telecom", r, bad)
  BY <1>1, <1>4, <1>5, <1>6, InvitePlain
<1> QED
  BY <1>7 DEF r

LEMMA InviteHeaders ==
    ASSUME NEW h, h # <<>>, ~CannotHash(h),
           ~(MandatoryHeaders \subseteq Keys(h)) \/ RepeatsKey(h)
    PROVE  Stopped("telecom", [Invite EXCEPT !.headers = h])
<1> DEFINE r == [Invite EXCEPT !.headers = h]
<1>1. /\ r.state = "INIT" /\ r.method = "INVITE" /\ r.headers = h
      /\ r.sequence = 1 /\ r.expected_sequence = 1
      /\ r.declared = 32 /\ r.actual = 32
  BY InviteFacts
<1> HIDE DEF r
<1>2. /\ r.headers # <<>> /\ ~CannotHash(r.headers) /\ r.actual \in Nat
      /\ ~(MandatoryHeaders \subseteq Keys(r.headers)) \/ RepeatsKey(r.headers)
  BY <1>1
<1>3. Decided("telecom", r, TRUE)
  BY <1>1, <1>2, InvitePlain
<1> QED
  BY <1>3 DEF Stopped, r

LEMMA InviteActual ==
    ASSUME NEW n \in Nat, n # 32
    PROVE  Stopped("telecom", [Invite EXCEPT !.actual = n])
<1> DEFINE r == [Invite EXCEPT !.actual = n]
<1>1. /\ r.state = "INIT" /\ r.method = "INVITE" /\ r.headers = Headers
      /\ r.sequence = 1 /\ r.expected_sequence = 1
      /\ r.declared = 32 /\ r.actual = n
  BY InviteFacts
<1> HIDE DEF r
<1>2. /\ r.headers # <<>> /\ ~CannotHash(r.headers) /\ r.actual \in Nat
      /\ r.actual # 32
  BY <1>1, AllHeaders
<1>3. Decided("telecom", r, TRUE)
  BY <1>1, <1>2, InvitePlain
<1> QED
  BY <1>3 DEF Stopped, r

LEMMA TelecomFits ==
    ASSUME NEW config \in ConfigsOf("telecom"), NEW draw \in Nat
    PROVE  AllFit("telecom", config, telecom_test_set(config, draw))
<1> DEFINE legal == <<<<"INIT", "INVITE">>, <<"RINGING", "ACK">>,
                      <<"ESTABLISHED", "BYE">>>>
           illegal == <<<<"INIT", "ACK">>, <<"INIT", "BYE">>,
                        <<"ESTABLISHED", "INVITE">>>>
           n0 == config.limit.attribute
           oversized == WithAttribute(n0 + 1 + draw)
           m1 == [i \in 1..config.missing_header |->
                    [Invite EXCEPT !.headers = RemoveAt(Headers, Turn(3, i))]]
           Twice(i) == Append(Headers, [key |-> Cycle(Mandatory, i), len |-> 30])
           m2 == [i \in 1..config.duplicate_identity |->
                    [Invite EXCEPT !.headers = Twice(i)]]
           m3 == [i \in 1..config.mismatched_length |->
                    [Invite EXCEPT !.actual = 232 + draw]]
           m4 == [i \in 1..config.invalid_sequence |->
                    TelecomRequest(<<"INIT", "INVITE">>, 0, 4 + i)]
           m5 == [i \in 1..config.invalid_transition |->
                    TelecomRequest(Cycle(illegal, i), 1, 1)]
           plain == [i \in 1..config.valid |->
                       TelecomRequest(Cycle(legal, i), i, i)]
           c1 == Cases("valid", plain, "accepted")
           c2 == [i \in 1..(2 * config.boundary) |-> TelecomBoundary(config, i)]
           large == [i \in 1..config.oversized_field |-> oversized]
           c3 == Cases("oversized", large, "blocked")
           c4 == Cases("malformed", m1 \o m2 \o m3 \o m4 \o m5, "blocked")
           strict == config.limit = EnforcedLimits["telecom"]
<1>1. telecom_test_set(config, draw) = c1 \o c2 \o c3 \o c4
  <2>1. \A i : [Invite EXCEPT !.headers = Append(@, [key |-> Cycle(Mandatory, i),
                                                     len |-> 30])]
               = [Invite EXCEPT !.headers = Twice(i)]
    BY InviteFacts
  <2> QED
    BY <2>1 DEF telecom_test_set
<1>2. /\ config.valid \in Nat /\ config.boundary \in Nat
      /\ config.oversized_field \in Nat /\ config.missing_header \in Nat
      /\ config.duplicate_identity \in Nat
      /\ config.mismatched_length \in Nat
      /\ config.invalid_sequence \in Nat /\ config.invalid_transition \in Nat
      /\ n0 \in Nat \ {0}
  BY DEF ConfigsOf, Limits
<1>3. strict => n0 = 256
  BY DEF EnforcedLimits, TelecomLimits
<1> HIDE DEF strict, n0
<1>4. ASSUME NEW i \in Nat \ {0}
      PROVE  /\ Turn(3, i) \in 1..3 /\ Cycle(Mandatory, i) = Mandatory[Turn(3, i)]
             /\ Cycle(legal, i) \in LegalTransitions
             /\ Cycle(illegal, i) \in
                  (KnownStates \X KnownMethods) \ LegalTransitions
  <2>1. Turn(3, i) \in 1..3
    <3>1. 3 \in Nat \ {0}
      OBVIOUS
    <3> QED
      BY <3>1, TurnFacts
  <2>2. /\ Cycle(Mandatory, i) = Mandatory[Turn(3, i)]
        /\ Cycle(legal, i) = legal[Turn(3, i)]
        /\ Cycle(illegal, i) = illegal[Turn(3, i)]
    BY DEF Cycle, Mandatory
  <2>3. \A k \in 1..3 : legal[k] \in LegalTransitions
    BY DEF LegalTransitions
  <2>4. \A k \in 1..3 :
          illegal[k] \in (KnownStates \X KnownMethods) \ LegalTransitions
    BY DEF LegalTransitions, KnownStates, KnownMethods
  <2> QED
    BY <2>1, <2>2, <2>3, <2>4
<1>5. LegalTransitions \subseteq KnownStates \X KnownMethods
  BY DEF LegalTransitions, KnownStates, KnownMethods
<1> HIDE DEF legal, illegal
<1>6. AllFit("telecom", config, c1)
  <2> DEFINE n == config.valid
  <2>1. ASSUME NEW i \in 1..n
        PROVE  Fits("telecom", config, Case("valid", plain[i], "accepted"))
    <3>1. i \in Nat \ {0} /\ plain[i] = TelecomRequest(Cycle(legal, i), i, i)
      BY <1>2
    <3>2. Cycle(legal, i) \in KnownStates \X KnownMethods
      BY <1>4, <1>5, <3>1
    <3>3. FALSE <=> (Cycle(legal, i) \notin LegalTransitions \/ i # i)
      BY <1>4, <3>1
    <3>4. Decided("telecom", plain[i], FALSE)
      BY <3>1, <3>2, <3>3, TelecomRequestFacts
    <3> HIDE DEF plain
    <3> QED
      BY <3>4, CaseFits DEF Decisions
  <2>2. n \in Nat /\ plain = [i \in 1..n |-> plain[i]]
    BY <1>2
  <2> HIDE DEF plain
  <2>3. IsList(plain) /\ DOMAIN plain = 1..n
    BY <2>2, ListOf
  <2> QED
    BY <2>1, <2>3, CasesFit
<1>7. AllFit("telecom", config, c2)
  <2> DEFINE n == 2 * config.boundary
             at == WithAttribute(n0)
             over == WithAttribute(n0 + 1)
             x == n0 > 256
             y == n0 + 1 > 256
  <2>1. x \in BOOLEAN /\ y \in BOOLEAN
    OBVIOUS
  <2>2. strict => ~x /\ y
    BY <1>3
  <2> HIDE DEF x, y
  <2>3. Decided("telecom", at, x) /\ Decided("telecom", over, y)
    BY <2>1, InviteAttribute DEF x, y
  <2> HIDE DEF at, over
  <2>4. /\ Fits("telecom", config, Case("boundary", at, "accepted"))
        /\ Fits("telecom", config, Case("boundary", over, "blocked"))
    BY <2>1, <2>2, <2>3, CaseFits DEF Decisions, strict
  <2>5. \A i \in 1..n : Fits("telecom", config, TelecomBoundary(config, i))
    BY <2>4 DEF TelecomBoundary, at, over, n0
  <2>6. /\ n \in Nat /\ c2 = [i \in 1..n |-> c2[i]]
        /\ \A i \in 1..n : c2[i] = TelecomBoundary(config, i)
    BY <1>2
  <2> HIDE DEF c2, n
  <2> QED
    BY <2>5, <2>6, Copies
<1>8. AllFit("telecom", config, c3)
  <2> DEFINE k == n0 + 1 + draw
             bad == k > 256
             n == config.oversized_field
  <2>1. bad \in BOOLEAN /\ (strict => bad)
    BY <1>2, <1>3
  <2> HIDE DEF k, bad
  <2>2. Decided("telecom", oversized, bad)
    BY <2>1, InviteAttribute DEF bad, k
  <2>3. n \in Nat /\ large = [i \in 1..n |-> large[i]]
        /\ \A i \in 1..n : large[i] = oversized
    BY <1>2
  <2> HIDE DEF oversized, large
  <2>4. Fits("telecom", config, Case("oversized", oversized, "blocked"))
    BY <2>1, <2>2, CaseFits DEF Decisions, strict
  <2>5. IsList(large) /\ DOMAIN large = 1..n
    BY <2>3, ListOf
  <2> QED
    BY <2>3, <2>4, <2>5, CasesFit
<1>9. AllStopped("telecom", m1)
  <2> DEFINE n == config.missing_header
  <2>1. ASSUME NEW i \in 1..n
        PROVE  Stopped("telecom", m1[i])
    <3> DEFINE h == RemoveAt(Headers, Turn(3, i))
    <3>1. Turn(3, i) \in 1..3
      BY <1>2, <1>4
    <3>2. h # <<>> /\ ~CannotHash(h) /\ ~(MandatoryHeaders \subseteq Keys(h))
      BY <3>1, HeaderMissing
    <3>3. m1[i] = [Invite EXCEPT !.headers = h]
      OBVIOUS
    <3> HIDE DEF h, m1
    <3> QED
      BY <3>2, <3>3, InviteHeaders
  <2>2. n \in Nat /\ m1 = [i \in 1..n |-> m1[i]]
    BY <1>2
  <2> HIDE DEF m1
  <2> QED
    BY <2>1, <2>2, Copies
<1>10. AllStopped("telecom", m2)
  <2> DEFINE n == config.duplicate_identity
  <2>1. ASSUME NEW i \in 1..n
        PROVE  Stopped("telecom", m2[i])
    <3> DEFINE h == Twice(i)
    <3>1. /\ Turn(3, i) \in 1..3
          /\ h = Append(Headers, [key |-> Mandatory[Turn(3, i)], len |-> 30])
      BY <1>2, <1>4
    <3>2. m2[i] = [Invite EXCEPT !.headers = h]
      OBVIOUS
    <3> HIDE DEF h, m2
    <3>3. h # <<>> /\ ~CannotHash(h) /\ RepeatsKey(h)
      BY <3>1, HeaderTwice
    <3> QED
      BY <3>2, <3>3, InviteHeaders
  <2>2. n \in Nat /\ m2 = [i \in 1..n |-> m2[i]]
    BY <1>2
  <2> HIDE DEF m2
  <2> QED
    BY <2>1, <2>2, Copies
<1>11. AllStopped("telecom", m3)
  <2> DEFINE n == config.mismatched_length
             k == 232 + draw
  <2>1. k \in Nat /\ k # 32
    OBVIOUS
  <2> HIDE DEF k
  <2>2. Stopped("telecom", [Invite EXCEPT !.actual = k])
    BY <2>1, InviteActual
  <2>3. /\ n \in Nat /\ m3 = [i \in 1..n |-> m3[i]]
        /\ \A i \in 1..n : Stopped("telecom", m3[i])
    BY <1>2, <2>2 DEF k
  <2> HIDE DEF m3
  <2> QED
    BY <2>3, Copies
<1>12. AllStopped("telecom", m4)
  <2> DEFINE n == config.invalid_sequence
             t == <<"INIT", "INVITE">>
  <2>1. t \in KnownStates \X KnownMethods
    BY DEF KnownStates, KnownMethods
  <2> HIDE DEF t
  <2>2. ASSUME NEW i \in 1..n
        PROVE  Stopped("telecom", TelecomRequest(t, 0, 4 + i))
    <3>1. 0 # 4 + i
      BY <1>2
    <3> DEFINE j == 4 + i
    <3> HIDE DEF j
    <3>2. Decided("telecom", TelecomRequest(t, 0, j), TRUE)
      BY <2>1, <3>1, TelecomRequestFacts DEF j
    <3> QED
      BY <3>2 DEF Stopped, j
  <2>3. /\ n \in Nat /\ m4 = [i \in 1..n |-> m4[i]]
        /\ \A i \in 1..n : Stopped("telecom", m4[i])
    BY <1>2, <2>2 DEF t
  <2> HIDE DEF m4
  <2> QED
    BY <2>3, Copies
<1>13. AllStopped("telecom", m5)
  <2> DEFINE n == config.invalid_transition
  <2>1. ASSUME NEW i \in 1..n
        PROVE  Stopped("telecom", m5[i])
    <3>1. i \in Nat \ {0} /\ m5[i] = TelecomRequest(Cycle(illegal, i), 1, 1)
      BY <1>2
    <3>2. Cycle(illegal, i) \in (KnownStates \X KnownMethods) \ LegalTransitions
      BY <1>4, <3>1
    <3>3. Decided("telecom", TelecomRequest(Cycle(illegal, i), 1, 1), TRUE)
      BY <3>2, TelecomRequestFacts
    <3> HIDE DEF m5
    <3> QED
      BY <3>1, <3>3 DEF Stopped
  <2>2. n \in Nat /\ m5 = [i \in 1..n |-> m5[i]]
    BY <1>2
  <2> HIDE DEF m5
  <2> QED
    BY <2>1, <2>2, Copies
<1> HIDE DEF m1, m2, m3, m4, m5
<1>14. AllStopped("telecom", m1 \o m2 \o m3 \o m4 \o m5)
  BY <1>9, <1>10, <1>11, <1>12, <1>13, JoinedFit
<1>15. AllFit("telecom", config, c4)
  BY <1>14, StoppedFit
<1> HIDE DEF c1, c2, c3, c4
<1> QED
  BY <1>1, <1>6, <1>7, <1>8, <1>15, JoinedFit

\* A test set that a generator made.
LEMMA GenerateFits ==
    ASSUME NEW domain \in {"vpn", "telecom"}, NEW config \in ConfigsOf(domain),
           NEW draw \in Nat
    PROVE  LET d == generate(domain, config, draw)
           IN \A c \in DOMAIN d.expected :
                /\ process(domain, "baseline", d.inputs[c]) = Accepted
                /\ process(domain, "mitigated", d.inputs[c])
                     \in {Accepted, Blocked(TRUE)}
                /\ \/ process(domain, "mitigated", d.inputs[c]).decision =
                        d.expected[c]
                   \/ /\ d.category[c] \in {"boundary", "oversized"}
                      /\ config.limit # EnforcedLimits[domain]
<1> DEFINE all == IF domain = "vpn" THEN vpn_test_set(config, draw)
                  ELSE telecom_test_set(config, draw)
           d == generate(domain, config, draw)
<1>1. AllFit(domain, config, all)
  <2>1. CASE domain = "vpn"
    BY <2>1, VpnFits
  <2>2. CASE domain = "telecom"
    BY <2>2, TelecomFits
  <2> QED
    BY <2>1, <2>2
<1>2. /\ d.expected = [i \in DOMAIN all |-> all[i].expected]
      /\ d.inputs = [i \in DOMAIN all |-> all[i].input]
      /\ d.category = [i \in DOMAIN all |-> all[i].category]
  BY DEF generate
<1> HIDE DEF all, d
<1>3. \A c \in DOMAIN d.expected :
        /\ c \in DOMAIN all /\ d.expected[c] = all[c].expected
        /\ d.inputs[c] = all[c].input /\ d.category[c] = all[c].category
  BY <1>2
<1>4. \A c \in DOMAIN all : Fits(domain, config, all[c])
  BY <1>1 DEF AllFit
<1>5. \A c \in DOMAIN d.expected :
        /\ process(domain, "baseline", d.inputs[c]) = Accepted
        /\ process(domain, "mitigated", d.inputs[c]) \in {Accepted, Blocked(TRUE)}
        /\ \/ process(domain, "mitigated", d.inputs[c]).decision = d.expected[c]
           \/ /\ d.category[c] \in {"boundary", "oversized"}
              /\ config.limit # EnforcedLimits[domain]
  <2> TAKE c \in DOMAIN d.expected
  <2>1. Fits(domain, config, all[c])
    BY <1>3, <1>4
  <2> DEFINE x == all[c]
  <2>2. /\ x.expected = d.expected[c] /\ x.input = d.inputs[c]
        /\ x.category = d.category[c]
    BY <1>3
  <2>3. Fits(domain, config, x)
    BY <2>1
  <2> HIDE DEF x
  <2> QED
    BY <2>2, <2>3 DEF Fits
<1> QED
  BY <1>5 DEF d

\* A run on a generated test set.
LEMMA GeneratedFacts ==
    ASSUME RunInv, Generated
    PROVE  /\ test_set = cases /\ test_set.domain \in {"vpn", "telecom"}
           /\ \A m \in Modes : DOMAIN results[m] = DOMAIN test_set.expected
           /\ \A c \in DOMAIN test_set.expected :
                /\ results["baseline"][c] = Accepted
                /\ results["mitigated"][c] \in {Accepted, Blocked(TRUE)}
                /\ \/ results["mitigated"][c].decision = test_set.expected[c]
                   \/ /\ test_set.category[c] \in {"boundary", "oversized"}
                      /\ test_set.config.limit # EnforcedLimits[test_set.domain]
<1>1. pc = "done" /\ test_set.config # None
  BY DEF Generated
<1>2. /\ definition \in Definitions /\ test_set \in definition.holds
      /\ cases \in definition.holds
      /\ \A m \in Modes : DOMAIN results[m] = DOMAIN cases.expected
  BY <1>1, DoneFacts
<1>3. cases.domain = definition.domain
  BY <1>1 DEF RunInv, ReadInv
<1>4. /\ definition.holds = {test_set} /\ test_set.inputs # None
      /\ test_set.domain \in {"vpn", "telecom"}
      /\ test_set.config \in ConfigsOf(test_set.domain)
      /\ \E r \in Draws : test_set = generate(test_set.domain, test_set.config, r)
  BY <1>1, <1>2, GeneratedAssumption
<1>5. test_set = cases
  BY <1>2, <1>4
<1> DEFINE domain == test_set.domain
           config == test_set.config
           d == test_set
<1>6. PICK r \in Nat : d = generate(domain, config, r)
  BY <1>4, GeneratedAssumption
<1>7. \A m \in Modes : DOMAIN results[m] = DOMAIN d.expected
  BY <1>2, <1>5
<1>8. \A m \in Modes : \A c \in DOMAIN d.expected :
        results[m][c] = process(domain, m, d.inputs[c])
  BY <1>1, <1>3, <1>4, <1>5, <1>7 DEF RunInv, DecidedInv
<1>9. \A c \in DOMAIN d.expected :
        /\ results["baseline"][c] = process(domain, "baseline", d.inputs[c])
        /\ results["mitigated"][c] = process(domain, "mitigated", d.inputs[c])
  BY <1>8 DEF Modes
<1>10. domain \in {"vpn", "telecom"} /\ config \in ConfigsOf(domain)
  BY <1>4
<1> HIDE DEF domain, config, d
<1>11. \A c \in DOMAIN d.expected :
         /\ process(domain, "baseline", d.inputs[c]) = Accepted
         /\ process(domain, "mitigated", d.inputs[c]) \in {Accepted, Blocked(TRUE)}
         /\ \/ process(domain, "mitigated", d.inputs[c]).decision = d.expected[c]
            \/ /\ d.category[c] \in {"boundary", "oversized"}
               /\ config.limit # EnforcedLimits[domain]
  BY <1>6, <1>10, GenerateFits
<1>12. \A c \in DOMAIN d.expected :
         /\ results["baseline"][c] = Accepted
         /\ results["mitigated"][c] \in {Accepted, Blocked(TRUE)}
         /\ \/ results["mitigated"][c].decision = d.expected[c]
            \/ /\ d.category[c] \in {"boundary", "oversized"}
               /\ config.limit # EnforcedLimits[domain]
  <2> TAKE c \in DOMAIN d.expected
  <2> DEFINE p == process(domain, "mitigated", d.inputs[c])
             q == process(domain, "baseline", d.inputs[c])
  <2>1. results["baseline"][c] = q /\ results["mitigated"][c] = p
    BY <1>9
  <2>2. /\ q = Accepted /\ p \in {Accepted, Blocked(TRUE)}
        /\ \/ p.decision = d.expected[c]
           \/ /\ d.category[c] \in {"boundary", "oversized"}
              /\ config.limit # EnforcedLimits[domain]
    BY <1>11
  <2> HIDE DEF p, q
  <2> QED
    BY <2>1, <2>2
<1> QED
  BY <1>4, <1>5, <1>7, <1>12 DEF domain, config, d

\* LabelsMatchMitigation: whatever the configuration and whatever is drawn, the
\* mitigation decides each generated case as the generator expects, except for
\* the boundary and oversized ones where its limits are others.
THEOREM LabelsMatch == Spec => []LabelsMatchMitigation
<1>1. RunInv => LabelsMatchMitigation
  <2> SUFFICES ASSUME RunInv, Generated, NEW c \in DOMAIN results["mitigated"]
               PROVE  \/ /\ results["mitigated"][c].decision = test_set.expected[c]
                         /\ ~results["mitigated"][c].errored
                      \/ /\ test_set.category[c] \in {"boundary", "oversized"}
                         /\ test_set.config.limit # EnforcedLimits[test_set.domain]
    BY DEF LabelsMatchMitigation
  <2>1. c \in DOMAIN test_set.expected
    BY GeneratedFacts DEF Modes
  <2>2. Accepted.errored = FALSE /\ Blocked(TRUE).errored = FALSE
    BY DEF Accepted, Blocked
  <2> QED
    BY <2>1, <2>2, GeneratedFacts
<1> QED
  BY <1>1, Invariance, PTL
-----------------------------------------------------------------------------
(***************************************************************************)
(* Perfect results.                                                        *)
(***************************************************************************)

\* How SumFunction goes on from sum g of the smaller sets.
SumStep(f, g) ==
    [s \in SUBSET DOMAIN f |->
       IF s = {} THEN 0
       ELSE f[CHOOSE x \in s : TRUE] + g[s \ {CHOOSE x \in s : TRUE}]]

LEMMA SumIs ==
    ASSUME NEW f
    PROVE  SumFunction(f) = (CHOOSE g : g = SumStep(f, g))[DOMAIN f]
  BY DEF SumFunction, SumFunctionOnSet, FoldFunctionOnSet, MapThenFoldSet,
         SumStep

\* Nothing but zeros: there is a sum, and by the least counterexample it is 0.
LEMMA SumOfZeros ==
    ASSUME NEW S, IsFiniteSet(S)
    PROVE  SumFunction([c \in S |-> 0]) = 0
<1> DEFINE f == [c \in S |-> 0]
           g == CHOOSE g : g = SumStep(f, g)
           wrong == {Cardinality(s) : s \in {t \in SUBSET S : g[t] # 0}}
<1>1. g = SumStep(f, g)
  <2> DEFINE zero == [s \in SUBSET S |-> 0]
  <2>1. ASSUME NEW s \in SUBSET S, s # {}
        PROVE  f[CHOOSE x \in s : TRUE] + zero[s \ {CHOOSE x \in s : TRUE}] = 0
    <3> DEFINE x == CHOOSE x \in s : TRUE
    <3>1. x \in s
      BY <2>1
    <3> HIDE DEF x
    <3>2. x \in S /\ s \ {x} \in SUBSET S
      BY <3>1
    <3> QED
      BY <3>2 DEF x
  <2>2. zero = SumStep(f, zero)
    BY <2>1 DEF SumStep
  <2> HIDE DEF zero, f
  <2> QED
    BY <2>2
<1>2. SumFunction(f) = g[S]
  BY SumIs
<1>3. \A s \in SUBSET S : IsFiniteSet(s) /\ Cardinality(s) \in Nat
  BY FS_Subset, FS_CardinalityType
<1> HIDE DEF g
<1>4. ASSUME NEW s \in SUBSET S, s # {},
             \A t \in SUBSET S : Cardinality(t) < Cardinality(s) => g[t] = 0
      PROVE  g[s] = 0
  <2> DEFINE x == CHOOSE x \in s : TRUE
             t == s \ {x}
  <2>1. x \in s
    BY <1>4
  <2>2. g[s] = f[x] + g[t]
    <3>1. SumStep(f, g)[s] = f[x] + g[t]
      BY <1>4 DEF SumStep
    <3> QED
      BY <1>1, <3>1
  <2> HIDE DEF x
  <2>3. t \in SUBSET S /\ f[x] = 0
    BY <2>1
  <2>4. Cardinality(t) = Cardinality(s) - 1
    BY <1>3, <2>1, FS_RemoveElement
  <2>5. Cardinality(t) < Cardinality(s)
    BY <1>3, <2>4
  <2> HIDE DEF t, f
  <2>6. g[t] = 0
    BY <1>4, <2>3, <2>5
  <2> QED
    BY <2>2, <2>3, <2>6
<1>5. g[{}] = 0
  <2>1. SumStep(f, g)[{}] = 0
    BY DEF SumStep
  <2> QED
    BY <1>1, <2>1
<1>6. wrong = {}
  <2> SUFFICES ASSUME wrong # {} PROVE FALSE
    OBVIOUS
  <2>1. wrong \subseteq Nat
    BY <1>3
  <2>2. Min(wrong) \in wrong /\ \A y \in wrong : Min(wrong) <= y
    <3> HIDE DEF wrong
    <3> QED
      BY <2>1, MinOfNaturals
  <2>3. PICK s \in SUBSET S : g[s] # 0 /\ Cardinality(s) = Min(wrong)
    BY <2>2
  <2>4. \A t \in SUBSET S : Cardinality(t) < Cardinality(s) => g[t] = 0
    <3> SUFFICES ASSUME NEW t \in SUBSET S, Cardinality(t) < Cardinality(s),
                        g[t] # 0
                 PROVE  FALSE
      OBVIOUS
    <3>1. Cardinality(t) \in wrong
      OBVIOUS
    <3> HIDE DEF wrong
    <3>2. Cardinality(s) <= Cardinality(t)
      BY <2>2, <2>3, <3>1
    <3> QED
      BY <1>3, <3>2
  <2>5. s # {}
    BY <1>5, <2>3
  <2> QED
    BY <1>4, <2>3, <2>4, <2>5
<1>7. g[S] = 0
  <2>1. S \in SUBSET S
    OBVIOUS
  <2> QED
    BY <1>6, <2>1
<1> HIDE DEF f
<1>8. SumFunction(f) = 0
  BY <1>2, <1>7
<1> QED
  BY <1>8 DEF f

\* The number of cases of each kind that all were decided right, or wrong.
LEMMA AllRight ==
    ASSUME NEW expected, NEW res, Sample(res),
           DOMAIN res = DOMAIN expected,
           \A c \in DOMAIN res : ~res[c].errored /\ res[c].decision = expected[c],
           NEW d, \E c \in DOMAIN expected : expected[c] = d
    PROVE  \E h \in Nat \ {0} :
             /\ HitRate(res, expected, d) = [num |-> h, den |-> h]
             /\ MissRate(res, expected, d) = [num |-> 0, den |-> h]
<1> DEFINE H == Hits(res, expected, d)
           M == Misses(res, expected, d)
           h == Cardinality(H)
<1>1. IsFiniteSet(H) /\ h \in Nat /\ Cardinality(M) \in Nat
  BY CountFacts
<1>2. M = {} /\ \E c \in DOMAIN expected : c \in H
  BY DEF Hits, Misses, Scored
<1>3. HitRate(res, expected, d) = Rate(h, h + Cardinality(M))
  BY DEF HitRate
<1>4. MissRate(res, expected, d) = Rate(Cardinality(M), Cardinality(M) + h)
  BY DEF MissRate
<1> HIDE DEF H, M
<1>5. Cardinality(M) = 0 /\ h # 0
  BY <1>1, <1>2, FS_EmptySet
<1> HIDE DEF h
<1>6. Rate(h, h) = [num |-> h, den |-> h] /\ Rate(0, h) = [num |-> 0, den |-> h]
  BY <1>5 DEF Rate
<1>7. h \in Nat \ {0} /\ h + 0 = h /\ 0 + h = h
  BY <1>1, <1>5
<1> QED
  BY <1>3, <1>4, <1>5, <1>6, <1>7

LEMMA AllPassed ==
    ASSUME NEW expected, NEW res, Sample(res),
           \A c \in DOMAIN res : res[c].decision = "accepted"
    PROVE  /\ HitRate(res, expected, "blocked").num = 0
           /\ HitRate(res, expected, "blocked").den \in Nat \ {0}
<1> DEFINE H == Hits(res, expected, "blocked")
           k == Cardinality(Misses(res, expected, "blocked"))
<1>1. k \in Nat
  BY CountFacts
<1>2. H = {}
  BY DEF Hits, Scored
<1>3. HitRate(res, expected, "blocked") = Rate(Cardinality(H), Cardinality(H) + k)
  BY DEF HitRate
<1> HIDE DEF H, k
<1>4. Cardinality(H) = 0
  BY <1>2, FS_EmptySet
<1>5. Cardinality(H) + k = k
  BY <1>1, <1>4
<1> QED
  BY <1>1, <1>3, <1>4, <1>5 DEF Rate

\* The strategies of the platform take no time that is counted.
LEMMA NoLatency ==
    ASSUME NEW expected, NEW res, Sample(res),
           \A c \in DOMAIN res : res[c].latency_ms = 0
    PROVE  LET l == calculate_metrics(res, expected).mean_latency_ms
           IN l.num = 0 /\ l.den \in Nat \ {0}
<1> DEFINE f == [c \in DOMAIN res |-> res[c].latency_ms]
           n == Cardinality(DOMAIN res)
           l == calculate_metrics(res, expected).mean_latency_ms
<1>1. IsFiniteSet(DOMAIN res)
  BY DEF Sample
<1>2. n \in Nat
  BY <1>1, FS_CardinalityType
<1>3. f = [c \in DOMAIN res |-> 0]
  OBVIOUS
<1>4. l = Rate(SumFunction(f), n)
  BY RatesAre
<1> HIDE DEF f, n, l
<1>5. SumFunction(f) = 0
  BY <1>1, <1>3, SumOfZeros
<1>6. l.num = 0 /\ l.den \in Nat \ {0}
  BY <1>2, <1>4, <1>5 DEF Rate
<1> QED
  BY <1>6 DEF l

\* A baseline that passes everything against a mitigation that is always right.
LEMMA PerfectReport ==
    ASSUME NEW expected, IsFiniteSet(DOMAIN expected),
           Cardinality(DOMAIN expected) >= 5,
           NEW base, Sample(base), NEW mit, Sample(mit),
           DOMAIN base = DOMAIN expected, DOMAIN mit = DOMAIN expected,
           \A c \in DOMAIN expected :
              /\ base[c].decision = "accepted" /\ base[c].latency_ms = 0
              /\ mit[c].decision = expected[c] /\ mit[c].latency_ms = 0
              /\ ~mit[c].errored,
           \A d \in Decisions : \E c \in DOMAIN expected : expected[c] = d
    PROVE  compute_verdict(compare(Cardinality(DOMAIN expected),
                                   calculate_metrics(base, expected),
                                   calculate_metrics(mit, expected)),
                           None).label = "effective"
<1> DEFINE b == calculate_metrics(base, expected)
           m == calculate_metrics(mit, expected)
           n == Cardinality(DOMAIN expected)
           r == compare(n, b, m)
<1>1. n \in Nat /\ ~(n < 5)
  <2>1. n \in Nat
    BY FS_CardinalityType
  <2> QED
    BY <2>1
<1>2. PICK h \in Nat \ {0} :
        /\ HitRate(mit, expected, "blocked") = [num |-> h, den |-> h]
        /\ MissRate(mit, expected, "blocked") = [num |-> 0, den |-> h]
  BY AllRight DEF Decisions
<1>3. PICK g \in Nat \ {0} :
        /\ HitRate(mit, expected, "accepted") = [num |-> g, den |-> g]
        /\ MissRate(mit, expected, "accepted") = [num |-> 0, den |-> g]
  BY AllRight DEF Decisions
<1>4. /\ m.block_rate = HitRate(mit, expected, "blocked")
      /\ m.valid_acceptance_rate = HitRate(mit, expected, "accepted")
      /\ m.false_positive_rate = MissRate(mit, expected, "accepted")
      /\ m.false_negative_rate = MissRate(mit, expected, "blocked")
      /\ b.block_rate = HitRate(base, expected, "blocked")
  BY RatesAre
<1>5. b.block_rate.num = 0 /\ b.block_rate.den \in Nat \ {0}
  BY <1>4, AllPassed
<1>6. /\ b.mean_latency_ms.num = 0 /\ b.mean_latency_ms.den \in Nat \ {0}
      /\ m.mean_latency_ms.num = 0 /\ m.mean_latency_ms.den \in Nat \ {0}
  BY NoLatency
<1> HIDE DEF b, m, n
<1>7. /\ r.total_cases = n /\ r.mitigation_metrics = m
      /\ r.block_rate_improvement = Minus(m.block_rate, b.block_rate)
      /\ r.latency_overhead_ms = Minus(m.mean_latency_ms, b.mean_latency_ms)
  BY DEF compare
<1> HIDE DEF r
<1>8. Failing(r) = {}
  <2>1. AtMost(m.false_positive_rate, 5) /\ AtMost(m.false_negative_rate, 10)
    BY <1>2, <1>3, <1>4 DEF AtMost
  <2>2. AtLeast(m.valid_acceptance_rate, 95)
    BY <1>3, <1>4 DEF AtLeast
  <2>3. r.latency_overhead_ms.num <= 100 * r.latency_overhead_ms.den
    <3> DEFINE x == m.mean_latency_ms
               y == b.mean_latency_ms
    <3>1. /\ Minus(x, y).num = 0 * y.den - 0 * x.den
          /\ Minus(x, y).den = x.den * y.den
      BY <1>6 DEF Minus
    <3>2. x.den * y.den \in Nat
      BY <1>6, ProductFacts
    <3>3. 0 * y.den - 0 * x.den = 0
      BY <1>6
    <3> DEFINE z == x.den * y.den
    <3> HIDE DEF x, y, z
    <3>4. z \in Nat /\ Minus(x, y).num = 0 /\ Minus(x, y).den = z
      BY <3>1, <3>2, <3>3 DEF z
    <3> QED
      BY <1>7, <3>4 DEF x, y
  <2> DEFINE v == r.mitigation_metrics
             l == r.latency_overhead_ms
  <2>4. v = m
    BY <1>7
  <2>5. l.num <= 100 * l.den
    BY <2>3
  <2> HIDE DEF l, v
  <2>6. /\ AtMost(v.false_positive_rate, 5) /\ AtMost(v.false_negative_rate, 10)
        /\ AtLeast(v.valid_acceptance_rate, 95)
    BY <2>1, <2>2, <2>4
  <2>7. /\ "max_false_positive_rate" \notin Failing(r)
        /\ "max_false_negative_rate" \notin Failing(r)
        /\ "min_valid_acceptance_rate" \notin Failing(r)
        /\ "max_latency_overhead_ms" \notin Failing(r)
        /\ Failing(r) \subseteq
             {"max_false_positive_rate", "max_false_negative_rate",
              "min_valid_acceptance_rate", "max_latency_overhead_ms"}
    BY <2>5, <2>6, MeetsFacts DEF l, v
  <2> QED
    BY <2>7
<1>9. Improved(r, "min_block_rate_improvement_effective")
  <2> DEFINE y == b.block_rate
             k == y.den
             z == h * k
  <2>1. m.block_rate = [num |-> h, den |-> h]
    BY <1>2, <1>4
  <2>2. /\ Minus(m.block_rate, y).num = h * k - 0 * h
        /\ Minus(m.block_rate, y).den = h * k
    BY <1>5, <2>1 DEF Minus
  <2>3. z \in Nat /\ h * k - 0 * h = z
    BY <1>2, <1>5, ProductFacts
  <2> HIDE DEF y, k, z
  <2>4. Minus(m.block_rate, y).num = z /\ Minus(m.block_rate, y).den = z
    BY <2>2, <2>3 DEF z
  <2>5. AtLeast(Minus(m.block_rate, y), 50)
    BY <2>3, <2>4 DEF AtLeast
  <2> QED
    BY <1>7, <2>5 DEF Improved, VerdictThresholds, y
<1>10. compute_verdict(r, None).label = "effective"
  BY <1>1, <1>7, <1>8, <1>9 DEF compute_verdict, VerdictResult, VerdictThresholds
<1> QED
  BY <1>10 DEF r, b, m, n

\* PerfectIsEffective: on a generated dataset with the limits that it enforces
\* the mitigation is right on every case, and so all that its verdict can miss
\* is cases: five of them, with a valid and a malicious one.
THEOREM PerfectEffective == Spec => []PerfectIsEffective
<1>1. RunInv => PerfectIsEffective
  <2> SUFFICES ASSUME RunInv, Generated,
                      test_set.config.limit = EnforcedLimits[test_set.domain]
               PROVE  verdict.label = "effective" <=>
                        /\ Cardinality(DOMAIN test_set.expected)
                             >= VerdictThresholds.min_total_cases
                        /\ Range(test_set.expected) = Decisions
    BY DEF PerfectIsEffective
  <2> DEFINE expected == test_set.expected
             base == results["baseline"]
             mit == results["mitigated"]
             n == Cardinality(DOMAIN expected)
             r == compare(n, calculate_metrics(base, expected),
                          calculate_metrics(mit, expected))
  <2>1. /\ pc = "done" /\ definition \in Definitions
        /\ test_set \in definition.holds
        /\ Sample(base) /\ Sample(mit)
        /\ verdict = compute_verdict(r, None)
    BY DoneFacts DEF Generated, Modes, Report
  <2>2. /\ expected \in [DOMAIN expected -> Decisions]
        /\ IsFiniteSet(DOMAIN expected)
    BY <2>1, DatasetFacts
  <2>3. n \in Nat
    BY <2>2, FS_CardinalityType
  <2>4. DOMAIN base = DOMAIN expected /\ DOMAIN mit = DOMAIN expected
    BY GeneratedFacts DEF Modes
  <2>5. \A c \in DOMAIN expected :
          /\ base[c] = Accepted /\ mit[c] \in {Accepted, Blocked(TRUE)}
          /\ mit[c].decision = expected[c]
    BY GeneratedFacts
  <2>6. /\ Accepted.latency_ms = 0 /\ Blocked(TRUE).latency_ms = 0
        /\ Accepted.errored = FALSE /\ Blocked(TRUE).errored = FALSE
        /\ Accepted.decision = "accepted"
    BY DEF Accepted, Blocked
  <2>7. \A c \in DOMAIN expected :
          /\ base[c].decision = "accepted" /\ base[c].latency_ms = 0
          /\ mit[c].decision = expected[c] /\ mit[c].latency_ms = 0
          /\ ~mit[c].errored
    BY <2>5, <2>6
  <2>8. Range(expected) = Decisions <=>
          \A d \in Decisions : \E c \in DOMAIN expected : expected[c] = d
    <3>1. \A c \in DOMAIN expected : expected[c] \in Decisions
      BY <2>2
    <3> HIDE DEF expected
    <3> QED
      BY <3>1 DEF Range
  <2>9. r.total_cases = n /\ VerdictThresholds.min_total_cases = 5
    BY DEF compare, VerdictThresholds
  <2>10. ASSUME verdict.label = "effective"
         PROVE  n >= 5 /\ Range(expected) = Decisions
    <3>1. ~(n < 5)
      <4> HIDE DEF r, n
      <4> QED
        BY <2>1, <2>9, <2>10, LabelFacts
    <3>2. \A d \in Decisions : \E c \in DOMAIN mit : expected[c] = d
      BY <2>1, <2>10, RunFavour DEF FavourableHasEvidence
    <3> QED
      BY <2>2, <2>3, <2>4, <2>8, <3>1, <3>2
  <2>11. ASSUME n >= 5, Range(expected) = Decisions
         PROVE  verdict.label = "effective"
    <3>1. \A d \in Decisions : \E c \in DOMAIN expected : expected[c] = d
      BY <2>8, <2>11
    <3> HIDE DEF expected, base, mit
    <3> QED
      BY <2>1, <2>2, <2>4, <2>7, <2>11, <3>1, PerfectReport
  <2> QED
    BY <2>9, <2>10, <2>11
<1> QED
  BY <1>1, Invariance, PTL
=============================================================================
