-------------------------- MODULE ResearchAnalyst --------------------------
(***************************************************************************)
(* The AI research analyst beside the assurance record: requests that      *)
(* gather context from the vulnerabilities, the registries and the         *)
(* validations, ask an external model, check its answer against what they  *)
(* supplied and store it as an assessment that a person may review.        *)
(*                                                                         *)
(* The model's answer takes seconds, in which syncs, runs and other        *)
(* requests go on.  Prompts and prose are left out: an answer is the set   *)
(* of identifiers it names.                                                *)
(***************************************************************************)
EXTENDS ControlAssurance, Correlation

CONSTANTS
    CVEs,            \* vulnerabilities
    Facts,           \* Facts[v]: what correlate compares, but for the domain
    FirstTable,      \* FirstTable[v]: the row of v at first
    Domains,         \* the domains, each with its domain pack
    FailurePatterns, \* FailurePatterns[d]: supported_failure_patterns
    Templates,       \* the registered templates [domain, id, version]
    Proposals,       \* identifiers the model may come up with beyond those
    AnalystRequests, \* requests to the analyst
    Reviews,         \* requests that mark an assessment reviewed
    ListLimit,       \* rows read as candidates of a correlation (200)
    RankLimit        \* correlations handed to the model (10)

ASSUME AnalystAssumption ==
    /\ FirstTable \in [CVEs -> [domain_guess : Domains \cup {Unknown},
                               updated_at : Int]]
    /\ \A u, v \in CVEs :
         /\ FirstTable[v].updated_at <= 0
         /\ FirstTable[u].updated_at = FirstTable[v].updated_at => u = v
    /\ Unknown \notin Domains
    /\ DOMAIN FailurePatterns = Domains
    /\ \A d \in Domains : FailurePatterns[d] # {}
    /\ \A t \in Templates : t.domain \in Domains
    /\ {ListLimit, RankLimit} \subseteq Nat \ {0}

VARIABLES
    vulnerabilities, \* the rows: domain_guess and last_updated_at
    assessments,     \* the rows of ai_assessments
    asked,           \* asked[a]: how far request a is, and what it has read
    review,          \* review[q]: how far review q is
    reviewTrail,     \* the reviews in the audit trail
    hadDomain        \* history: the domains a row has had

analystVars == <<vulnerabilities, assessments, asked, review, reviewTrail,
                 hadDomain>>
storeVars == <<rows, validations, candidates, audit, news, run, scan,
               decision, history>>
allVars == <<vars, analystVars>>

AnalystInit ==
    /\ Init
    /\ vulnerabilities = FirstTable
    /\ assessments = {}
    /\ asked = [a \in AnalystRequests |-> [pc |-> "waiting"]]
    /\ review = [q \in Reviews |-> [pc |-> "waiting"]]
    /\ reviewTrail = {}
    /\ hadDomain = [v \in CVEs |-> {FirstTable[v].domain_guess}]

\* A sync writes the row of a vulnerability, whose text may now call for
\* another domain.
Sync ==
    /\ Spend({"sync"})
    /\ clock' = clock + 1
    /\ \E v \in CVEs, d \in Domains \cup {Unknown} :
         /\ vulnerabilities' = [vulnerabilities EXCEPT
                                  ![v] = [domain_guess |-> d,
                                          updated_at |-> clock + 1]]
         /\ hadDomain' = [hadDomain EXCEPT ![v] = @ \cup {d}]
    /\ UNCHANGED <<storeVars, assessments, asked, review, reviewTrail>>
-----------------------------------------------------------------------------
(* What a request reads. *)

list_templates(d) == {t \in Templates : t.domain = d}

\* The patterns a classification may choose from: none without a domain.
PatternsFor(d) == IF d = Unknown THEN {} ELSE FailurePatterns[d]

\* list_vulnerabilities(domain, limit): the most recently updated ones, of
\* every domain if none is asked for.
list_vulnerabilities(d) ==
    LET match == {v \in CVEs : d \in {Unknown, vulnerabilities[v].domain_guess}}
        newer(v) == {u \in match : vulnerabilities[u].updated_at
                                     > vulnerabilities[v].updated_at}
    IN {v \in match : Cardinality(newer(v)) < ListLimit}

Vulnerability(v, row) ==
    [cve_id |-> v, domain_guess |-> row.domain_guess,
     updated_at |-> row.updated_at, cwe_ids |-> Facts[v].cwe_ids,
     vendor |-> Facts[v].vendor, description |-> Facts[v].description,
     zero_click_relevance |-> Facts[v].zero_click_relevance,
     experiments |-> Facts[v].experiments]

\* The correlations of v, of which the caller has read "row" before it reads
\* the candidates.
Correlations(v, row) ==
    rank_correlations(
        Vulnerability(v, row),
        {Vulnerability(u, vulnerabilities[u]) :
            u \in list_vulnerabilities(row.domain_guess)},
        200, RankLimit)

\* The newest stored classification of v, reviewed or not.
latest_failure_pattern(v) ==
    LET S == {s \in assessments : /\ s.type = "failure_pattern"
                                  /\ s.subject = v}
    IN IF S = {} THEN {}
       ELSE (CHOOSE s \in S : \A u \in S : u.created_at <= s.created_at).names

\* Mutant: the validations of all versions are compared.
Mut_current_version_validations == validations

\* The validations of the version that was validated last.
current_version_validations ==
    {v \in validations :
        \E l \in validations : /\ l.label = v.label
                               /\ \A u \in validations : u.at <= l.at}

\* get_control_effectiveness: how many validations are averaged, out of how
\* many, and the regression between the last two of the current version.
Effectiveness ==
    LET S == current_version_validations
    IN [validation_count_current_version |-> Cardinality(S),
        total_validation_count |-> Cardinality(validations),
        regression |-> {pr \in LastTwoOf(S) :
                          detect_regressions(pr[1].measure, pr[2].measure)}]
-----------------------------------------------------------------------------
(* The routes: how a request about vulnerability v goes on after it has    *)
(* read the row of v.  One that ends in an error response is "Ended".      *)

Ended == [pc |-> "done"]

Request(pc, type, v, supplied) ==
    [pc |-> pc, type |-> type, subject |-> v, row |-> None,
     supplied |-> supplied, pattern |-> {}, pair |-> None]

classify_failure_pattern(v) ==
    Request("generate", "failure_pattern", v,
            PatternsFor(vulnerabilities[v].domain_guess))

analyze_mitigation_gap(v) == Request("generate", "mitigation_gap", v, {})

summarise_similarity(v) ==
    [Request("list", "similarity", v, {}) EXCEPT !.row = vulnerabilities[v]]

\* Without a domain there are no templates to choose from.
recommend_template(v) ==
    LET d == vulnerabilities[v].domain_guess
    IN IF d = Unknown THEN Ended
       ELSE Request("pattern", "template_recommendation", v, list_templates(d))

\* The request itself names the domain pack and the template.
draft_experiment_proposal(v, d, id) ==
    IF \E t \in list_templates(d) : t.id = id
    THEN Request("pattern", "experiment_draft", v, {}) ELSE Ended

\* Request a goes on with q.
Proceed(a, q) == asked' = [asked EXCEPT ![a] = q]

Ask(a) ==
    /\ asked[a].pc = "waiting"
    /\ Spend({"ask"})
    /\ \E v \in CVEs :
         \/ Proceed(a, classify_failure_pattern(v))
         \/ Proceed(a, analyze_mitigation_gap(v))
         \/ Proceed(a, summarise_similarity(v))
         \/ Proceed(a, recommend_template(v))
         \/ \E d \in Domains, t \in Templates :
              Proceed(a, draft_experiment_proposal(v, d, t.id))
    /\ UNCHANGED <<storeVars, clock, vulnerabilities, assessments, review,
                   reviewTrail, hadDomain>>

\* Only a regression the rules find, in the control's current version, is
\* explained.
explain_regression(a) ==
    /\ "control" \in rows
    /\ asked[a].pc = "waiting"
    /\ Spend({"explain"})
    /\ LET found == Effectiveness.regression
       IN \/ found = {} /\ Proceed(a, Ended)
          \/ \E pr \in found :
               Proceed(a, [Request("generate", "regression_explanation",
                                   "control", {}) EXCEPT !.pair = pr])
    /\ UNCHANGED <<storeVars, clock, vulnerabilities, assessments, review,
                   reviewTrail, hadDomain>>

\* The candidates are read after the subject; without any there is nothing to
\* summarise.
ReadCandidates(a) ==
    /\ asked[a].pc = "list"
    /\ LET found == Correlations(asked[a].subject, asked[a].row)
       IN Proceed(a, IF found = {} THEN Ended
                     ELSE [asked[a] EXCEPT !.pc = "generate",
                                           !.supplied = found])
    /\ UNCHANGED <<storeVars, clock, spent, vulnerabilities, assessments,
                   review, reviewTrail, hadDomain>>

ReadPattern(a) ==
    /\ asked[a].pc = "pattern"
    /\ Proceed(a, [asked[a] EXCEPT
                     !.pc = "generate",
                     !.pattern = latest_failure_pattern(asked[a].subject)])
    /\ UNCHANGED <<storeVars, clock, spent, vulnerabilities, assessments,
                   review, reviewTrail, hadDomain>>
-----------------------------------------------------------------------------
(* The model and the check of its answer. *)

\* What the model may name in an answer that fits the schema.
Answers(type) ==
    CASE type = "failure_pattern" ->
           {{}} \cup {{p} : p \in UNION {FailurePatterns[d] : d \in Domains}
                                    \cup Proposals}
      [] type = "similarity" -> SUBSET (CVEs \cup Proposals)
      [] type = "template_recommendation" ->
           {{t} : t \in [domain : Domains, id : {t.id : t \in Templates},
                         version : {t.version : t \in Templates}]}
      [] OTHER -> {{}}

\* Mutant: a template is known by its name alone.
Mut_Accepted(type, supplied, names) ==
    CASE type = "failure_pattern" -> supplied = {} \/ names \subseteq supplied
      [] type = "template_recommendation" ->
           {t.id : t \in names} \subseteq {t.id : t \in supplied}
      [] OTHER -> names \subseteq supplied

\* Nothing outside what was supplied is accepted; a classification without
\* candidates is free.
Accepted(type, supplied, names) ==
    CASE type = "failure_pattern" -> supplied = {} \/ names \subseteq supplied
      [] OTHER -> names \subseteq supplied

\* The provider cannot be reached or is not configured (503), or refuses,
\* answers without JSON or against the schema (502): nothing is stored.
NoAnswer(a) ==
    /\ asked[a].pc = "generate"
    /\ Proceed(a, Ended)
    /\ UNCHANGED <<storeVars, clock, spent, vulnerabilities, assessments,
                   review, reviewTrail, hadDomain>>

\* The model answers.  What is accepted is stamped, then saved.
Answer(a) ==
    /\ asked[a].pc = "generate"
    /\ \E names \in Answers(asked[a].type) :
         IF Accepted(asked[a].type, asked[a].supplied, names)
         THEN /\ clock' = clock + 1
              /\ Proceed(a, [pc |-> "save", type |-> asked[a].type,
                             subject |-> asked[a].subject,
                             pattern |-> asked[a].pattern,
                             pair |-> asked[a].pair,
                             names |-> names, at |-> clock + 1])
         ELSE Proceed(a, Ended) /\ UNCHANGED clock
    /\ UNCHANGED <<storeVars, spent, vulnerabilities, assessments, review,
                   reviewTrail, hadDomain>>

save_assessment(a) ==
    /\ asked[a].pc = "save"
    /\ assessments' = assessments \cup
         {[id |-> a, type |-> asked[a].type, subject |-> asked[a].subject,
           names |-> asked[a].names, pattern |-> asked[a].pattern,
           pair |-> asked[a].pair, created_at |-> asked[a].at,
           reviewed_by |-> None]}
    /\ Proceed(a, Ended)
    /\ UNCHANGED <<storeVars, clock, spent, vulnerabilities, review,
                   reviewTrail, hadDomain>>
-----------------------------------------------------------------------------
(* POST /ai-assessments/{id}/review. *)

\* The row is marked, again if it already was, and names the last reviewer.
mark_assessment_reviewed(q, s) ==
    /\ review[q].pc = "waiting"
    /\ Spend({"review"})
    /\ assessments' = (assessments \ {s})
                        \cup {[s EXCEPT !.reviewed_by = q]}
    /\ review' = [review EXCEPT ![q] = [pc |-> "audit", id |-> s.id]]
    /\ UNCHANGED <<storeVars, clock, vulnerabilities, asked, reviewTrail,
                   hadDomain>>

AuditReview(q) ==
    /\ review[q].pc = "audit"
    /\ reviewTrail' = reviewTrail \cup {[id |-> review[q].id, by |-> q]}
    /\ review' = [review EXCEPT ![q].pc = "done"]
    /\ UNCHANGED <<storeVars, clock, spent, vulnerabilities, assessments,
                   asked, hadDomain>>

AnalystNext ==
    \/ Next /\ UNCHANGED analystVars
    \/ Sync
    \/ \E a \in AnalystRequests :
         \/ Ask(a) \/ explain_regression(a)
         \/ ReadCandidates(a) \/ ReadPattern(a)
         \/ NoAnswer(a) \/ Answer(a) \/ save_assessment(a)
    \/ \E q \in Reviews :
         \/ \E s \in assessments : mark_assessment_reviewed(q, s)
         \/ AuditReview(q)

AnalystSpec == AnalystInit /\ [][AnalystNext]_allVars
-----------------------------------------------------------------------------
(* Properties. *)

\* What is explained as a regression is a regression of one version that the
\* worker found as well: with one worker that does not fail, once it is
\* through, it has compared the same two validations and a candidate for
\* revalidation exists.
ExplainedIsRaised ==
    (Active = {} /\ spent["overlap"] = 0 /\ spent["fail"] = 0) =>
        \A s \in assessments : s.pair # None =>
            /\ s.pair \in compared
            /\ \E i \in DOMAIN candidates :
                 candidates[i].trigger = "regression"

\* A pattern that a domain the row of v has had knows, or any while v was at
\* some time without a domain; H[v] are the domains of v.
KnownPattern(H, v, names) ==
    \/ Unknown \in H[v]
    \/ \A p \in names : \E d \in H[v] : p \in FailurePatterns[d]

\* What an assessment of vulnerability v may name.
RealNames(H, type, v, names) ==
    CASE type = "template_recommendation" ->
           names \subseteq {t \in Templates : t.domain \in H[v]}
      [] type = "similarity" ->
           /\ names \subseteq CVEs \ {v}
           /\ \A d \in Domains : H[v] = {d} => \A u \in names : d \in H[u]
      [] type = "failure_pattern" -> KnownPattern(H, v, names)
      [] OTHER -> TRUE

\* However rows change while the model thinks, a stored assessment names only
\* what exists: a template registered for a domain the vulnerability has had,
\* vulnerabilities other than its subject, and of the subject's domain if that
\* never changed, and a failure pattern of such a domain.  The same holds of
\* the pattern that was handed on from an earlier assessment, reviewed or not.
NamesAreReal ==
    \A s \in assessments :
        /\ RealNames(hadDomain, s.type, s.subject, s.names)
        /\ s.pattern # {} => KnownPattern(hadDomain, s.subject, s.pattern)
-----------------------------------------------------------------------------
(***************************************************************************)
(* The inductive invariants that ResearchAnalystProofs proves.             *)
(***************************************************************************)

VulnerabilityTypes ==
    {"failure_pattern", "mitigation_gap", "similarity",
     "template_recommendation", "experiment_draft"}

\* A regression is explained about the control, all else about a
\* vulnerability.
AboutOne(type, subject, pattern) ==
    \/ type \in VulnerabilityTypes /\ subject \in CVEs
    \/ type = "regression_explanation" /\ pattern = {}

\* The rows of vulnerabilities, and the shape of requests and assessments.
AnalystTypeOK ==
    /\ vulnerabilities \in [CVEs -> [domain_guess : Domains \cup {Unknown},
                                     updated_at : Int]]
    /\ hadDomain \in [CVEs -> SUBSET (Domains \cup {Unknown})]
    /\ \A v \in CVEs : vulnerabilities[v].domain_guess \in hadDomain[v]
    /\ DOMAIN asked = AnalystRequests /\ DOMAIN review = Reviews
    /\ \A a \in AnalystRequests :
         LET q == asked[a]
         IN /\ q.pc \in {"waiting", "list", "pattern", "generate", "save", "done"}
            /\ q.pc \in {"list", "pattern", "generate"} =>
                 /\ q = [pc |-> q.pc, type |-> q.type, subject |-> q.subject,
                         row |-> q.row, supplied |-> q.supplied,
                         pattern |-> q.pattern, pair |-> q.pair]
                 /\ AboutOne(q.type, q.subject, q.pattern)
            /\ q.pc \in {"list", "pattern"} => q.type \in VulnerabilityTypes
            /\ q.pc = "save" => /\ AboutOne(q.type, q.subject, q.pattern)
                               /\ q.at \in Nat /\ q.at <= clock
    /\ \A s \in assessments :
         /\ s = [id |-> s.id, type |-> s.type, subject |-> s.subject,
                 names |-> s.names, pattern |-> s.pattern, pair |-> s.pair,
                 created_at |-> s.created_at, reviewed_by |-> s.reviewed_by]
         /\ AboutOne(s.type, s.subject, s.pattern)
         /\ s.created_at \in Nat /\ s.created_at <= clock

\* What a request has gathered is real, whatever becomes of the rows: what it
\* is going to supply, the pattern it was handed, and the names in its answer.
SuppliedInv ==
    \A a \in AnalystRequests :
        LET q == asked[a]
        IN /\ q.pc \in {"list", "pattern", "generate"} =>
                /\ RealNames(hadDomain, q.type, q.subject, q.supplied)
                /\ q.type = "failure_pattern" /\ q.supplied = {} =>
                     Unknown \in hadDomain[q.subject]
                /\ q.pc = "list" =>
                     /\ q.type = "similarity"
                     /\ q.row.domain_guess \in hadDomain[q.subject]
           /\ q.pc = "save" => RealNames(hadDomain, q.type, q.subject, q.names)
           /\ (q.pc \in {"list", "pattern", "generate", "save"} /\ q.pattern # {})
                => KnownPattern(hadDomain, q.subject, q.pattern)

\* A pair that is or will be explained is a regression between consecutive
\* validations.
ExplainsIn(V, pr) ==
    /\ pr = <<pr[1], pr[2]>> /\ ConsecutiveIn(V, pr[1], pr[2])
    /\ Worse(pr)

ExplainedInv ==
    spent["overlap"] = 0 =>
        /\ \A s \in assessments : s.pair # None => ExplainsIn(validations, s.pair)
        /\ \A a \in AnalystRequests :
             (asked[a].pc \in {"list", "pattern", "generate", "save"}
                /\ asked[a].pair # None) => ExplainsIn(validations, asked[a].pair)
=============================================================================
