-------------------------- MODULE ControlAssurance --------------------------
(***************************************************************************)
(* The assurance record of one control: its versions, the validations that *)
(* completed runs append, and the revalidation candidates that a           *)
(* regression, a scan or a person raises and a reviewer decides.           *)
(*                                                                         *)
(* Workers, scans and reviewers share the database and nothing else: each  *)
(* of their calls is a transaction of its own, and what one read may be    *)
(* out of date when it writes.  A worker swallows every exception of this  *)
(* part: the run stays completed and only its validation is missing.       *)
(***************************************************************************)
EXTENDS Regression, Sequences, FiniteSets

CONSTANTS
    Runs,        \* completed runs of experiments bound to the control
    Labels,      \* version labels of those experiments
    Measured,    \* the measurements a run can end with
    Scans,       \* requests that scan for triggers
    Decisions,   \* requests that approve or dismiss a candidate
    NewsTriggers,\* the triggers that need the related CVEs, in the scan's order
    Budgets,     \* the combinations of bounded events a behaviour may have
    None

\* What Budgets bounds: runs, runs that complete while a worker is busy with
\* another, scans, outside events, candidates raised by hand, decisions and
\* workers that fail half-way; and, for ResearchAnalyst, requests about a
\* vulnerability or a regression, rows written by a sync and reviews.
BoundedEvents ==
    {"run", "overlap", "scan", "news", "manual", "decision", "fail",
     "ask", "explain", "sync", "review"}

ASSUME AssuranceAssumption ==
    /\ Measured \subseteq Measurements
    /\ NewsTriggers \in
         Seq({"kev_state_change", "epss_material_change", "advisory_update",
              "new_related_cve"})
    /\ Budgets \subseteq [BoundedEvents -> Nat]

VARIABLES
    rows,        \* the rows of the control ("control") and of its versions
    validations, \* the rows of control_validations
    candidates,  \* the rows of revalidation_candidates, oldest first
    audit,       \* the decisions in the audit trail
    clock,       \* the time
    news,        \* news[t]: when what trigger t is about last happened
    run,         \* run[r]: how far the worker is with run r
    scan,        \* scan[s]: how far scan s is
    decision,    \* decision[d]: what request d decides, and how far it is
    compared,    \* history: the pairs of validations that were compared
    lost,        \* history: runs whose validation an insert conflict cost
    spent        \* spent[k]: bounded events of kind k so far

history == <<compared, lost>>
vars == <<rows, validations, candidates, audit, clock, news, run, scan,
          decision, history, spent>>
-----------------------------------------------------------------------------
\* The order in which scan() looks: staleness, then versions, then the news.
ScanOrder == <<"scheduled", "version_change">> \o NewsTriggers

Triggers == {ScanOrder[i] : i \in DOMAIN ScanOrder} \cup {"regression"}

Candidate(t, pair) == [trigger |-> t, status |-> "pending", pair |-> pair]

\* find_pending_candidate: scalar_one_or_none raises when there are several.
PendingFor(t) ==
    {i \in DOMAIN candidates :
        candidates[i].trigger = t /\ candidates[i].status = "pending"}

\* Mutant: an existing pending candidate does not count.
Mut_AlreadyPending(t) == FALSE

AlreadyPending(t) == Cardinality(PendingFor(t)) = 1

Ambiguous(t) == Cardinality(PendingFor(t)) > 1

Before(v, S) == {u \in S : u.at < v.at}
SameVersion(label) == {v \in validations : v.label = label}
\* The last two of a list of validations, by validated_at.
LastTwoOf(S) ==
    {pr \in S \X S : /\ Cardinality(Before(pr[2], S)) = Cardinality(S) - 1
                     /\ Cardinality(Before(pr[1], S)) = Cardinality(S) - 2}

\* Mutant: the validations of all versions are compared with one another.
Mut_LastTwo(label) == LastTwoOf(validations)

\* Mutant: the list is taken to be newest first.
Mut_LastTwoNewest(label) ==
    LET S == SameVersion(label)
    IN {pr \in S \X S : /\ Cardinality(Before(pr[1], S)) = 0
                        /\ Cardinality(Before(pr[2], S)) = 1}

\* list_validations, restricted to one version.
LastTwo(label) == LastTwoOf(SameVersion(label))

Init ==
    /\ rows = {}
    /\ validations = {}
    /\ candidates = <<>>
    /\ audit = {}
    /\ clock = 0
    /\ news = [t \in Triggers |-> 0]
    /\ run = [r \in Runs |-> [pc |-> "waiting"]]
    /\ scan = [s \in Scans |-> [pc |-> "waiting", pos |-> 1, due |-> {}]]
    /\ decision = [d \in Decisions |-> [pc |-> "waiting"]]
    /\ compared = {}
    /\ lost = {}
    /\ spent = [k \in BoundedEvents |-> 0]

Spend(K) ==
    LET cost(k) == IF k \in K THEN 1 ELSE 0
    IN /\ \E b \in Budgets :
            \A k \in BoundedEvents : spent[k] + cost(k) <= b[k]
       /\ spent' = [k \in BoundedEvents |-> spent[k] + cost(k)]
-----------------------------------------------------------------------------
(* The worker: record_control_validation_and_check_regression. *)

Active == {r \in Runs : run[r].pc \notin {"waiting", "done"}}

GotoRun(r, pc) == run' = [run EXCEPT ![r].pc = pc]

\* A run completes with a measurement.  The worker binds it to the control
\* and to the version with the label of the experiment; "known" is history.
Complete(r) ==
    /\ run[r].pc = "waiting"
    /\ Spend({"run"} \cup IF Active = {} THEN {} ELSE {"overlap"})
    /\ \E label \in Labels, m \in Measured :
         run' = [run EXCEPT ![r] =
                   [pc |-> "get", row |-> "control", label |-> label,
                    measure |-> m, at |-> 0, pair |-> None,
                    known |-> {"control", label} \subseteq rows]]
    /\ UNCHANGED <<rows, validations, candidates, audit, clock, news, scan,
                   decision, history>>

\* What follows once the row q needs is there: the version, then the record.
Bound(q) == IF q.row = "control" THEN [q EXCEPT !.pc = "get", !.row = q.label]
            ELSE [q EXCEPT !.pc = "stamp"]

\* Mutant: the row is inserted without looking.
Mut_GetRow(r) ==
    /\ run[r].pc = "get"
    /\ GotoRun(r, "insert")
    /\ UNCHANGED <<rows, validations, candidates, audit, clock, news, scan,
                   decision, history, spent>>

\* get_or_create_control and get_or_create_control_version: look, ...
GetRow(r) ==
    /\ run[r].pc = "get"
    /\ IF run[r].row \in rows
       THEN run' = [run EXCEPT ![r] = Bound(@)]
       ELSE GotoRun(r, "insert")
    /\ UNCHANGED <<rows, validations, candidates, audit, clock, news, scan,
                   decision, history, spent>>

\* ... and insert.  A row inserted by another worker in between violates the
\* unique key, and the exception ends this run's part.
InsertRow(r) ==
    /\ run[r].pc = "insert"
    /\ \/ /\ run[r].row \notin rows
          /\ rows' = rows \cup {run[r].row}
          /\ run' = [run EXCEPT ![r] = Bound(@)]
          /\ UNCHANGED lost
       \/ /\ run[r].row \in rows
          /\ lost' = lost \cup {r}
          /\ GotoRun(r, "done")
          /\ UNCHANGED rows
    /\ UNCHANGED <<validations, candidates, audit, clock, news, scan, decision,
                   compared, spent>>

\* validated_at is taken before the transaction that inserts the row.
Stamp(r) ==
    /\ run[r].pc = "stamp"
    /\ clock' = clock + 1
    /\ run' = [run EXCEPT ![r].pc = "record", ![r].at = clock + 1]
    /\ UNCHANGED <<rows, validations, candidates, audit, news, scan, decision,
                   history, spent>>

record_validation(r) ==
    /\ run[r].pc = "record"
    /\ validations' = validations \cup
         {[run |-> r, label |-> run[r].label, measure |-> run[r].measure,
           at |-> run[r].at]}
    /\ GotoRun(r, "compare")
    /\ UNCHANGED <<rows, candidates, audit, clock, news, scan, decision,
                   history, spent>>

\* The last two validations of the version, whoever recorded them, are
\* compared; a first validation has nothing to be compared with.
Compare(r) ==
    /\ run[r].pc = "compare"
    /\ LET pairs == LastTwo(run[r].label)
           worse == {pr \in pairs : detect_regressions(pr[1].measure,
                                                       pr[2].measure)}
       IN /\ compared' = compared \cup pairs
          /\ \/ /\ worse = {}
                /\ GotoRun(r, "done")
             \/ \E pr \in worse :
                  run' = [run EXCEPT ![r].pc = "find", ![r].pair = pr]
    /\ UNCHANGED <<rows, validations, candidates, audit, clock, news, scan,
                   decision, lost, spent>>

\* create_candidate_if_new: look for a pending one, ...
FindRegression(r) ==
    /\ run[r].pc = "find"
    /\ GotoRun(r, IF AlreadyPending("regression") \/ Ambiguous("regression")
                  THEN "done" ELSE "create")
    /\ UNCHANGED <<rows, validations, candidates, audit, clock, news, scan,
                   decision, history, spent>>

\* ... and create it.
CreateRegression(r) ==
    /\ run[r].pc = "create"
    /\ candidates' = Append(candidates, Candidate("regression", run[r].pair))
    /\ GotoRun(r, "done")
    /\ UNCHANGED <<rows, validations, audit, clock, news, scan, decision,
                   history, spent>>

\* A store refuses a call, or the worker dies: nothing is taken up again.
Fail(r) ==
    /\ r \in Active
    /\ Spend({"fail"})
    /\ GotoRun(r, "done")
    /\ UNCHANGED <<rows, validations, candidates, audit, clock, news, scan,
                   decision, history>>
-----------------------------------------------------------------------------
(* POST /revalidation/scan. *)

\* The outside world: a window elapses, an advisory changes, a CVE appears.
Happen(t) ==
    /\ news[t] = 0
    /\ Spend({"news"})
    /\ clock' = clock + 1
    /\ news' = [news EXCEPT ![t] = clock + 1]
    /\ UNCHANGED <<rows, validations, candidates, audit, run, scan, decision,
                   history>>

\* Whether the state calls for trigger t, as scan q sees it.
Due(q, t) ==
    CASE t = "version_change" -> \E l \in Labels : l \in rows \ q.validated
      [] t = "scheduled"      -> news[t] > q.latest
      [] t = "regression"     -> FALSE
      [] OTHER                -> q.found /\ news[t] > q.latest

\* The validations are listed once, and the experiment file looked up once;
\* "due" is history.
\* Without validations there is nothing to revalidate; without the file the
\* related CVEs are unknown.
BeginScan(s, found) ==
    /\ scan[s].pc = "waiting"
    /\ Spend({"scan"})
    /\ scan' = [scan EXCEPT ![s] =
         IF validations = {} THEN [@ EXCEPT !.pc = "done"]
         ELSE LET q == [pc |-> "look", pos |-> 1, found |-> found, due |-> {},
                        validated |-> {v.label : v \in validations},
                        latest |-> (CHOOSE v \in validations :
                                      \A u \in validations : u.at <= v.at).at]
              IN [q EXCEPT !.due = {t \in Triggers : Due(q, t)}]]
    /\ UNCHANGED <<rows, validations, candidates, audit, clock, news, run,
                   decision, history>>

\* Mutant: the scan gives up at the first trigger that is already pending.
Mut_Advance(q) == [q EXCEPT !.pc = "done"]

\* The next trigger, or the end.
Advance(q) == IF q.pos = Len(ScanOrder) THEN [q EXCEPT !.pc = "done"]
              ELSE [q EXCEPT !.pc = "look", !.pos = @ + 1]

Look(s) ==
    /\ scan[s].pc = "look"
    /\ LET q == scan[s]
           t == ScanOrder[q.pos]
       IN scan' = [scan EXCEPT ![s] =
                     IF Due(q, t)
                     THEN [q EXCEPT !.pc = "find"]
                     ELSE Advance(q)]
    /\ UNCHANGED <<rows, validations, candidates, audit, clock, news, run,
                   decision, history, spent>>

\* With two pending candidates the look-up raises and the request fails.
Find(s) ==
    /\ scan[s].pc = "find"
    /\ LET q == scan[s]
           t == ScanOrder[q.pos]
       IN scan' = [scan EXCEPT ![s] =
                     IF Ambiguous(t) THEN [q EXCEPT !.pc = "failed"]
                     ELSE IF AlreadyPending(t) THEN Advance(q)
                     ELSE [q EXCEPT !.pc = "create"]]
    /\ UNCHANGED <<rows, validations, candidates, audit, clock, news, run,
                   decision, history, spent>>

Create(s) ==
    /\ scan[s].pc = "create"
    /\ candidates' = Append(candidates,
                            Candidate(ScanOrder[scan[s].pos], None))
    /\ scan' = [scan EXCEPT ![s] = Advance(@)]
    /\ UNCHANGED <<rows, validations, audit, clock, news, run, decision,
                   history, spent>>

(* POST /revalidation: raised by hand, without a look at what is pending. *)
Raise ==
    /\ "control" \in rows
    /\ Spend({"manual"})
    /\ \E t \in Triggers : candidates' = Append(candidates, Candidate(t, None))
    /\ UNCHANGED <<rows, validations, audit, clock, news, run, scan, decision,
                   history>>
-----------------------------------------------------------------------------
(* POST /revalidation/{id}/approve and /dismiss. *)
Decide(d, i, status) ==
    /\ decision[d].pc = "waiting"
    /\ candidates[i].status = "pending"
    /\ Spend({"decision"})
    /\ decision' = [decision EXCEPT ![d] =
                      [pc |-> "update", candidate |-> i, status |-> status]]
    /\ UNCHANGED <<rows, validations, candidates, audit, clock, news, run,
                   scan, history>>

update_candidate_status(d) ==
    /\ decision[d].pc = "update"
    /\ candidates' = [candidates EXCEPT ![decision[d].candidate].status =
                        decision[d].status]
    /\ decision' = [decision EXCEPT ![d].pc = "audit"]
    /\ UNCHANGED <<rows, validations, audit, clock, news, run, scan, history, spent>>

AuditDecision(d) ==
    /\ decision[d].pc = "audit"
    /\ audit' = audit \cup {[candidate |-> decision[d].candidate,
                             status |-> decision[d].status]}
    /\ decision' = [decision EXCEPT ![d].pc = "done"]
    /\ UNCHANGED <<rows, validations, candidates, clock, news, run, scan,
                   history, spent>>

Next ==
    \/ \E r \in Runs :
         \/ Complete(r) \/ GetRow(r) \/ InsertRow(r) \/ Stamp(r)
         \/ record_validation(r) \/ Compare(r) \/ FindRegression(r)
         \/ CreateRegression(r) \/ Fail(r)
    \/ \E t \in Triggers \ {"regression", "version_change"} : Happen(t)
    \/ Raise
    \/ \E s \in Scans :
         \/ \E found \in BOOLEAN : BeginScan(s, found)
         \/ Look(s) \/ Find(s) \/ Create(s)
    \/ \E d \in Decisions :
         \/ \E i \in DOMAIN candidates, status \in {"approved", "dismissed"} :
              Decide(d, i, status)
         \/ update_candidate_status(d) \/ AuditDecision(d)

Spec == Init /\ [][Next]_vars
-----------------------------------------------------------------------------
(* Properties. *)

\* A regression candidate rests on two recorded validations of one version,
\* the later of which is worse, whatever order workers recorded and compared
\* them in.
RegressionsAreReal ==
    \A i \in DOMAIN candidates : candidates[i].pair # None =>
        LET p == candidates[i].pair[1]
            l == candidates[i].pair[2]
        IN /\ candidates[i].trigger = "regression"
           /\ {p, l} \subseteq validations
           /\ p.label = l.label /\ p.at < l.at
           /\ detect_regressions(p.measure, l.measure)

\* Never more than one pending candidate for the control and a trigger, when
\* none is raised by hand, scans do not meet and workers do not overlap.
OnePending ==
    (spent["manual"] = 0 /\ spent["scan"] <= 1 /\ spent["overlap"] = 0) =>
        \A t \in Triggers : Cardinality(PendingFor(t)) <= 1

\* A scan that came to its end has left a candidate, decided or not, for
\* every trigger that was due when it began, whoever raised it.
ScanRaisesDue ==
    \A s \in Scans : scan[s].pc = "done" =>
        \A t \in scan[s].due :
            \E i \in DOMAIN candidates : candidates[i].trigger = t

\* With one worker that does not fail, every validation is compared with the
\* previous validation of its version.
EveryPairCompared ==
    (Active = {} /\ spent["overlap"] = 0 /\ spent["fail"] = 0) =>
        \A l \in validations :
            LET S == SameVersion(l.label) IN
            \A p \in S : Before(l, S) = Before(p, S) \cup {p}
                           => <<p, l>> \in compared

\* A run loses its validation to an insert conflict only if the row of the
\* control or of its version was not there when the run completed.
KnownControlKeepsValidation == \A r \in lost : ~run[r].known
-----------------------------------------------------------------------------
(***************************************************************************)
(* The inductive invariants that ResearchAnalystProofs proves.             *)
(***************************************************************************)

ValidationRows == [run : Runs, label : Labels, measure : Measured, at : Nat]
Pairs == ValidationRows \X ValidationRows
CandidateRows ==
    [trigger : Triggers, status : {"pending", "approved", "dismissed"},
     pair : Pairs \cup {None}]

Waiting == [pc : {"waiting"}]
BusyRun ==
    [pc : {"get", "insert", "stamp", "record", "compare", "find", "create",
           "done"},
     row : Labels \cup {"control"}, label : Labels, measure : Measured,
     at : Nat, pair : Pairs \cup {None}, known : BOOLEAN]
IdleScan == [pc : {"waiting", "done"}, pos : {1}, due : {{}}]
BusyScan ==
    [pc : {"look", "find", "create", "failed", "done"},
     pos : 1..Len(ScanOrder), found : BOOLEAN, due : SUBSET Triggers,
     validated : SUBSET Labels, latest : Nat]
BusyDecision ==
    [pc : {"update", "audit", "done"}, candidate : Nat,
     status : {"approved", "dismissed"}]

TypeOK ==
    /\ rows \subseteq Labels \cup {"control"}
    /\ validations \subseteq ValidationRows /\ IsFiniteSet(validations)
    /\ candidates \in Seq(CandidateRows)
    /\ audit \subseteq [candidate : Nat, status : {"approved", "dismissed"}]
    /\ clock \in Nat
    /\ news \in [Triggers -> Nat]
    /\ run \in [Runs -> Waiting \cup BusyRun]
    /\ scan \in [Scans -> IdleScan \cup BusyScan]
    /\ decision \in [Decisions -> Waiting \cup BusyDecision]
    /\ compared \subseteq Pairs
    /\ lost \subseteq Runs
    /\ spent \in [BoundedEvents -> Nat]

\* The later of the two is worse than the one before.
Worse(pr) == detect_regressions(pr[1].measure, pr[2].measure)

\* pr is a regression among validations V.
RealIn(V, pr) ==
    /\ {pr[1], pr[2]} \subseteq V
    /\ pr[1].label = pr[2].label /\ pr[1].at < pr[2].at
    /\ Worse(pr)

\* What a worker is about to raise is a regression already.
RealInv ==
    /\ RegressionsAreReal
    /\ \A r \in Runs : run[r].pc \in {"find", "create"} =>
         RealIn(validations, run[r].pair)

\* A run that completed when the rows were there never gets to insert one.
KnownInv ==
    /\ \A r \in Runs : run[r].pc # "waiting" =>
         /\ run[r].known => {"control", run[r].label} \subseteq rows
         /\ run[r].row \in {"control", run[r].label}
         /\ run[r].pc = "insert" => ~run[r].known
    /\ \A r \in lost : run[r].pc = "done" /\ ~run[r].known

\* What the counters say of workers and scans under way.
AloneInv ==
    /\ spent["overlap"] = 0 => \A q, r \in Active : q = r
    /\ spent["scan"] = 0 => \A s \in Scans : scan[s].pc = "waiting"
    /\ spent["scan"] <= 1 => \A s, u \in Scans :
         scan[s].pc # "waiting" /\ scan[u].pc # "waiting" => s = u

\* Between the look for a pending candidate and its creation none appears.
PendingInv ==
    (spent["manual"] = 0 /\ spent["scan"] <= 1 /\ spent["overlap"] = 0) =>
        /\ \A t \in Triggers : \A i, j \in PendingFor(t) : i = j
        /\ \A r \in Runs : run[r].pc = "create" =>
             PendingFor("regression") = {}
        /\ \A s \in Scans : scan[s].pc = "create" =>
             PendingFor(ScanOrder[scan[s].pos]) = {}

RaisedIn(C, t) == \E i \in DOMAIN C : C[i].trigger = t

\* A trigger that was due is due until the scan has come to it.
DueInv ==
    \A s \in Scans : \A t \in scan[s].due :
        /\ scan[s].pc = "done" => RaisedIn(candidates, t)
        /\ scan[s].pc \in {"look", "find", "create"} =>
             /\ Due(scan[s], t)
             /\ \/ RaisedIn(candidates, t)
                \/ \E k \in scan[s].pos..Len(ScanOrder) : ScanOrder[k] = t

NewestIn(V, l) == l \in V /\ \A v \in V \ {l} : v.at < l.at

\* p is the validation before l of their version.
ConsecutiveIn(V, p, l) ==
    LET S == {v \in V : v.label = l.label}
    IN p \in S /\ l \in S /\ Before(l, S) = Before(p, S) \cup {p}

\* Stamps are of the past.
StampInv ==
    /\ \A v \in validations : v.at <= clock
    /\ \A r \in Runs : run[r].pc = "record" => run[r].at <= clock

\* One worker at a time records validations in the order of their stamps.
OrderInv ==
    spent["overlap"] = 0 =>
        /\ \A u, v \in validations : u.at = v.at => u = v
        /\ \A r \in Runs :
             /\ run[r].pc = "record" => \A v \in validations : v.at < run[r].at
             /\ run[r].pc = "compare" =>
                  \E l \in validations :
                      l.label = run[r].label /\ NewestIn(validations, l)

\* Only the newest validation can wait for its comparison.
PairInv ==
    (spent["overlap"] = 0 /\ spent["fail"] = 0) =>
        \A p, l \in validations : ConsecutiveIn(validations, p, l) =>
            \/ <<p, l>> \in compared
            \/ /\ NewestIn(validations, l)
               /\ \E r \in Runs : run[r].pc = "compare"

\* A regression that was found is raised, or about to be.
RaisedInv ==
    (spent["fail"] = 0 /\ \E pr \in compared : Worse(pr)) =>
        \/ RaisedIn(candidates, "regression")
        \/ \E r \in Runs : run[r].pc \in {"find", "create"}
=============================================================================
