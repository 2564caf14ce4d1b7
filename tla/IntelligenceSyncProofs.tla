------------------------ MODULE IntelligenceSyncProofs ------------------------
(***************************************************************************)
(* Proofs about IntelligenceSync, for every set of CVEs, workers, imports  *)
(* and contributions, and every vocabulary; and, at the end, about the     *)
(* fetches that supply a sync.                                             *)
(***************************************************************************)
EXTENDS IntelligenceSync, SourceConnectors, FiniteSetTheorems,
        SequenceTheorems, TLAPS

USE DEF BoundedEvents

-----------------------------------------------------------------------------
(***************************************************************************)
(* merge and classify_domain.                                              *)
(***************************************************************************)

LEMMA BlankType == Blank \in Vulnerabilities
  BY DEF Blank, Vulnerabilities, Supplied

LEMMA FieldNames ==
    /\ DOMAIN Blank = {"description", "cvss_score", "vendor", "epss_score",
                       "epss_percentile", "zero_click_relevance",
                       "kev_listed", "kev_due_date", "published_at",
                       "last_modified_at", "domain_guess", "sources"}
    /\ TrackedFields = {"description", "cvss_score", "kev_listed",
                        "kev_due_date", "epss_score", "zero_click_relevance"}
    /\ SharedFields = {"description", "cvss_score", "vendor"}
    /\ LatestFields = {"epss_score", "zero_click_relevance"}
  BY DEF Blank, TrackedFields, SharedFields, LatestFields

\* Each field of a merged view is that of the row or that of the contribution.
LEMMA MergedField ==
    ASSUME NEW e, NEW c, NEW f \in DOMAIN Blank,
           f \notin {"sources", "published_at", "last_modified_at"}
    PROVE  merge(e, c)[f] = IF Supplies(e, c, f) THEN c[f] ELSE e[f]
<1> DEFINE g == IF Supplies(e, c, f) THEN c[f] ELSE e[f]
<1>1. merge(e, c)[f] = CASE f = "sources" -> e.sources \cup {c.source}
                         [] f = "published_at" -> Earliest(e[f], c[f])
                         [] f = "last_modified_at" -> Newest(e[f], c[f])
                         [] OTHER -> g
  BY DEF merge
<1> HIDE DEF g
<1>2. merge(e, c)[f] = g
  BY <1>1
<1> QED
  BY <1>2 DEF g

\* A contribution supplies what it knows only, and no domain.
LEMMA SuppliesFacts ==
    ASSUME NEW e, NEW c
    PROVE  /\ \A f \in SharedFields \cup LatestFields \cup {"kev_due_date"} :
                Supplies(e, c, f) => c[f] # None
           /\ Supplies(e, c, "kev_listed") <=> c.kev_listed
           /\ ~Supplies(e, c, "domain_guess")
           /\ \A f \in {"epss_score", "epss_percentile"} :
                Supplies(e, c, f) <=> c.epss_score # None
<1>1. ASSUME NEW f \in SharedFields, Supplies(e, c, f)
      PROVE  c[f] # None
  <2>1. f \notin LatestFields \cup {"epss_percentile", "kev_listed",
                                   "kev_due_date"}
    BY FieldNames
  <2>2. Better(Owner(e, f), e[f], c.source, c[f])
    BY <1>1, <2>1 DEF Supplies
  <2> QED
    BY <2>2 DEF Better
<1>2. \A f \in LatestFields : Supplies(e, c, f) => c[f] # None
  BY DEF Supplies, TakesLatest, LatestFields, SharedFields
<1>3. Supplies(e, c, "kev_due_date") => c["kev_due_date"] # None
  BY DEF Supplies, LatestFields, SharedFields
<1>4. Supplies(e, c, "kev_listed") <=> c.kev_listed
  BY DEF Supplies, LatestFields, SharedFields
<1>5. ~Supplies(e, c, "domain_guess")
  BY DEF Supplies, LatestFields, SharedFields
<1>6. \A f \in {"epss_score", "epss_percentile"} :
        Supplies(e, c, f) <=> c.epss_score # None
  BY DEF Supplies, TakesLatest, LatestFields, SharedFields
<1> QED
  BY <1>1, <1>2, <1>3, <1>4, <1>5, <1>6

LEMMA MergeType ==
    ASSUME NEW e \in Vulnerabilities, NEW c \in Contributions
    PROVE  /\ merge(e, c) \in Vulnerabilities
           /\ e.sources \subseteq merge(e, c).sources
<1> DEFINE m == merge(e, c)
<1>0. c.source \in Sources /\ c.kev_listed \in BOOLEAN
  BY SyncAssumption
<1>1. ASSUME NEW f \in {"description", "cvss_score", "vendor", "epss_score",
                        "epss_percentile", "zero_click_relevance",
                        "kev_due_date"},
             e[f] \in Supplied(f)
      PROVE  m[f] \in Supplied(f)
  BY <1>1, MergedField, FieldNames DEF Supplied
<1>2. m.domain_guess = e.domain_guess
  BY MergedField, SuppliesFacts, FieldNames
<1>3. m.kev_listed \in BOOLEAN
  BY <1>0, MergedField, FieldNames DEF Vulnerabilities
<1>4. m.sources = e.sources \cup {c.source}
  BY FieldNames DEF merge
<1>5. m.published_at = Earliest(e.published_at, c.published_at)
  BY FieldNames DEF merge
<1>6. m.last_modified_at = Newest(e.last_modified_at, c.last_modified_at)
  BY FieldNames DEF merge
<1>7. /\ m.published_at \in Supplied("published_at")
      /\ m.last_modified_at \in Supplied("last_modified_at")
  BY <1>5, <1>6 DEF Earliest, Newest, Supplied, Vulnerabilities
<1>8. m = [f \in DOMAIN Blank |-> m[f]]
  BY DEF merge
<1> HIDE DEF m
<1>9. /\ m.description \in Supplied("description")
      /\ m.cvss_score \in Supplied("cvss_score")
      /\ m.vendor \in Supplied("vendor")
      /\ m.epss_score \in Supplied("epss_score")
      /\ m.epss_percentile \in Supplied("epss_percentile")
      /\ m.zero_click_relevance \in Supplied("zero_click_relevance")
      /\ m.kev_due_date \in Supplied("kev_due_date")
  BY <1>1 DEF Vulnerabilities
<1>10. m \in Vulnerabilities
  <2>1. m.domain_guess \in Domains \cup {None} /\ m.sources \in SUBSET Sources
    BY <1>0, <1>2, <1>4 DEF Vulnerabilities
  <2> QED
    BY <1>3, <1>7, <1>8, <1>9, <2>1, FieldNames DEF Vulnerabilities
<1> QED
  BY <1>4, <1>10 DEF m

\* What a merge does not record as a change it leaves alone, and it forgets
\* nothing.
LEMMA MergeKeeps ==
    ASSUME NEW e \in Vulnerabilities, NEW c \in Contributions
    PROVE  /\ \A f \in TrackedFields \ Changes(e, c) : merge(e, c)[f] = e[f]
           /\ \A f \in SharedFields \cup LatestFields \cup {"kev_due_date"} :
                e[f] # None => merge(e, c)[f] # None
           /\ e.kev_listed => merge(e, c).kev_listed
           /\ merge(e, c).domain_guess = e.domain_guess
           /\ \/ merge(e, c).epss_percentile = e.epss_percentile
              \/ /\ c.epss_score # None
                 /\ merge(e, c).epss_score = c.epss_score
                 /\ merge(e, c).epss_percentile = c.epss_percentile
<1>1. \A f \in TrackedFields \cup {"vendor"} :
        merge(e, c)[f] = IF Supplies(e, c, f) THEN c[f] ELSE e[f]
  BY MergedField, FieldNames
<1>2. \A f \in TrackedFields \ Changes(e, c) : merge(e, c)[f] = e[f]
  BY <1>1 DEF Changes
<1>3. \A f \in SharedFields \cup LatestFields \cup {"kev_due_date"} :
        e[f] # None => merge(e, c)[f] # None
  BY <1>1, SuppliesFacts, FieldNames
<1>4. e.kev_listed => merge(e, c).kev_listed
  BY <1>1, SuppliesFacts, FieldNames
<1>5. merge(e, c).domain_guess = e.domain_guess
  BY MergedField, SuppliesFacts, FieldNames
<1>6. /\ merge(e, c).epss_score =
             IF c.epss_score # None THEN c.epss_score ELSE e.epss_score
      /\ merge(e, c).epss_percentile =
             IF c.epss_score # None THEN c.epss_percentile
             ELSE e.epss_percentile
  BY MergedField, SuppliesFacts, FieldNames
<1> QED
  BY <1>2, <1>3, <1>4, <1>5, <1>6

LEMMA ClassifyType ==
    ASSUME NEW v
    PROVE  classify_domain(v).domain \in Domains \cup {None}
<1> DEFINE hit == {d \in Domains :
                     {StrongTerms[d], ProductTerms[d]} \cap Matched(v) # {}}
           d == CHOOSE e \in hit : TRUE
           s == IF ProductTerms[d] \in Matched(v) THEN "supported"
                ELSE "partially_supported"
<1>1. classify_domain(v) = CASE Cardinality(hit) = 2 ->
                                  Classification(None, "partially_supported")
                             [] hit = {} -> Classification(None, "unsupported")
                             [] OTHER -> Classification(d, s)
  BY DEF classify_domain
<1>2. hit # {} => d \in Domains
  BY DEF Domains
<1> HIDE DEF hit, d, s
<1>3. \A x, y : Classification(x, y).domain = x
  BY DEF Classification
<1>4. CASE Cardinality(hit) = 2 /\ hit # {}
  <2>1. \/ classify_domain(v) = Classification(None, "partially_supported")
    BY <1>1, <1>4
  <2> QED
    BY <1>3, <2>1
<1>5. CASE Cardinality(hit) # 2 /\ hit = {}
  <2>1. classify_domain(v) = Classification(None, "unsupported")
    BY <1>1, <1>5
  <2> QED
    BY <1>3, <2>1
<1>6. CASE Cardinality(hit) = 2 /\ hit = {}
  <2>1. \/ classify_domain(v) = Classification(None, "unsupported")
        \/ classify_domain(v) = Classification(None, "partially_supported")
    BY <1>1, <1>6
  <2> QED
    BY <1>3, <2>1
<1>7. CASE Cardinality(hit) # 2 /\ hit # {}
  <2>1. classify_domain(v) = Classification(d, s)
    BY <1>1, <1>7
  <2> QED
    BY <1>2, <1>3, <1>7, <2>1
<1> QED
  BY <1>4, <1>5, <1>6, <1>7

\* The domain is judged by the text alone.
LEMMA ClassifySame ==
    ASSUME NEW v, NEW w, v.description = w.description, v.vendor = w.vendor
    PROVE  classify_domain(v) = classify_domain(w)
<1>1. Matched(v) = Matched(w)
  BY DEF Matched
<1> QED
  BY <1>1 DEF classify_domain

LEMMA RatingOf ==
    ASSUME NEW v, NEW row
    PROVE  /\ Rating(v, row).cve = v
           /\ Rating(v, row).rating.domain = classify_domain(row).domain
           /\ Rating(v, row).rating.support_status
                = classify_domain(row).support_status
  BY DEF Rating, CandidateOf

\* A row with another domain differs in nothing else.
LEMMA GuessRow ==
    ASSUME NEW row \in Vulnerabilities, NEW d \in Domains \cup {None}
    PROVE  LET new == [row EXCEPT !.domain_guess = d]
           IN /\ new \in Vulnerabilities /\ new.domain_guess = d
              /\ \A f \in DOMAIN Blank \ {"domain_guess"} : new[f] = row[f]
              /\ classify_domain(new) = classify_domain(row)
<1> DEFINE new == [row EXCEPT !.domain_guess = d]
<1>1. /\ new \in Vulnerabilities /\ new.domain_guess = d
      /\ \A f \in DOMAIN Blank \ {"domain_guess"} : new[f] = row[f]
  BY FieldNames DEF Vulnerabilities
<1>2. new.description = row.description /\ new.vendor = row.vendor
  BY <1>1, FieldNames
<1>3. classify_domain(new) = classify_domain(row)
  BY <1>2, ClassifySame
<1> QED
  BY <1>1, <1>3

\* What a commit leaves in a row: a column is that of the row to save or that
\* of the row as it is by now, and the former if it is as it was loaded.
LEMMA SavedFacts ==
    ASSUME NEW row \in Vulnerabilities, NEW base \in Vulnerabilities \cup {None},
           NEW now \in Vulnerabilities \cup {None},
           base # None => now # None
    PROVE  /\ Saved(row, base, now) \in Vulnerabilities
           /\ base = None \/ base = now => Saved(row, base, now) = row
           /\ \A f \in DOMAIN Blank :
                \/ Saved(row, base, now)[f] = row[f]
                \/ base # None /\ row[f] = base[f]
<1> DEFINE m == Saved(row, base, now)
<1>1. CASE base = None
  BY <1>1 DEF Saved
<1>2. CASE base # None
  <2>1. m = [f \in DOMAIN Blank |-> IF row[f] = base[f] THEN now[f] ELSE row[f]]
    BY <1>2 DEF Saved
  <2>2. now \in Vulnerabilities
    BY <1>2
  <2> HIDE DEF m
  <2>3. \A f \in DOMAIN Blank :
          m[f] = IF row[f] = base[f] THEN now[f] ELSE row[f]
    BY <2>1
  <2>4. m = [f \in DOMAIN Blank |-> m[f]]
    BY <2>1
  <2>5. \A f \in DOMAIN Blank : m[f] = row[f] \/ m[f] = now[f]
    BY <2>3
  <2>6. m \in Vulnerabilities
    BY <2>2, <2>4, <2>5, FieldNames DEF Vulnerabilities
  <2>7. row = [f \in DOMAIN Blank |-> row[f]]
    BY FieldNames DEF Vulnerabilities
  <2>8. base = now => m = row
    <3>1. base = now => \A f \in DOMAIN Blank : m[f] = row[f]
      BY <2>3
    <3> QED
      BY <2>4, <2>7, <3>1
  <2> QED
    BY <1>2, <2>3, <2>6, <2>8 DEF m
<1> QED
  BY <1>1, <1>2
-----------------------------------------------------------------------------
(***************************************************************************)
(* What a step does.  A request touches no row; every other step moves one *)
(* worker or import on, and the kinds of step below say what the           *)
(* invariants need to know of it.                                          *)
(***************************************************************************)

PCs == Working \cup {"waiting", "done"}

Moves(p) == proc'[p] \in ProcStates /\ proc' = [proc EXCEPT ![p] = proc'[p]]

\* Everything but the program counter, the counts and the loaded row stays,
\* and the connection.
Keeps(q, r) ==
    /\ r.cve = q.cve /\ r.input = q.input /\ r.row = q.row
    /\ r.fields = q.fields /\ r.at = q.at
    /\ r.touched = q.touched /\ r.todo = q.todo

\* The message and the source stay.
Minding(q, r) == r.sync = q.sync /\ r.source = q.source /\ r.lost = q.lost

HasResult(s) == syncs'[s] # None /\ syncs'[s].status \in Terminal

Failed == spent'["error"] > 0 \/ spent'["collision"] > 0

\* A worker takes the message of s off the queue.
Takes(p, s) == /\ p \in Workers /\ s \in queue /\ s \notin queue'
               /\ ~Carries(proc[p], s) /\ Carries(proc'[p], s)
               /\ proc'[p].pc = "feed"

Bounded ==
    /\ spent' \in [BoundedEvents -> Nat]
    /\ \A k \in BoundedEvents : spent[k] <= spent'[k]

\* The queue, the rows of the syncs and the bounds, after a step of p.
Minds(p) ==
    /\ syncs' \in [Syncs -> SyncRows \cup {None}]
    /\ queue' \subseteq Syncs
    /\ Bounded
    /\ p \in Workers /\ proc'[p].pc \in Working => Employed(proc'[p], syncs')
    /\ p \in Imports => proc'[p].sync = None
    /\ \A s \in Syncs :
         /\ syncs[s] # None => syncs'[s] # None
         /\ syncs'[s] = syncs[s] \/ HasResult(s) \/ Takes(p, s)
         /\ s \in queue => s \in queue' \/ Takes(p, s)
         /\ s \in queue' => s \in queue
                            \/ (Carries(proc[p], s) /\ ~Carries(proc'[p], s))
         /\ Carries(proc'[p], s) => Carries(proc[p], s) \/ Takes(p, s)
         /\ Carries(proc[p], s) => \/ Carries(proc'[p], s) \/ s \in queue'
                                   \/ Failed \/ HasResult(s)
         /\ Carries(proc'[p], s) /\ proc'[p].pc = "ack" => HasResult(s)

Requests(s) ==
    /\ syncs[s] = None /\ syncs'[s] # None
    /\ syncs' \in [Syncs -> SyncRows \cup {None}]
    /\ \A o \in Syncs \ {s} : syncs'[o] = syncs[o]
    /\ queue \subseteq queue' /\ queue' \subseteq queue \cup {s}
    /\ s \in queue' \/ Failed
    /\ Bounded
    /\ UNCHANGED <<rows, history, candidates, proc, clock, ghosts>>

Stops(p) ==
    /\ proc'[p].pc \in {"waiting", "done"}
    /\ proc'[p].touched \subseteq proc[p].touched
    /\ proc'[p].todo \subseteq proc'[p].touched
    /\ gaps' = gaps \cup Gap(p)
    /\ UNCHANGED <<rows, history, candidates, clock, held>>

Starts(p) ==
    /\ proc'[p].pc = "feed"
    /\ proc'[p].touched = {} /\ proc'[p].todo = {}
    /\ Alone' => Active = {}
    /\ UNCHANGED <<rows, history, candidates, clock, ghosts>>

Goes(p) ==
    /\ proc[p].pc \in {"feed", "rate"}
    /\ proc'[p].pc \in {"feed", "get", "rate", "ack"}
    /\ proc'[p].touched = proc[p].touched
    /\ proc'[p].todo \subseteq proc[p].touched
    /\ proc'[p].pc = "get" => /\ proc'[p].input \in Contributions
                              /\ proc'[p].cve = proc'[p].input.cve
    /\ proc'[p].pc = "rate" => proc'[p].todo = proc'[p].touched
    /\ UNCHANGED <<rows, history, candidates, clock, ghosts>>

Drops(p) ==
    /\ proc[p].pc \in Working /\ proc'[p].pc = proc[p].pc
    /\ Keeps(proc[p], proc'[p]) /\ proc'[p].base = proc[p].base
    /\ UNCHANGED <<rows, history, candidates, clock, ghosts>>

Reads(p) ==
    /\ proc[p].pc = "get" /\ proc'[p].pc = "upsert"
    /\ proc'[p].cve = proc[p].cve /\ proc'[p].input = proc[p].input
    /\ proc'[p].touched = proc[p].touched /\ proc'[p].todo = proc[p].todo
    /\ proc'[p].row = merge(KnownIn(proc[p].cve, rows), proc[p].input)
    /\ proc'[p].fields = Changes(KnownIn(proc[p].cve, rows), proc[p].input)
    /\ proc'[p].at = clock + 1
    /\ clock' = clock + 1
    /\ UNCHANGED <<rows, history, candidates, ghosts>>

Loads(p) ==
    /\ \/ proc[p].pc = "upsert" /\ proc'[p].pc = "commit"
       \/ proc[p].pc = "guess" /\ proc'[p].pc = "settle"
    /\ Keeps(proc[p], proc'[p])
    /\ proc'[p].base = rows[proc[p].cve]
    /\ UNCHANGED <<rows, history, candidates, clock, ghosts>>

SavedRow(p) == Saved(proc[p].row, proc[p].base, rows[proc[p].cve])

Stores(p) ==
    /\ \/ proc[p].pc = "commit" /\ proc'[p].pc = "source"
       \/ proc[p].pc = "settle" /\ proc'[p].pc = "candidate"
    /\ Keeps(proc[p], proc'[p])
    /\ proc[p].base # None \/ rows[proc[p].cve] = None
    /\ rows' = [rows EXCEPT ![proc[p].cve] = SavedRow(p)]
    /\ held' = held \cup {[cve |-> proc[p].cve, field |-> f,
                           value |-> SavedRow(p)[f]] : f \in TrackedFields}
    /\ UNCHANGED <<history, candidates, clock, gaps>>

Cites(p) ==
    /\ proc[p].pc = "source" /\ proc'[p].pc = "history"
    /\ Keeps(proc[p], proc'[p])
    /\ UNCHANGED <<rows, history, candidates, clock, ghosts>>

Appends(p) ==
    /\ proc[p].pc = "history" /\ proc'[p].pc = "products"
    /\ Keeps(proc[p], proc'[p])
    /\ history' = history \cup
         {[cve |-> proc[p].cve, field |-> f, new_value |-> proc[p].row[f],
           observed_at |-> proc[p].at] : f \in proc[p].fields}
    /\ gaps' = gaps \ {<<proc[p].cve, f>> : f \in proc[p].fields}
    /\ UNCHANGED <<rows, candidates, clock, held>>

Counted(p) ==
    /\ proc[p].pc = "products" /\ proc'[p].pc = "feed"
    /\ proc'[p].touched = proc[p].touched \cup {proc[p].cve}
    /\ proc'[p].todo = {}
    /\ UNCHANGED <<rows, history, candidates, clock, ghosts>>

Picks(p, v) ==
    /\ v \in proc[p].todo
    /\ proc[p].pc = "rate" /\ proc'[p].cve = v
    /\ proc'[p].touched = proc[p].touched
    /\ proc'[p].todo = proc[p].todo \ {v}
    /\ LET d == classify_domain(rows[v]).domain
       IN /\ proc'[p].row = [rows[v] EXCEPT !.domain_guess = d]
          /\ proc'[p].pc = IF rows[v].domain_guess = d THEN "candidate"
                           ELSE "guess"
    /\ UNCHANGED <<rows, history, candidates, clock, ghosts>>

Rates(p) ==
    /\ proc[p].pc = "candidate" /\ proc'[p].pc = "rate"
    /\ Keeps(proc[p], proc'[p])
    /\ LET k == Rating(proc[p].cve, proc[p].row)
       IN candidates' =
            IF Rateable(k)
            THEN {k} \cup UNION {Replace(c, k) : c \in candidates}
            ELSE candidates
    /\ UNCHANGED <<rows, history, clock, ghosts>>

Does(p) ==
    \/ Stops(p) \/ Starts(p) \/ Goes(p) \/ Drops(p) \/ Reads(p) \/ Loads(p)
    \/ Stores(p) \/ Cites(p) \/ Appends(p) \/ Counted(p)
    \/ (\E v \in CVEs : Picks(p, v)) \/ Rates(p)

\* The invariants that say what each process has to hand.
Ready == TypeOK /\ EquippedInv /\ EmployedInv /\ TokenInv

-----------------------------------------------------------------------------

LEMMA TypeFacts ==
    ASSUME TypeOK, NEW p \in Procs
    PROVE  /\ proc[p] \in ProcStates
           /\ DOMAIN proc = Procs
           /\ rows \in [CVEs -> Vulnerabilities \cup {None}]
           /\ clock \in Nat
  BY DEF TypeOK

LEMMA SpendFacts ==
    ASSUME TypeOK, NEW K, Spend(K)
    PROVE  /\ Bounded
           /\ \A k \in BoundedEvents \cap K : spent'[k] > 0
<1>0. spent \in [BoundedEvents -> Nat]
  BY DEF TypeOK
<1>1. spent' = [k \in BoundedEvents |-> spent[k] + IF k \in K THEN 1 ELSE 0]
  BY DEF Spend
<1>2. ASSUME NEW k \in BoundedEvents
      PROVE  /\ spent'[k] \in Nat /\ spent[k] <= spent'[k]
             /\ k \in K => spent'[k] > 0
  <2>1. spent[k] \in Nat
    BY <1>0
  <2>2. CASE k \in K
    <3>1. spent'[k] = spent[k] + 1
      BY <1>1, <2>2
    <3> QED
      BY <2>1, <3>1
  <2>3. CASE k \notin K
    <3>1. spent'[k] = spent[k] + 0
      BY <1>1, <2>3
    <3> QED
      BY <2>1, <2>3, <3>1
  <2> QED
    BY <2>2, <2>3
<1> HIDE DEF BoundedEvents
<1>3. spent' \in [BoundedEvents -> Nat]
  <2> DEFINE g(k) == spent[k] + IF k \in K THEN 1 ELSE 0
  <2>1. spent' = [k \in BoundedEvents |-> g(k)]
    BY <1>1
  <2> HIDE DEF g
  <2>2. \A k \in BoundedEvents : g(k) \in Nat
    BY <1>2, <2>1
  <2> QED
    BY <2>1, <2>2
<1> QED
  BY <1>2, <1>3 DEF Bounded

\* What a step that leaves spent alone owes the bounds.
LEMMA SpentSame ==
    ASSUME TypeOK, UNCHANGED spent
    PROVE  Bounded
  BY DEF TypeOK, Bounded

LEMMA GotoFacts ==
    ASSUME TypeOK, NEW p \in Procs, NEW step \in PCs, Goto(p, step)
    PROVE  /\ Moves(p) /\ proc'[p].pc = step
           /\ Keeps(proc[p], proc'[p]) /\ Minding(proc[p], proc'[p])
<1> DEFINE new == [proc[p] EXCEPT !.pc = step]
<1>1. proc[p] \in ProcStates /\ DOMAIN proc = Procs
  BY TypeFacts
<1>2. new \in ProcStates
  BY <1>1 DEF ProcStates, PCs
<1>3. new.pc = step /\ Keeps(proc[p], new) /\ Minding(proc[p], new)
  BY <1>1 DEF ProcStates, Keeps, Minding
<1>4. proc' = [proc EXCEPT ![p] = new]
  BY DEF Goto
<1> HIDE DEF new
<1>5. proc'[p] = new
  BY <1>1, <1>4
<1> QED
  BY <1>2, <1>3, <1>4, <1>5 DEF Moves

\* A worker goes on with the message it has, or an import with its workbook.
LEMMA MindsSame ==
    ASSUME TypeOK, EmployedInv, NEW p \in Procs, UNCHANGED <<syncs, queue>>,
           Bounded, proc[p].pc \in Working, proc'[p].pc \in Working \ {"ack"},
           Minding(proc[p], proc'[p])
    PROVE  Minds(p)
<1> HIDE DEF BoundedEvents
<1>1. syncs' \in [Syncs -> SyncRows \cup {None}] /\ queue' \subseteq Syncs
  BY DEF TypeOK
<1>2. p \in Workers => Employed(proc'[p], syncs')
  BY DEF EmployedInv, Employed, Minding
<1>3. p \in Imports => proc'[p].sync = None
  BY DEF EmployedInv, Minding
<1>4. \A s \in Syncs : Carries(proc'[p], s) <=> Carries(proc[p], s)
  BY DEF Carries, Minding
<1> QED
  BY <1>1, <1>2, <1>3, <1>4 DEF Minds

\* A worker saves the result of its sync.
LEMMA MindsSaved ==
    ASSUME TypeOK, EmployedInv, NEW w \in Workers, NEW result \in Terminal,
           SaveSync(proc[w], result), queue' = queue, Bounded,
           proc[w].pc \in Working, proc'[w].pc = "ack",
           Minding(proc[w], proc'[w])
    PROVE  Minds(w)
<1> DEFINE q == proc[w]
           new == SyncRow(q.source, result, q.n)
<1> HIDE DEF BoundedEvents
<1>0. q \in ProcStates /\ w \in Procs
  BY TypeFacts DEF Procs
<1>1. q.sync \in Syncs /\ q.source \in Sources /\ syncs[q.sync] # None
  BY <1>0 DEF EmployedInv, Employed, ProcStates
<1>2. q.n \in [Counts -> Nat]
  BY <1>0 DEF ProcStates
<1>3. new \in SyncRows /\ new.status = result
  BY <1>1, <1>2 DEF SyncRow, SyncRows
<1>4. new # None
  BY <1>3, NoRowAssumption
<1>5. syncs \in [Syncs -> SyncRows \cup {None}] /\ queue' \subseteq Syncs
  BY DEF TypeOK
<1>6. syncs' = [syncs EXCEPT ![q.sync] = new]
  BY DEF SaveSync
<1> HIDE DEF new
<1>7. /\ syncs' \in [Syncs -> SyncRows \cup {None}]
      /\ syncs'[q.sync] = new
      /\ \A s \in Syncs \ {q.sync} : syncs'[s] = syncs[s]
  BY <1>1, <1>3, <1>5, <1>6
<1>8. HasResult(q.sync)
  BY <1>3, <1>4, <1>7 DEF HasResult
<1>9. \A s \in Syncs : Carries(proc'[w], s) <=> Carries(proc[w], s)
  BY DEF Carries, Minding, Working
<1>10. \A s \in Syncs : Carries(proc[w], s) => s = q.sync
  BY DEF Carries
<1>11. Employed(proc'[w], syncs') /\ w \notin Imports
  BY <1>1, <1>4, <1>7, SyncAssumption DEF Employed, Minding
<1> HIDE DEF q
<1>12. \A s \in Syncs :
         /\ syncs[s] # None => syncs'[s] # None
         /\ syncs'[s] = syncs[s] \/ HasResult(s)
         /\ Carries(proc[w], s) => HasResult(s)
  BY <1>4, <1>7, <1>8, <1>10
<1> QED
  BY <1>5, <1>7, <1>9, <1>11, <1>12 DEF Minds
-----------------------------------------------------------------------------
(* The kind of step that each action is. *)

LEMMA SubmitFacts ==
    ASSUME Ready, NEW s \in Syncs, NEW source \in Sources,
           submit_sync(s, source)
    PROVE  Requests(s)
<1>0. TypeOK
  BY DEF Ready
<1>1. PICK published, logged \in BOOLEAN :
        /\ Spend({"request"} \cup IF published /\ logged THEN {} ELSE {"error"})
        /\ queue' = queue \cup IF published THEN {s} ELSE {}
  BY DEF submit_sync
<1>2. ~published => spent'["error"] > 0
  BY <1>0, <1>1, SpendFacts
<1>3. Bounded
  BY <1>0, <1>1, SpendFacts
<1> HIDE DEF BoundedEvents
<1> DEFINE new == SyncRow(source, "queued", NoCounts)
<1>4. new \in SyncRows /\ new # None
  BY NoRowAssumption DEF SyncRow, SyncRows, NoCounts
<1>5. syncs \in [Syncs -> SyncRows \cup {None}] /\ syncs[s] = None
  BY <1>0 DEF TypeOK, submit_sync
<1>6. syncs' = [syncs EXCEPT ![s] = new]
  BY DEF submit_sync
<1> HIDE DEF new
<1>7. /\ syncs' \in [Syncs -> SyncRows \cup {None}] /\ syncs'[s] # None
      /\ \A o \in Syncs \ {s} : syncs'[o] = syncs[o]
  BY <1>4, <1>5, <1>6
<1>8. queue \subseteq queue' /\ queue' \subseteq queue \cup {s}
      /\ (published => s \in queue')
  BY <1>1
<1>9. UNCHANGED <<rows, history, candidates, proc, clock, ghosts>>
  BY DEF submit_sync, tables, ghosts
<1> QED
  BY <1>2, <1>3, <1>5, <1>7, <1>8, <1>9 DEF Requests, Failed

LEMMA OverlapCounts ==
    ASSUME TypeOK, NEW K, Spend(K \cup Overlap)
    PROVE  Active # {} => spent'["overlap"] > 0
<1>1. Active # {} => "overlap" \in Overlap
  BY DEF Overlap
<1>2. \A k \in BoundedEvents \cap (K \cup Overlap) : spent'[k] > 0
  BY SpendFacts
<1> QED
  BY <1>1, <1>2

LEMMA DeliverFacts ==
    ASSUME Ready, NEW w \in Workers, NEW s \in Syncs, Deliver(w, s)
    PROVE  Moves(w) /\ Minds(w) /\ Starts(w)
<1> DEFINE new == [Started(syncs[s].source) EXCEPT !.sync = s]
           row == SyncRow(syncs[s].source, "running", NoCounts)
<1>0. /\ TypeOK /\ w \in Procs /\ DOMAIN proc = Procs /\ w \notin Imports
      /\ s \in queue /\ s # None /\ proc[w].pc = "waiting"
      /\ syncs \in [Syncs -> SyncRows \cup {None}]
  BY TypeFacts, SyncAssumption DEF Procs, Ready, Deliver, TypeOK
<1>1. syncs[s] \in SyncRows
  BY <1>0 DEF Ready, TokenInv
<1>2. syncs[s].source \in Sources
  BY <1>1 DEF SyncRows
<1>3. row \in SyncRows /\ row # None
  BY <1>2, NoRowAssumption DEF SyncRow, SyncRows, NoCounts
<1>4. /\ new \in ProcStates /\ new.pc = "feed" /\ new.sync = s
      /\ new.source \in Sources /\ ~new.lost
      /\ new.touched = {} /\ new.todo = {}
  BY <1>2 DEF Started, Idle, NoCounts, ProcStates, Working
<1>5. /\ proc' = [proc EXCEPT ![w] = new]
      /\ syncs' = [syncs EXCEPT ![s] = row] /\ queue' = queue \ {s}
      /\ UNCHANGED <<tables, clock, ghosts>>
  BY DEF Deliver
<1> HIDE DEF new, row
<1>6. proc'[w] = new
  BY <1>0, <1>5
<1>7. Moves(w)
  BY <1>4, <1>5, <1>6 DEF Moves
<1>8. Spend({} \cup Overlap)
  <2>1. {} \cup Overlap = Overlap
    OBVIOUS
  <2> QED
    BY <2>1 DEF Deliver
<1>9. Bounded /\ (Active # {} => spent'["overlap"] > 0)
  BY <1>0, <1>8, OverlapCounts, SpendFacts
<1>10. Alone' => Active = {}
  BY <1>9 DEF Alone
<1>11. Starts(w)
  BY <1>4, <1>5, <1>6, <1>10 DEF Starts, tables, ghosts
<1> HIDE DEF BoundedEvents
<1>12. /\ syncs' \in [Syncs -> SyncRows \cup {None}] /\ syncs'[s] # None
       /\ \A o \in Syncs \ {s} : syncs'[o] = syncs[o]
       /\ queue' \subseteq Syncs
  BY <1>0, <1>3, <1>5 DEF TypeOK
<1>13. \A o \in Syncs : /\ ~Carries(proc[w], o)
                        /\ Carries(proc'[w], o) <=> o = s
  BY <1>0, <1>4, <1>6 DEF Carries, Working
<1>14. Takes(w, s)
  BY <1>0, <1>4, <1>5, <1>6, <1>13 DEF Takes
<1>15. Employed(proc'[w], syncs')
  BY <1>0, <1>4, <1>6, <1>12 DEF Employed
<1>16. proc'[w].pc # "ack"
  BY <1>4, <1>6
<1>17. \A o \in Syncs : o \in queue' => o \in queue
  BY <1>5
<1>18. \A o \in Syncs \ {s} : o \in queue => o \in queue'
  BY <1>5
<1>19. Minds(w)
  BY <1>0, <1>9, <1>12, <1>13, <1>14, <1>15, <1>16, <1>17, <1>18 DEF Minds
<1> QED
  BY <1>7, <1>11, <1>19

LEMMA StartImportFacts ==
    ASSUME Ready, NEW i \in Imports, StartImport(i)
    PROVE  Moves(i) /\ Minds(i) /\ Starts(i)
<1> DEFINE new == Started("manual_import")
<1>0. /\ TypeOK /\ i \in Procs /\ DOMAIN proc = Procs /\ i \notin Workers
  BY TypeFacts, SyncAssumption DEF Procs, Ready
<1>1. "manual_import" \in Sources
  BY DEF Sources, SourcePriority
<1>2. /\ new \in ProcStates /\ new.pc = "feed" /\ new.sync = None
      /\ new.touched = {} /\ new.todo = {}
  BY <1>1 DEF Started, Idle, NoCounts, ProcStates, Working
<1>3. /\ proc' = [proc EXCEPT ![i] = new]
      /\ UNCHANGED <<tables, clock, ghosts, syncs, queue>>
  BY DEF StartImport
<1> HIDE DEF new
<1>4. proc'[i] = new
  BY <1>0, <1>3
<1>5. Moves(i)
  BY <1>2, <1>3, <1>4 DEF Moves
<1>6. Bounded /\ (Active # {} => spent'["overlap"] > 0)
  BY <1>0, OverlapCounts, SpendFacts DEF StartImport
<1>7. Alone' => Active = {}
  BY <1>6 DEF Alone
<1>8. Starts(i)
  BY <1>2, <1>3, <1>4, <1>7 DEF Starts, tables, ghosts
<1> HIDE DEF BoundedEvents
<1>9. proc[i].sync = None
  BY DEF Ready, EmployedInv
<1>10. \A s \in Syncs : ~Carries(proc'[i], s) /\ ~Carries(proc[i], s)
  BY <1>2, <1>4, <1>9, SyncAssumption DEF Carries
<1>11. syncs' \in [Syncs -> SyncRows \cup {None}] /\ queue' \subseteq Syncs
  BY <1>0, <1>3 DEF TypeOK
<1>12. Minds(i)
  BY <1>0, <1>2, <1>3, <1>4, <1>6, <1>10, <1>11 DEF Minds
<1> QED
  BY <1>5, <1>8, <1>12

LEMMA CountType ==
    ASSUME NEW n \in [Counts -> Nat], NEW K
    PROVE  Count(n, K) \in [Counts -> Nat]
<1> DEFINE g(k) == n[k] + IF k \in K THEN 1 ELSE 0
<1>1. \A k \in Counts : g(k) \in Nat
  OBVIOUS
<1>2. Count(n, K) = [k \in Counts |-> g(k)]
  BY DEF Count
<1> HIDE DEF g
<1> QED
  BY <1>1, <1>2

\* A record is fetched: only the counts, the input and the CVE change.
LEMMA FetchFacts ==
    ASSUME Ready, NEW p \in Procs, NEW step \in {"feed", "get"},
           NEW c \in Contributions \cup {None}, NEW v \in CVEs \cup {None},
           NEW n \in [Counts -> Nat], proc[p].pc = "feed",
           proc' = [proc EXCEPT ![p] = [proc[p] EXCEPT !.pc = step, !.input = c,
                                                       !.cve = v, !.n = n]],
           step = "get" => c \in Contributions /\ v = c.cve,
           UNCHANGED <<rows, history, candidates, clock, ghosts, syncs, queue>>,
           Bounded
    PROVE  Moves(p) /\ Minds(p) /\ Goes(p)
<1> HIDE DEF BoundedEvents
<1> DEFINE new == [proc[p] EXCEPT !.pc = step, !.input = c, !.cve = v, !.n = n]
<1>0. /\ TypeOK /\ EquippedInv /\ EmployedInv
      /\ proc[p] \in ProcStates /\ DOMAIN proc = Procs
  BY TypeFacts DEF Ready
<1>1. /\ new.pc = step /\ new.input = c /\ new.cve = v
      /\ new.touched = proc[p].touched /\ new.todo = proc[p].todo
      /\ Minding(proc[p], new)
  BY <1>0 DEF ProcStates, Minding
<1>7. new \in ProcStates
  BY <1>0 DEF ProcStates, Working
<1> HIDE DEF new
<1>2. proc'[p] = new
  BY <1>0 DEF new
<1>3. Moves(p)
  BY <1>2, <1>7 DEF Moves, new
<1>4. Minds(p)
  BY <1>0, <1>1, <1>2, MindsSame DEF Working
<1>5. proc[p].todo \subseteq proc[p].touched
  BY <1>0 DEF EquippedInv, Equipped
<1>6. Goes(p)
  BY <1>1, <1>2, <1>5 DEF Goes
<1> QED
  BY <1>3, <1>4, <1>6

LEMMA FetchRecordFacts ==
    ASSUME Ready, NEW p \in Procs, NEW c \in Contributions, FetchRecord(p, c)
    PROVE  Moves(p) /\ Minds(p) /\ Goes(p)
<1> DEFINE n == Count(proc[p].n, {"fetched"})
<1>0. TypeOK
  BY DEF Ready
<1>1. proc[p].n \in [Counts -> Nat]
  BY <1>0, TypeFacts DEF ProcStates
<1>2. n \in [Counts -> Nat]
  BY <1>1, CountType
<1>3. proc' = [proc EXCEPT ![p] = [proc[p] EXCEPT !.pc = "get", !.input = c,
                                                  !.cve = c.cve, !.n = n]]
  BY DEF FetchRecord
<1> HIDE DEF n
<1>4. c.cve \in CVEs
  BY SyncAssumption
<1>5. Bounded
  BY <1>0, SpendFacts DEF FetchRecord
<1>6. /\ UNCHANGED <<rows, history, candidates, clock, ghosts, syncs, queue>>
      /\ proc[p].pc = "feed"
  BY DEF FetchRecord
<1> HIDE DEF BoundedEvents
<1> QED
  BY <1>2, <1>3, <1>4, <1>5, <1>6, FetchFacts

\* A record that only counts.
LEMMA CountedOnly ==
    ASSUME Ready, NEW p \in Procs, NEW K, proc[p].pc = "feed",
           proc' = [proc EXCEPT ![p].n = Count(@, K)],
           UNCHANGED <<rows, history, candidates, clock, ghosts, syncs, queue>>,
           Bounded
    PROVE  Moves(p) /\ Minds(p) /\ Goes(p)
<1> HIDE DEF BoundedEvents
<1> DEFINE n == Count(proc[p].n, K)
           new == [proc[p] EXCEPT !.n = n]
<1>0. /\ TypeOK /\ EquippedInv /\ EmployedInv
      /\ proc[p] \in ProcStates /\ DOMAIN proc = Procs
  BY TypeFacts DEF Ready
<1>1. n \in [Counts -> Nat]
  BY <1>0, CountType DEF ProcStates
<1>2. proc' = [proc EXCEPT ![p] = new]
  OBVIOUS
<1> HIDE DEF n
<1>3. /\ new \in ProcStates /\ new.pc = "feed"
      /\ new.touched = proc[p].touched /\ new.todo = proc[p].todo
      /\ Minding(proc[p], new)
  BY <1>0, <1>1 DEF ProcStates, Minding
<1> HIDE DEF new
<1>4. proc'[p] = new
  BY <1>0, <1>2
<1>5. Moves(p)
  BY <1>2, <1>3, <1>4 DEF Moves
<1>6. Minds(p)
  BY <1>0, <1>3, <1>4, MindsSame DEF Working
<1>7. proc[p].todo \subseteq proc[p].touched
  BY <1>0 DEF EquippedInv, Equipped
<1>8. Goes(p)
  BY <1>3, <1>4, <1>7 DEF Goes
<1> QED
  BY <1>5, <1>6, <1>8

LEMMA FetchAdvisoryFacts ==
    ASSUME Ready, NEW w \in Procs, NEW a, FetchAdvisory(w, a)
    PROVE  Moves(w) /\ Minds(w) /\ Goes(w)
<1>1. Bounded
  BY SpendFacts DEF FetchAdvisory, Ready
<1> QED
  BY <1>1, CountedOnly DEF FetchAdvisory

LEMMA FetchMalformedFacts ==
    ASSUME Ready, NEW w \in Procs, FetchMalformed(w)
    PROVE  Moves(w) /\ Minds(w) /\ Goes(w)
<1>1. Bounded
  BY SpendFacts DEF FetchMalformed, Ready
<1> QED
  BY <1>1, CountedOnly DEF FetchMalformed

LEMMA GetAndMergeFacts ==
    ASSUME Ready, NEW p \in Procs, GetAndMerge(p)
    PROVE  Moves(p) /\ Minds(p) /\ Reads(p)
<1> DEFINE q == proc[p]
           e == KnownIn(q.cve, rows)
           m == merge(e, q.input)
           c == Changes(e, q.input)
           b == rows[q.cve] = None
           t == clock + 1
           new == [q EXCEPT !.pc = "upsert", !.at = t, !.row = m,
                            !.fields = c, !.new = b]
<1>0. /\ TypeOK /\ EquippedInv /\ EmployedInv
      /\ q \in ProcStates /\ DOMAIN proc = Procs /\ q.pc = "get"
  BY TypeFacts DEF GetAndMerge, Ready
<1>1. q.input \in Contributions /\ q.cve = q.input.cve
  BY <1>0 DEF EquippedInv, Equipped
<1>2. q.cve \in CVEs
  BY <1>1, SyncAssumption
<1>3. e \in Vulnerabilities
  BY <1>0, <1>2, BlankType, TypeFacts DEF KnownIn
<1>4. m \in Vulnerabilities
  BY <1>1, <1>3, MergeType
<1>5. c \subseteq TrackedFields
  BY DEF Changes
<1>6. b \in BOOLEAN /\ t \in Nat
  BY <1>0, TypeFacts
<1>7. proc' = [proc EXCEPT ![p] = new]
  BY DEF GetAndMerge, KnownIn, FollowedBy
<1> HIDE DEF m, c, b, t
<1>8. /\ new \in ProcStates /\ new.pc = "upsert"
      /\ new.cve = q.cve /\ new.input = q.input
      /\ new.touched = q.touched /\ new.todo = q.todo
      /\ new.row = m /\ new.fields = c /\ new.at = t
  BY <1>0, <1>4, <1>5, <1>6 DEF ProcStates, Working
<1>9. Minding(proc[p], new)
  BY <1>0 DEF ProcStates, Minding
<1> HIDE DEF new
<1>10. proc'[p] = new
  BY <1>0, <1>7
<1>11. Moves(p)
  BY <1>7, <1>8, <1>10 DEF Moves
<1>12. Minds(p)
  BY <1>0, <1>8, <1>9, <1>10, MindsSame, SpentSame DEF GetAndMerge, Working
<1>13. Reads(p)
  BY <1>0, <1>8, <1>10 DEF Reads, GetAndMerge, tables, ghosts, m, c, t
<1> QED
  BY <1>11, <1>12, <1>13

LEMMA GoOnFacts ==
    ASSUME Ready, NEW p \in Procs, NEW step \in Working \ {"ack"},
           Goto(p, step), proc[p].pc \in Working,
           UNCHANGED <<syncs, queue, spent>>
    PROVE  /\ Moves(p) /\ Minds(p) /\ proc'[p].pc = step
           /\ Keeps(proc[p], proc'[p])
<1>0. TypeOK /\ EmployedInv
  BY DEF Ready
<1>1. /\ Moves(p) /\ proc'[p].pc = step /\ Keeps(proc[p], proc'[p])
      /\ Minding(proc[p], proc'[p])
  BY <1>0, GotoFacts DEF PCs
<1> QED
  BY <1>0, <1>1, MindsSame, SpentSame

LEMMA LoadFacts ==
    ASSUME Ready, NEW p \in Procs, LoadRow(p)
    PROVE  Moves(p) /\ Minds(p) /\ Loads(p)
<1> DEFINE q == proc[p]
           b == rows[q.cve]
           step == AfterLoad[q.pc]
           new == [q EXCEPT !.base = b, !.pc = step]
<1>0. /\ TypeOK /\ EquippedInv /\ EmployedInv
      /\ q \in ProcStates /\ DOMAIN proc = Procs
  BY TypeFacts DEF Ready
<1>1. \/ q.pc = "upsert" /\ step = "commit"
      \/ q.pc = "guess" /\ step = "settle"
  BY DEF LoadRow, AfterLoad
<1>2. q.cve \in CVEs
  BY <1>0, <1>1, SyncAssumption DEF EquippedInv, Equipped
<1>3. b \in Vulnerabilities \cup {None}
  BY <1>0, <1>2, TypeFacts
<1>4. proc' = [proc EXCEPT ![p] = new]
  BY DEF LoadRow
<1> HIDE DEF b, step
<1>5. /\ new.pc = step /\ new.base = b
      /\ Keeps(q, new) /\ Minding(q, new)
  BY <1>0 DEF ProcStates, Keeps, Minding
<1>6. new \in ProcStates
  BY <1>0, <1>1, <1>3 DEF ProcStates, Working
<1> HIDE DEF new
<1>7. proc'[p] = new
  BY <1>0, <1>4
<1>8. Moves(p)
  BY <1>4, <1>6, <1>7 DEF Moves
<1>9. Minds(p)
  BY <1>0, <1>1, <1>5, <1>7, MindsSame, SpentSame DEF LoadRow, Working
<1>10. Loads(p)
  BY <1>1, <1>5, <1>7 DEF Loads, LoadRow, tables, ghosts, b
<1> QED
  BY <1>8, <1>9, <1>10

LEMMA CommitFacts ==
    ASSUME Ready, NEW p \in Procs, CommitRow(p)
    PROVE  Moves(p) /\ Minds(p) /\ Stores(p)
<1> DEFINE step == AfterCommit[proc[p].pc]
<1>1. \/ proc[p].pc = "commit" /\ step = "source"
      \/ proc[p].pc = "settle" /\ step = "candidate"
  BY DEF CommitRow, AfterCommit, FollowedBy
<1>2. Goto(p, step) /\ UNCHANGED <<syncs, queue, spent>>
  BY DEF CommitRow
<1> HIDE DEF step
<1>3. step \in Working \ {"ack"} /\ proc[p].pc \in Working
  BY <1>1 DEF Working
<1>4. /\ Moves(p) /\ Minds(p) /\ proc'[p].pc = step
      /\ Keeps(proc[p], proc'[p])
  BY <1>2, <1>3, GoOnFacts
<1>5. /\ rows' = [rows EXCEPT ![proc[p].cve] = SavedRow(p)]
      /\ held' = held \cup {[cve |-> proc[p].cve, field |-> f,
                             value |-> SavedRow(p)[f]] : f \in TrackedFields}
      /\ proc[p].base # None \/ rows[proc[p].cve] = None
      /\ UNCHANGED <<history, candidates, clock, gaps>>
  BY DEF CommitRow, SavedRow
<1> QED
  BY <1>1, <1>4, <1>5 DEF Stores

LEMMA SourceFacts ==
    ASSUME Ready, NEW p \in Procs, upsert_source_record(p)
    PROVE  Moves(p) /\ Minds(p) /\ Cites(p)
<1>1. /\ Goto(p, "history") /\ proc[p].pc = "source"
      /\ UNCHANGED <<syncs, queue, spent>>
  BY DEF upsert_source_record, FollowedBy
<1>2. /\ Moves(p) /\ Minds(p) /\ proc'[p].pc = "history"
      /\ Keeps(proc[p], proc'[p])
  BY <1>1, GoOnFacts DEF Working
<1> QED
  BY <1>2 DEF Cites, upsert_source_record

LEMMA AppendFacts ==
    ASSUME Ready, NEW p \in Procs, append_history(p)
    PROVE  Moves(p) /\ Minds(p) /\ Appends(p)
<1>1. /\ Goto(p, "products") /\ proc[p].pc = "history"
      /\ UNCHANGED <<syncs, queue, spent>>
  BY DEF append_history, FollowedBy
<1>2. /\ Moves(p) /\ Minds(p) /\ proc'[p].pc = "products"
      /\ Keeps(proc[p], proc'[p])
  BY <1>1, GoOnFacts DEF Working
<1> QED
  BY <1>2 DEF Appends, append_history

LEMMA ProductsFacts ==
    ASSUME Ready, NEW p \in Procs, UpsertProductsAndCount(p)
    PROVE  Moves(p) /\ Minds(p) /\ Counted(p)
<1> DEFINE q == proc[p]
           outcome == IF q.new THEN "created"
                      ELSE IF q.fields # {} THEN "updated" ELSE "unchanged"
           n == Count(q.n, {outcome})
           T == q.touched \cup {q.cve}
           new == [Started(q.source) EXCEPT !.sync = q.sync, !.lost = q.lost,
                                            !.n = n, !.touched = T]
<1>0. /\ TypeOK /\ EquippedInv /\ EmployedInv
      /\ q \in ProcStates /\ DOMAIN proc = Procs /\ q.pc = "products"
  BY TypeFacts DEF UpsertProductsAndCount, Ready
<1>1. n \in [Counts -> Nat]
  BY <1>0, CountType DEF ProcStates
<1>2. T \subseteq CVEs
  BY <1>0 DEF ProcStates, EquippedInv, Equipped
<1>3. proc' = [proc EXCEPT ![p] = new]
  BY DEF UpsertProductsAndCount
<1> HIDE DEF n, T
<1>4. /\ q.source \in Sources \cup {None} /\ q.sync \in Syncs \cup {None}
      /\ q.lost \in BOOLEAN
  BY <1>0 DEF ProcStates
<1>5. /\ new.pc = "feed" /\ new.touched = T /\ new.todo = {}
      /\ Minding(q, new)
  BY DEF Started, Idle, Minding
<1>6. new \in ProcStates
  BY <1>1, <1>2, <1>4 DEF Started, Idle, NoCounts, ProcStates, Working
<1> HIDE DEF new
<1>7. proc'[p] = new
  BY <1>0, <1>3
<1>8. Moves(p)
  BY <1>3, <1>6, <1>7 DEF Moves
<1>9. Minds(p)
  BY <1>0, <1>5, <1>7, MindsSame, SpentSame
  DEF UpsertProductsAndCount, Working
<1>10. Counted(p)
  BY <1>0, <1>5, <1>7 DEF Counted, UpsertProductsAndCount, ghosts, T
<1> QED
  BY <1>8, <1>9, <1>10

LEMMA EndOfFeedFacts ==
    ASSUME Ready, NEW p \in Procs, EndOfFeed(p)
    PROVE  Moves(p) /\ Minds(p) /\ (Stops(p) \/ Goes(p))
<1> DEFINE q == proc[p]
           step == IF p \in Imports THEN "done" ELSE "rate"
           new == [q EXCEPT !.pc = step, !.todo = q.touched]
<1>0. /\ TypeOK /\ EquippedInv /\ EmployedInv
      /\ q \in ProcStates /\ DOMAIN proc = Procs /\ q.pc = "feed"
  BY TypeFacts DEF EndOfFeed, Ready
<1>1. /\ step \in {"done", "rate"}
      /\ step = "done" => p \notin Workers /\ p \in Imports
  BY SyncAssumption
<1>2. proc' = [proc EXCEPT ![p] = new]
  BY DEF EndOfFeed
<1> HIDE DEF step
<1>3. /\ new \in ProcStates /\ new.pc = step
      /\ new.touched = q.touched /\ new.todo = q.touched
  BY <1>0, <1>1 DEF ProcStates, Working
<1>4. Minding(q, new)
  BY <1>0 DEF ProcStates, Minding
<1> HIDE DEF new
<1>5. proc'[p] = new
  BY <1>0, <1>2
<1>6. Moves(p)
  BY <1>2, <1>3, <1>5 DEF Moves
<1>7. CASE step = "rate"
  <2>1. Goes(p)
    BY <1>0, <1>3, <1>5, <1>7 DEF Goes, EndOfFeed, tables, ghosts
  <2>2. Minds(p)
    BY <1>0, <1>3, <1>4, <1>5, <1>7, MindsSame, SpentSame
    DEF EndOfFeed, Working
  <2> QED
    BY <1>6, <2>1, <2>2
<1>8. CASE step = "done"
  <2>1. Gap(p) = {}
    BY <1>0 DEF Gap
  <2>2. Stops(p)
    BY <1>3, <1>5, <1>8, <2>1 DEF Stops, EndOfFeed, tables, ghosts
  <2>3. Minds(p)
    <3>1. UNCHANGED <<syncs, queue, spent>>
      BY DEF EndOfFeed
    <3>2. Bounded
      BY <1>0, <3>1, SpentSame
    <3> HIDE DEF BoundedEvents
    <3>3. q.sync = None /\ proc'[p].sync = None
      BY <1>0, <1>1, <1>4, <1>5, <1>8 DEF EmployedInv, Minding
    <3>4. \A s \in Syncs : ~Carries(proc[p], s) /\ ~Carries(proc'[p], s)
      BY <3>3, SyncAssumption DEF Carries
    <3>5. syncs' \in [Syncs -> SyncRows \cup {None}] /\ queue' \subseteq Syncs
      BY <1>0, <3>1 DEF TypeOK
    <3> QED
      BY <1>1, <1>8, <3>1, <3>2, <3>3, <3>4, <3>5 DEF Minds
  <2> QED
    BY <1>6, <2>2, <2>3
<1> QED
  BY <1>1, <1>7, <1>8

LEMMA ReadTouchedFacts ==
    ASSUME Ready, NEW p \in Procs, NEW v \in CVEs, ReadTouched(p, v)
    PROVE  Moves(p) /\ Minds(p) /\ Picks(p, v)
<1> DEFINE q == proc[p]
           d == classify_domain(rows[v]).domain
           row == [rows[v] EXCEPT !.domain_guess = d]
           step == IF rows[v].domain_guess = d THEN "candidate" ELSE "guess"
           T == q.todo \ {v}
           new == [q EXCEPT !.cve = v, !.todo = T, !.row = row, !.pc = step]
<1>0. /\ TypeOK /\ EquippedInv /\ EmployedInv
      /\ q \in ProcStates /\ DOMAIN proc = Procs /\ q.pc = "rate"
      /\ v \in q.todo
  BY TypeFacts DEF ReadTouched, Ready
<1>1. rows[v] \in Vulnerabilities
  <2>1. rows[v] # None
    BY <1>0 DEF EquippedInv, Equipped
  <2> QED
    BY <1>0, <2>1, TypeFacts
<1>2. d \in Domains \cup {None}
  BY ClassifyType
<1>3. proc' = [proc EXCEPT ![p] = new]
  BY DEF ReadTouched
<1>4. step \in {"candidate", "guess"}
  OBVIOUS
<1>5. T \subseteq CVEs
  BY <1>0 DEF ProcStates
<1> HIDE DEF d
<1>6. row \in Vulnerabilities
  BY <1>1, <1>2, GuessRow
<1> HIDE DEF row, step, T
<1>7. /\ new \in ProcStates /\ new.cve = v /\ new.todo = T /\ new.row = row
      /\ new.pc = step /\ new.touched = q.touched
  BY <1>0, <1>4, <1>5, <1>6 DEF ProcStates, Working
<1>8. Minding(q, new)
  BY <1>0 DEF ProcStates, Minding
<1> HIDE DEF new
<1>9. proc'[p] = new
  BY <1>0, <1>3
<1>10. Moves(p)
  BY <1>3, <1>7, <1>9 DEF Moves
<1>11. Minds(p)
  BY <1>0, <1>4, <1>7, <1>8, <1>9, MindsSame, SpentSame
  DEF ReadTouched, Working
<1>12. UNCHANGED <<rows, history, candidates, clock, ghosts>>
  BY DEF ReadTouched, tables
<1>13. Picks(p, v)
  BY <1>0, <1>7, <1>9, <1>12 DEF Picks, T, row, step, d
<1> QED
  BY <1>10, <1>11, <1>13

LEMMA CandidateFacts ==
    ASSUME Ready, NEW p \in Procs, UpsertCandidate(p)
    PROVE  Moves(p) /\ Minds(p) /\ Rates(p)
<1>1. /\ Moves(p) /\ Minds(p) /\ proc'[p].pc = "rate"
      /\ Keeps(proc[p], proc'[p])
  BY GoOnFacts DEF Working, UpsertCandidate
<1> QED
  BY <1>1 DEF Rates, UpsertCandidate

LEMMA SaveFinalFacts ==
    ASSUME Ready, NEW w \in Workers, SaveFinal(w)
    PROVE  Moves(w) /\ Minds(w) /\ Goes(w)
<1>0. /\ TypeOK /\ EquippedInv /\ EmployedInv
      /\ w \in Procs /\ proc[w] \in ProcStates /\ proc[w].pc = "rate"
  BY TypeFacts DEF Procs, SaveFinal, Ready
<1>1. /\ Moves(w) /\ proc'[w].pc = "ack" /\ Keeps(proc[w], proc'[w])
      /\ Minding(proc[w], proc'[w])
  BY <1>0, GotoFacts DEF SaveFinal, PCs, Working
<1>2. FinalStatus(proc[w].n) \in Terminal
  BY DEF FinalStatus, Terminal
<1>3. SaveSync(proc[w], FinalStatus(proc[w].n)) /\ UNCHANGED <<queue, spent>>
  BY DEF SaveFinal
<1>4. Bounded
  BY <1>0, <1>3, SpentSame
<1> HIDE DEF BoundedEvents
<1>5. Minds(w)
  BY <1>0, <1>1, <1>2, <1>3, <1>4, MindsSaved DEF Working
<1>6. proc[w].todo \subseteq proc[w].touched
  BY <1>0 DEF EquippedInv, Equipped
<1>7. Goes(w)
  BY <1>0, <1>1, <1>6 DEF Goes, Keeps, SaveFinal, tables, ghosts
<1> QED
  BY <1>1, <1>5, <1>7

LEMMA OutageFacts ==
    ASSUME Ready, NEW w \in Workers, Outage(w)
    PROVE  Moves(w) /\ Minds(w) /\ Goes(w)
<1>0. /\ TypeOK /\ EquippedInv /\ EmployedInv
      /\ w \in Procs /\ proc[w] \in ProcStates /\ proc[w].pc = "feed"
  BY TypeFacts DEF Procs, Outage, Ready
<1>1. /\ Moves(w) /\ proc'[w].pc = "ack" /\ Keeps(proc[w], proc'[w])
      /\ Minding(proc[w], proc'[w])
  BY <1>0, GotoFacts DEF Outage, PCs, Working
<1>2. SaveSync(proc[w], "failed") /\ queue' = queue
  BY DEF Outage
<1>3. Bounded
  BY <1>0, SpendFacts DEF Outage
<1> HIDE DEF BoundedEvents
<1>4. Minds(w)
  BY <1>0, <1>1, <1>2, <1>3, MindsSaved DEF Working, Terminal
<1>5. proc[w].todo \subseteq proc[w].touched
  BY <1>0 DEF EquippedInv, Equipped
<1>6. Goes(w)
  BY <1>0, <1>1, <1>5 DEF Goes, Keeps, Outage, tables, ghosts
<1> QED
  BY <1>1, <1>4, <1>6

\* A worker or an import stops, and its message is where it should be.
LEMMA StopFacts ==
    ASSUME Ready, NEW p \in Procs, proc[p].pc \in Working,
           proc' = [proc EXCEPT ![p] = Stopped(p)], gaps' = gaps \cup Gap(p),
           UNCHANGED <<rows, history, candidates, clock, held, syncs>>,
           queue' \subseteq Syncs, queue \subseteq queue', Bounded,
           \A s \in queue' : s \in queue \/ Carries(proc[p], s),
           \A s \in Syncs : Carries(proc[p], s) =>
               s \in queue' \/ Failed \/ HasResult(s)
    PROVE  Moves(p) /\ Minds(p) /\ Stops(p)
<1> HIDE DEF BoundedEvents
<1> DEFINE new == Stopped(p)
<1>0. TypeOK /\ proc[p] \in ProcStates /\ DOMAIN proc = Procs
  BY TypeFacts DEF Ready
<1>1. /\ new \in ProcStates /\ new.pc \in {"waiting", "done"}
      /\ new.sync = None /\ new.touched = {} /\ new.todo = {}
  BY DEF Stopped, Idle, NoCounts, ProcStates
<1> HIDE DEF new
<1>2. proc' = [proc EXCEPT ![p] = new] /\ proc'[p] = new
  BY <1>0 DEF new
<1>3. Moves(p)
  BY <1>1, <1>2 DEF Moves
<1>4. proc'[p].pc \notin Working
  BY <1>1, <1>2 DEF Working
<1>5. \A s \in Syncs : ~Carries(proc'[p], s)
  BY <1>4 DEF Carries
<1>6. syncs' \in [Syncs -> SyncRows \cup {None}]
  BY <1>0 DEF TypeOK
<1>7. Minds(p)
  BY <1>1, <1>2, <1>4, <1>5, <1>6 DEF Minds
<1>8. Stops(p)
  BY <1>1, <1>2 DEF Stops
<1> QED
  BY <1>3, <1>7, <1>8

LEMMA AckFacts ==
    ASSUME Ready, NEW w \in Workers, Ack(w)
    PROVE  Moves(w) /\ Minds(w) /\ Stops(w)
<1>0. TypeOK /\ w \in Procs /\ proc[w].pc = "ack"
  BY DEF Procs, Ack, Ready
<1>1. Gap(w) = {}
  BY <1>0 DEF Gap
<1>2. /\ gaps' = gaps \cup Gap(w) /\ proc' = [proc EXCEPT ![w] = Stopped(w)]
      /\ UNCHANGED <<rows, history, candidates, clock, held, syncs, queue,
                     spent>>
  BY <1>1 DEF Ack, tables, ghosts
<1>3. proc[w].pc \in Working
  BY <1>0 DEF Working
<1>4. ASSUME NEW s \in Syncs, Carries(proc[w], s)
      PROVE  HasResult(s)
  <2>1. syncs[s].status \in Terminal
    BY <1>0, <1>4 DEF Ready, TokenInv
  <2>2. syncs[s] # None
    BY <1>3, <1>4 DEF Ready, EmployedInv, Employed, Carries
  <2> QED
    BY <1>2, <2>1, <2>2 DEF HasResult
<1>5. queue' \subseteq Syncs /\ queue \subseteq queue'
  BY <1>0, <1>2 DEF TypeOK
<1>6. Bounded
  BY <1>0, <1>2, SpentSame
<1> HIDE DEF BoundedEvents
<1> QED
  BY <1>0, <1>2, <1>3, <1>4, <1>5, <1>6, StopFacts

LEMMA RefuseFacts ==
    ASSUME Ready, NEW p \in Procs, Refuse(p)
    PROVE  Moves(p) /\ Minds(p) /\ Stops(p)
<1>0. TypeOK
  BY DEF Ready
<1>1. /\ gaps' = gaps \cup Gap(p) /\ proc' = [proc EXCEPT ![p] = Stopped(p)]
      /\ UNCHANGED <<rows, history, candidates, clock, held, syncs, queue>>
      /\ proc[p].pc \in Working
  BY DEF Refuse, tables, Active
<1>2. queue' \subseteq Syncs /\ queue \subseteq queue'
  BY <1>0, <1>1 DEF TypeOK
<1>3. Bounded /\ Failed
  BY <1>0, SpendFacts DEF Refuse, Failed
<1> HIDE DEF BoundedEvents
<1> QED
  BY <1>1, <1>2, <1>3, StopFacts

LEMMA CollideFacts ==
    ASSUME Ready, NEW p \in Procs, Collide(p)
    PROVE  Moves(p) /\ Minds(p) /\ Stops(p)
<1>0. TypeOK /\ proc[p].pc = "commit"
  BY DEF Ready, Collide
<1>1. Gap(p) = {}
  BY <1>0 DEF Gap
<1>2. /\ gaps' = gaps \cup Gap(p) /\ proc' = [proc EXCEPT ![p] = Stopped(p)]
      /\ UNCHANGED <<rows, history, candidates, clock, held, syncs, queue>>
      /\ proc[p].pc \in Working
  BY <1>0, <1>1 DEF Collide, tables, ghosts, Working
<1>3. queue' \subseteq Syncs /\ queue \subseteq queue'
  BY <1>0, <1>2 DEF TypeOK
<1>4. Bounded /\ Failed
  BY <1>0, SpendFacts DEF Collide, Failed
<1> HIDE DEF BoundedEvents
<1> QED
  BY <1>2, <1>3, <1>4, StopFacts

LEMMA RequeuedFacts ==
    ASSUME Ready, NEW p \in Procs, proc[p].pc \in Working,
           queue' = queue \cup Requeued(proc[p])
    PROVE  /\ queue' \subseteq Syncs /\ queue \subseteq queue'
           /\ \A s \in Syncs : Carries(proc[p], s) => s \in queue'
           /\ \A s \in queue' : s \in queue \/ Carries(proc[p], s)
<1>1. queue \subseteq Syncs
  BY DEF Ready, TypeOK
<1>2. \A s \in Syncs : s \in Requeued(proc[p]) <=> Carries(proc[p], s)
  BY DEF Requeued, Carries
<1>3. Requeued(proc[p]) \subseteq Syncs
  BY DEF Requeued
<1> QED
  BY <1>1, <1>2, <1>3

LEMMA CrashFacts ==
    ASSUME Ready, NEW p \in Procs, Crash(p)
    PROVE  Moves(p) /\ Minds(p) /\ Stops(p)
<1>1. /\ gaps' = gaps \cup Gap(p) /\ proc' = [proc EXCEPT ![p] = Stopped(p)]
      /\ UNCHANGED <<rows, history, candidates, clock, held, syncs>>
      /\ proc[p].pc \in Working /\ queue' = queue \cup Requeued(proc[p])
  BY DEF Crash, tables, Active
<1>2. Bounded
  BY SpendFacts DEF Crash, Ready
<1> HIDE DEF BoundedEvents
<1> QED
  BY <1>1, <1>2, RequeuedFacts, StopFacts

LEMMA LoseConnectionFacts ==
    ASSUME Ready, NEW w \in Workers, LoseConnection(w)
    PROVE  Moves(w) /\ Minds(w) /\ Drops(w)
<1> DEFINE q == proc[w]
           new == [q EXCEPT !.lost = TRUE]
<1>0. /\ TypeOK /\ w \in Procs /\ w \notin Imports
      /\ q \in ProcStates /\ DOMAIN proc = Procs
  BY TypeFacts, SyncAssumption DEF Procs, Ready
<1>1. /\ proc' = [proc EXCEPT ![w] = new] /\ q.pc \in Working
      /\ queue' = queue \cup Requeued(q)
      /\ UNCHANGED <<tables, syncs, clock, ghosts>>
  BY DEF LoseConnection, Active
<1>2. /\ new.pc = q.pc /\ new.base = q.base /\ new.sync = q.sync
      /\ new.source = q.source /\ new.lost /\ Keeps(q, new)
  BY <1>0 DEF ProcStates, Keeps
<1>3. new \in ProcStates
  BY <1>0 DEF ProcStates
<1> HIDE DEF new
<1>4. proc'[w] = new
  BY <1>0, <1>1
<1>5. Moves(w)
  BY <1>1, <1>3, <1>4 DEF Moves
<1>6. Drops(w)
  BY <1>1, <1>2, <1>4 DEF Drops, tables, ghosts
<1>7. Bounded
  BY <1>0, SpendFacts DEF LoseConnection
<1> HIDE DEF BoundedEvents
<1>8. /\ queue' \subseteq Syncs /\ queue \subseteq queue'
      /\ \A s \in Syncs : Carries(proc[w], s) => s \in queue'
      /\ \A s \in queue' : s \in queue \/ Carries(proc[w], s)
  BY <1>0, <1>1, RequeuedFacts
<1>9. \A s \in Syncs : ~Carries(proc'[w], s)
  BY <1>2, <1>4 DEF Carries
<1>10. Employed(proc'[w], syncs')
  BY <1>1, <1>2, <1>4 DEF Ready, EmployedInv, Employed
<1>11. syncs' \in [Syncs -> SyncRows \cup {None}]
  BY <1>0, <1>1 DEF TypeOK
<1> HIDE DEF q
<1>12. Minds(w)
  BY <1>0, <1>1, <1>7, <1>8, <1>9, <1>10, <1>11 DEF Minds
<1> QED
  BY <1>5, <1>6, <1>12

\* Every step requests a sync, or moves one worker or import on in one of the
\* ways above.
LEMMA StepCases ==
    ASSUME Ready, Next
    PROVE  \/ \E s \in Syncs : Requests(s)
           \/ \E p \in Procs : Moves(p) /\ Minds(p) /\ Does(p)
<1> DEFINE Goal == \/ \E s \in Syncs : Requests(s)
                   \/ \E p \in Procs : Moves(p) /\ Minds(p) /\ Does(p)
<1> HIDE DEF BoundedEvents
<1>0. Workers \subseteq Procs /\ Imports \subseteq Procs
  BY DEF Procs
<1>1. ASSUME NEW p \in Procs, Moves(p), Minds(p),
             Stops(p) \/ Starts(p) \/ Goes(p) \/ Drops(p) \/ Reads(p)
               \/ Loads(p) \/ Stores(p) \/ Cites(p) \/ Appends(p)
               \/ Counted(p) \/ (\E v \in CVEs : Picks(p, v)) \/ Rates(p)
      PROVE  Goal
  BY <1>1 DEF Does
<1>2. ASSUME NEW s \in Syncs, NEW source \in Sources, submit_sync(s, source)
      PROVE  Goal
  BY <1>2, SubmitFacts
<1> HIDE DEF Goal
<1>3. ASSUME NEW w \in Workers, NEW s \in Syncs, Deliver(w, s)
      PROVE  Goal
  BY <1>0, <1>1, <1>3, DeliverFacts
<1>4. ASSUME NEW w \in Workers, Rate(w)
      PROVE  Goal
  <2>1. ASSUME NEW v \in CVEs, ReadTouched(w, v)
        PROVE  Goal
    BY <1>0, <1>1, <2>1, ReadTouchedFacts
  <2>2. CASE UpsertCandidate(w)
    BY <1>0, <1>1, <2>2, CandidateFacts
  <2>3. CASE SaveFinal(w)
    BY <1>0, <1>1, <2>3, SaveFinalFacts
  <2>4. CASE Ack(w)
    BY <1>0, <1>1, <2>4, AckFacts
  <2> QED
    BY <1>4, <2>1, <2>2, <2>3, <2>4 DEF Rate
<1>5. ASSUME NEW w \in Workers, FetchMalformed(w)
      PROVE  Goal
  BY <1>0, <1>1, <1>5, FetchMalformedFacts
<1>6. ASSUME NEW w \in Workers, Outage(w)
      PROVE  Goal
  BY <1>0, <1>1, <1>6, OutageFacts
<1>7. ASSUME NEW w \in Workers, NEW a \in Advisories, FetchAdvisory(w, a)
      PROVE  Goal
  BY <1>0, <1>1, <1>7, FetchAdvisoryFacts
<1>8. ASSUME NEW w \in Workers, LoseConnection(w)
      PROVE  Goal
  BY <1>0, <1>1, <1>8, LoseConnectionFacts
<1>9. ASSUME NEW i \in Imports, StartImport(i)
      PROVE  Goal
  BY <1>0, <1>1, <1>9, StartImportFacts
<1>10. ASSUME NEW p \in Procs, Merge(p)
       PROVE  Goal
  <2>1. ASSUME NEW c \in Contributions, FetchRecord(p, c)
        PROVE  Goal
    BY <1>1, <2>1, FetchRecordFacts
  <2>2. CASE GetAndMerge(p)
    BY <1>1, <2>2, GetAndMergeFacts
  <2>3. CASE LoadRow(p)
    BY <1>1, <2>3, LoadFacts
  <2>4. CASE CommitRow(p)
    BY <1>1, <2>4, CommitFacts
  <2>5. CASE Collide(p)
    BY <1>1, <2>5, CollideFacts
  <2>6. CASE upsert_source_record(p)
    BY <1>1, <2>6, SourceFacts
  <2>7. CASE append_history(p)
    BY <1>1, <2>7, AppendFacts
  <2>8. CASE UpsertProductsAndCount(p)
    BY <1>1, <2>8, ProductsFacts
  <2>9. CASE EndOfFeed(p)
    BY <1>1, <2>9, EndOfFeedFacts
  <2> QED
    BY <1>10, <2>1, <2>2, <2>3, <2>4, <2>5, <2>6, <2>7, <2>8, <2>9 DEF Merge
<1>11. ASSUME NEW p \in Procs, Refuse(p)
       PROVE  Goal
  BY <1>1, <1>11, RefuseFacts
<1>12. ASSUME NEW p \in Procs, Crash(p)
       PROVE  Goal
  BY <1>1, <1>12, CrashFacts
<1>13. Goal
  BY <1>2, <1>3, <1>4, <1>5, <1>6, <1>7, <1>8, <1>9, <1>10, <1>11, <1>12
  DEF Next
<1> QED
  BY <1>13 DEF Goal
-----------------------------------------------------------------------------
(***************************************************************************)
(* The type invariant, what each process has to hand, and what is held.    *)
(***************************************************************************)

LEMMA EquippedFacts ==
    /\ EquippedInv <=> \A p \in Procs : Equipped(proc[p], rows)
    /\ EquippedInv' <=> \A p \in Procs : Equipped(proc'[p], rows')
  BY DEF EquippedInv

LEMMA MoveFacts ==
    ASSUME TypeOK, NEW p \in Procs, Moves(p)
    PROVE  /\ proc' \in [Procs -> ProcStates]
           /\ \A o \in Procs \ {p} : proc'[o] = proc[o]
  BY DEF TypeOK, Moves

LEMMA StoreFacts ==
    ASSUME TypeOK, EquippedInv, NEW p \in Procs, Stores(p)
    PROVE  /\ proc[p].cve \in CVEs /\ proc[p].row \in Vulnerabilities
           /\ proc[p].base \in Vulnerabilities \cup {None}
           /\ SavedRow(p) \in Vulnerabilities
           /\ rows' \in [CVEs -> Vulnerabilities \cup {None}]
           /\ rows'[proc[p].cve] = SavedRow(p)
           /\ \A v \in CVEs \ {proc[p].cve} : rows'[v] = rows[v]
           /\ \A f \in TrackedFields :
                \/ SavedRow(p)[f] = proc[p].row[f]
                \/ proc[p].base # None /\ proc[p].row[f] = proc[p].base[f]
           /\ (proc[p].base = None \/ proc[p].base = rows[proc[p].cve])
                => SavedRow(p) = proc[p].row
<1>0. proc[p] \in ProcStates /\ rows \in [CVEs -> Vulnerabilities \cup {None}]
  BY TypeFacts
<1>1. Equipped(proc[p], rows) /\ proc[p].pc \in {"commit", "settle"}
  BY EquippedFacts DEF Stores
<1>2. proc[p].cve \in CVEs
  BY <1>1, SyncAssumption DEF Equipped
<1>3. /\ proc[p].row \in Vulnerabilities
      /\ proc[p].base \in Vulnerabilities \cup {None}
  BY <1>0, <1>1 DEF Equipped, ProcStates
<1>4. proc[p].base # None => rows[proc[p].cve] # None
  BY <1>1 DEF Equipped
<1>5. rows[proc[p].cve] \in Vulnerabilities \cup {None}
  BY <1>0, <1>2
<1>6. /\ SavedRow(p) \in Vulnerabilities
      /\ (proc[p].base = None \/ proc[p].base = rows[proc[p].cve])
           => SavedRow(p) = proc[p].row
      /\ \A f \in DOMAIN Blank :
           \/ SavedRow(p)[f] = proc[p].row[f]
           \/ proc[p].base # None /\ proc[p].row[f] = proc[p].base[f]
  BY <1>3, <1>4, <1>5, SavedFacts DEF SavedRow
<1>7. rows' = [rows EXCEPT ![proc[p].cve] = SavedRow(p)]
  BY DEF Stores
<1>8. TrackedFields \subseteq DOMAIN Blank
  BY FieldNames
<1> QED
  BY <1>0, <1>2, <1>3, <1>6, <1>7, <1>8

\* No row disappears.
LEMMA RowsGrow ==
    ASSUME TypeOK, EquippedInv, NEW p \in Procs, Does(p)
    PROVE  /\ rows' \in [CVEs -> Vulnerabilities \cup {None}]
           /\ \A v \in CVEs : rows[v] # None => rows'[v] # None
           /\ held \subseteq held'
           /\ \/ rows' = rows /\ held' = held
              \/ Stores(p)
<1>1. CASE rows' = rows /\ held' = held
  BY <1>1, TypeFacts
<1>2. CASE Stores(p)
  <2>1. held \subseteq held'
    BY <1>2 DEF Stores
  <2>2. /\ SavedRow(p) \in Vulnerabilities
        /\ rows' \in [CVEs -> Vulnerabilities \cup {None}]
        /\ rows'[proc[p].cve] = SavedRow(p)
        /\ \A v \in CVEs \ {proc[p].cve} : rows'[v] = rows[v]
    BY <1>2, StoreFacts
  <2> QED
    BY <1>2, <2>1, <2>2, NoRowAssumption
<1>3. (rows' = rows /\ held' = held) \/ Stores(p)
  BY DEF Does, Stops, Starts, Goes, Drops, Reads, Loads, Cites, Appends,
         Counted, Picks, Rates, ghosts
<1> QED
  BY <1>1, <1>2, <1>3

LEMMA StepType ==
    ASSUME TypeOK, EquippedInv, NEW p \in Procs, Moves(p), Minds(p), Does(p)
    PROVE  TypeOK'
<1> USE TypeFacts
<1> HIDE DEF BoundedEvents
<1>0. /\ proc[p] \in ProcStates /\ clock \in Nat
      /\ proc' \in [Procs -> ProcStates]
      /\ rows' \in [CVEs -> Vulnerabilities \cup {None}]
  BY MoveFacts, RowsGrow
<1>1. Equipped(proc[p], rows)
  BY EquippedFacts
<1>2. syncs' \in [Syncs -> SyncRows \cup {None}] /\ queue' \subseteq Syncs
      /\ spent' \in [BoundedEvents -> Nat]
  BY DEF Minds, Bounded
<1>3. clock' \in Nat
  <2>1. clock' = clock \/ clock' = clock + 1
    BY DEF Does, Stops, Starts, Goes, Drops, Reads, Loads, Stores, Cites,
           Appends, Counted, Picks, Rates
  <2> QED
    BY <1>0, <2>1
<1>4. gaps' \subseteq CVEs \X TrackedFields
  <2>1. gaps \subseteq CVEs \X TrackedFields
    BY DEF TypeOK
  <2>2. Gap(p) \subseteq CVEs \X TrackedFields
    <3>1. proc[p].pc \in {"source", "history"} => proc[p].cve \in CVEs
      BY <1>1 DEF Equipped
    <3>2. proc[p].fields \subseteq TrackedFields
      BY <1>0 DEF ProcStates
    <3> QED
      BY <3>1, <3>2 DEF Gap
  <2>3. gaps' = gaps \cup Gap(p) \/ gaps' \subseteq gaps
    BY DEF Does, Stops, Starts, Goes, Drops, Reads, Loads, Stores, Cites,
           Appends, Counted, Picks, Rates, ghosts
  <2> QED
    BY <2>1, <2>2, <2>3
<1>5. ASSUME NEW h \in history'
      PROVE  h.cve \in CVEs /\ h.field \in TrackedFields /\ h.observed_at \in Nat
  <2>1. CASE h \in history
    BY <2>1 DEF TypeOK
  <2>2. CASE Appends(p) /\ h \notin history
    <3>1. PICK f \in proc[p].fields :
            h = [cve |-> proc[p].cve, field |-> f, new_value |-> proc[p].row[f],
                 observed_at |-> proc[p].at]
      BY <1>5, <2>2 DEF Appends
    <3>2. proc[p].cve \in CVEs
      BY <1>1, <2>2 DEF Appends, Equipped
    <3>3. f \in TrackedFields /\ proc[p].at \in Nat
      BY <1>0 DEF ProcStates
    <3> QED
      BY <3>1, <3>2, <3>3
  <2>3. history' = history \/ Appends(p)
    BY DEF Does, Stops, Starts, Goes, Drops, Reads, Loads, Stores, Cites,
           Counted, Picks, Rates
  <2> QED
    BY <1>5, <2>1, <2>2, <2>3
<1>6. ASSUME NEW c \in candidates'
      PROVE  c.cve \in CVEs
  <2>1. candidates' = candidates \/ Rates(p)
    BY DEF Does, Stops, Starts, Goes, Drops, Reads, Loads, Stores, Cites,
           Counted, Appends, Picks
  <2>2. CASE c \in candidates
    BY <2>2 DEF TypeOK
  <2>3. CASE Rates(p) /\ c \notin candidates
    <3> DEFINE k == Rating(proc[p].cve, proc[p].row)
    <3>1. candidates' = candidates
          \/ candidates' = {k} \cup UNION {Replace(o, k) : o \in candidates}
      BY <2>3 DEF Rates
    <3>2. \A o \in candidates : Replace(o, k) \subseteq {o, k}
      BY DEF Replace
    <3> HIDE DEF k
    <3>3. c = k
      BY <1>6, <2>3, <3>1, <3>2
    <3>4. proc[p].cve \in CVEs
      BY <1>1, <2>3 DEF Rates, Equipped
    <3> QED
      BY <3>3, <3>4, RatingOf DEF k
  <2> QED
    BY <1>6, <2>1, <2>2, <2>3
<1> QED
  BY <1>0, <1>2, <1>3, <1>4, <1>5, <1>6 DEF TypeOK

LEMMA StepEquipped ==
    ASSUME TypeOK, EquippedInv, NEW p \in Procs, Moves(p), Does(p)
    PROVE  EquippedInv'
<1>0. proc[p] \in ProcStates /\ proc'[p] \in ProcStates
  BY TypeFacts DEF Moves
<1>1. \A o \in Procs : Equipped(proc[o], rows)
  BY EquippedFacts
<1>2. \A v \in CVEs : rows[v] # None => rows'[v] # None
  BY RowsGrow
<1>3. ASSUME NEW q \in ProcStates, Equipped(q, rows)
      PROVE  Equipped(q, rows')
  <2>1. q.touched \subseteq CVEs
    BY DEF ProcStates
  <2>2. q.pc = "commit" => q.cve \in CVEs
    BY <1>3, SyncAssumption DEF Equipped
  <2> QED
    BY <1>2, <1>3, <2>1, <2>2 DEF Equipped
<1>4. ASSUME NEW o \in Procs, o # p
      PROVE  Equipped(proc'[o], rows')
  <2>1. proc'[o] = proc[o] /\ proc[o] \in ProcStates
    BY <1>4, MoveFacts, TypeFacts
  <2> QED
    BY <1>1, <1>3, <2>1
<1>5. CASE Drops(p)
  <2>1. Equipped(proc[p], rows')
    BY <1>0, <1>1, <1>3
  <2>2. Equipped(proc'[p], rows')
    BY <1>5, <2>1 DEF Drops, Keeps, Equipped
  <2>3. \A o \in Procs : Equipped(proc'[o], rows')
    BY <1>4, <2>2
  <2> QED
    BY <2>3, EquippedFacts
<1>6. ASSUME ~Drops(p)
      PROVE  Equipped(proc'[p], rows')
  <2> USE <1>6
  <2>0. Equipped(proc[p], rows)
    BY <1>1
  <2>1. proc[p].touched \subseteq CVEs /\ proc'[p].touched \subseteq CVEs
    BY <1>0 DEF ProcStates
  <2>2. proc'[p].todo \subseteq proc'[p].touched
    BY <2>0 DEF Does, Stops, Starts, Goes, Reads, Loads, Stores, Cites,
                Appends, Counted, Picks, Rates, Keeps, Equipped
  <2>3. \A v \in proc'[p].touched : rows'[v] # None
    <3>1. \A v \in proc[p].touched : rows'[v] # None
      BY <1>2, <2>0, <2>1 DEF Equipped
    <3>2. CASE Counted(p)
      BY <1>2, <2>0, <3>1, <3>2 DEF Counted, Equipped
    <3>3. proc'[p].touched \subseteq proc[p].touched \/ Counted(p)
      BY DEF Does, Stops, Starts, Goes, Reads, Loads, Stores, Cites, Appends,
             Picks, Rates, Keeps
    <3> QED
      BY <3>1, <3>2, <3>3
  <2>4. ASSUME proc'[p].pc \in {"get", "upsert", "commit", "source", "history",
                                "products"}
        PROVE  proc'[p].input \in Contributions /\ proc'[p].cve = proc'[p].input.cve
    <3>1. \/ Goes(p) \/ Reads(p) \/ Cites(p) \/ Appends(p)
          \/ Loads(p) /\ proc[p].pc = "upsert"
          \/ Stores(p) /\ proc[p].pc = "commit"
      BY <2>4 DEF Does, Stops, Starts, Counted, Picks, Rates, Loads, Stores
    <3>2. CASE Goes(p)
      BY <2>4, <3>2 DEF Goes
    <3>3. CASE Reads(p)
      BY <2>0, <3>3 DEF Reads, Equipped
    <3>4. CASE Cites(p) \/ Appends(p)
      BY <2>0, <3>4 DEF Cites, Appends, Keeps, Equipped
    <3>5. CASE \/ Loads(p) /\ proc[p].pc = "upsert"
               \/ Stores(p) /\ proc[p].pc = "commit"
      BY <2>0, <3>5 DEF Loads, Stores, Keeps, Equipped
    <3> QED
      BY <3>1, <3>2, <3>3, <3>4, <3>5
  <2>5. ASSUME proc'[p].pc \in {"upsert", "commit", "source", "history", "guess",
                                "settle", "candidate"}
        PROVE  proc'[p].row # None
    <3>1. Reads(p) \/ Loads(p) \/ Stores(p) \/ Cites(p)
            \/ (\E v \in CVEs : Picks(p, v))
      BY <2>5 DEF Does, Stops, Starts, Goes, Counted, Appends, Rates
    <3>2. CASE Reads(p)
      <4>1. proc[p].cve \in CVEs /\ proc[p].input \in Contributions
        BY <2>0, <3>2, SyncAssumption DEF Reads, Equipped
      <4>2. KnownIn(proc[p].cve, rows) \in Vulnerabilities
        BY <4>1, BlankType, TypeFacts DEF KnownIn
      <4>3. proc'[p].row \in Vulnerabilities
        BY <3>2, <4>1, <4>2, MergeType DEF Reads
      <4> QED
        BY <4>3, NoRowAssumption
    <3>3. CASE Loads(p) \/ Stores(p) \/ Cites(p)
      BY <2>0, <3>3 DEF Loads, Stores, Cites, Keeps, Equipped
    <3>4. ASSUME NEW v \in CVEs, Picks(p, v)
          PROVE  proc'[p].row # None
      <4>1. rows[v] \in Vulnerabilities
        BY <2>0, <3>4, TypeFacts DEF Picks, Equipped
      <4>2. proc'[p].row \in Vulnerabilities
        BY <3>4, <4>1, ClassifyType, GuessRow DEF Picks
      <4> QED
        BY <4>2, NoRowAssumption
    <3> QED
      BY <3>1, <3>2, <3>3, <3>4
  <2>6. ASSUME proc'[p].pc \in {"source", "history", "products", "guess",
                                "settle", "candidate"}
        PROVE  proc'[p].cve \in CVEs /\ rows'[proc'[p].cve] # None
    <3>1. \/ Stores(p) \/ Cites(p) \/ Appends(p)
          \/ (\E v \in CVEs : Picks(p, v))
          \/ Loads(p) /\ proc[p].pc = "guess"
      BY <2>6 DEF Does, Stops, Starts, Goes, Reads, Counted, Rates, Loads
    <3>2. CASE Stores(p)
      <4>1. proc'[p].cve = proc[p].cve
        BY <3>2 DEF Stores, Keeps
      <4>2. /\ proc[p].cve \in CVEs /\ rows'[proc[p].cve] = SavedRow(p)
            /\ SavedRow(p) \in Vulnerabilities
        BY <3>2, StoreFacts
      <4> QED
        BY <4>1, <4>2, NoRowAssumption
    <3>3. CASE Cites(p) \/ Appends(p) \/ (Loads(p) /\ proc[p].pc = "guess")
      BY <1>2, <2>0, <3>3 DEF Cites, Appends, Loads, Keeps, Equipped
    <3>4. ASSUME NEW v \in CVEs, Picks(p, v)
          PROVE  proc'[p].cve \in CVEs /\ rows'[proc'[p].cve] # None
      BY <1>2, <2>0, <3>4 DEF Picks, Equipped
    <3> QED
      BY <3>1, <3>2, <3>3, <3>4
  <2>7. ASSUME proc'[p].pc \in {"commit", "settle"}
        PROVE  /\ proc'[p].pc = "settle" => proc'[p].base # None
               /\ proc'[p].base # None => rows'[proc'[p].cve] # None
    <3>1. Loads(p)
      BY <2>7 DEF Does, Stops, Starts, Goes, Reads, Stores, Cites, Appends,
                  Counted, Picks, Rates
    <3>2. /\ proc'[p].base = rows[proc[p].cve] /\ proc'[p].cve = proc[p].cve
          /\ rows' = rows
          /\ proc'[p].pc = "settle" => proc[p].pc = "guess"
      BY <3>1 DEF Loads, Keeps
    <3>3. proc[p].pc = "guess" => rows[proc[p].cve] # None
      BY <2>0 DEF Equipped
    <3> QED
      BY <3>2, <3>3
  <2> QED
    BY <2>2, <2>3, <2>4, <2>5, <2>6, <2>7 DEF Equipped
<1>7. CASE ~Drops(p)
  <2>1. \A o \in Procs : Equipped(proc'[o], rows')
    BY <1>4, <1>6, <1>7
  <2> QED
    BY <2>1, EquippedFacts
<1> QED
  BY <1>5, <1>7

LEMMA StepHeld ==
    ASSUME TypeOK, EquippedInv, HeldInv, HistoryWasTrue,
           NEW p \in Procs, Moves(p), Does(p)
    PROVE  HeldInv' /\ HistoryWasTrue'
<1>0. /\ held \subseteq held' /\ proc[p] \in ProcStates
      /\ (rows' = rows /\ held' = held) \/ Stores(p)
      /\ Equipped(proc[p], rows)
  BY RowsGrow, TypeFacts, EquippedFacts
<1>1. \A v, f, x : Holds(held, v, f, x) => Holds(held', v, f, x)
  BY <1>0 DEF Holds
<1>2. ASSUME NEW v \in CVEs, rows[v] # None, NEW f \in TrackedFields
      PROVE  Holds(held, v, f, rows[v][f])
  BY <1>2 DEF HeldInv
<1>3. ASSUME NEW o \in Procs, NEW f \in TrackedFields
      PROVE  /\ (proc[o].pc \in {"commit", "settle"} /\ proc[o].base # None) =>
                  Holds(held, proc[o].cve, f, proc[o].base[f])
             /\ proc[o].pc \in {"source", "history"} =>
                  Holds(held, proc[o].cve, f, proc[o].row[f])
  BY DEF HeldInv
<1>4. ASSUME Stores(p), NEW f \in TrackedFields
      PROVE  Holds(held', proc[p].cve, f, SavedRow(p)[f])
  BY <1>4 DEF Stores, Holds
<1>5. ASSUME NEW v \in CVEs, rows'[v] # None, NEW f \in TrackedFields
      PROVE  Holds(held', v, f, rows'[v][f])
  <2>1. CASE rows'[v] = rows[v]
    BY <1>1, <1>2, <1>5, <2>1
  <2>2. CASE rows'[v] # rows[v]
    <3>1. Stores(p)
      BY <1>0, <2>2
    <3>2. v = proc[p].cve /\ rows'[v] = SavedRow(p)
      BY <2>2, <3>1, StoreFacts
    <3> QED
      BY <1>4, <3>1, <3>2
  <2> QED
    BY <2>1, <2>2
<1>6. ASSUME NEW f \in TrackedFields,
             proc'[p].pc \in {"commit", "settle"}, proc'[p].base # None
      PROVE  Holds(held', proc'[p].cve, f, proc'[p].base[f])
  <2>1. Loads(p) \/ Drops(p)
    BY <1>6 DEF Does, Stops, Starts, Goes, Reads, Stores, Cites, Appends,
                Counted, Picks, Rates
  <2>2. CASE Loads(p)
    <3>1. /\ proc'[p].base = rows[proc[p].cve] /\ proc'[p].cve = proc[p].cve
          /\ proc[p].pc \in {"upsert", "guess"}
      BY <2>2 DEF Loads, Keeps
    <3>2. proc[p].cve \in CVEs
      BY <1>0, <3>1, SyncAssumption DEF Equipped
    <3> QED
      BY <1>1, <1>2, <1>6, <3>1, <3>2
  <2>3. CASE Drops(p)
    <3>1. /\ proc'[p].base = proc[p].base /\ proc'[p].cve = proc[p].cve
          /\ proc'[p].pc = proc[p].pc
      BY <2>3 DEF Drops, Keeps
    <3> QED
      BY <1>1, <1>3, <1>6, <3>1
  <2> QED
    BY <2>1, <2>2, <2>3
<1>7. ASSUME NEW f \in TrackedFields, proc'[p].pc \in {"source", "history"}
      PROVE  Holds(held', proc'[p].cve, f, proc'[p].row[f])
  <2>1. \/ Stores(p) /\ proc[p].pc = "commit"
        \/ (Cites(p) \/ Drops(p)) /\ proc[p].pc \in {"source", "history"}
    BY <1>7 DEF Does, Stops, Starts, Goes, Reads, Loads, Counted, Appends,
                Picks, Rates, Stores, Cites, Drops
  <2>2. proc'[p].cve = proc[p].cve /\ proc'[p].row = proc[p].row
    BY <2>1 DEF Stores, Cites, Drops, Keeps
  <2>3. CASE Stores(p) /\ proc[p].pc = "commit"
    <3>1. \/ SavedRow(p)[f] = proc[p].row[f]
          \/ proc[p].base # None /\ proc[p].row[f] = proc[p].base[f]
      BY <2>3, StoreFacts
    <3>2. CASE SavedRow(p)[f] = proc[p].row[f]
      <4>1. Holds(held', proc[p].cve, f, SavedRow(p)[f])
        BY <1>4, <2>3
      <4> QED
        BY <2>2, <3>2, <4>1
    <3>3. CASE proc[p].base # None /\ proc[p].row[f] = proc[p].base[f]
      <4>1. Holds(held, proc[p].cve, f, proc[p].base[f])
        BY <1>3, <2>3, <3>3
      <4> QED
        BY <1>1, <2>2, <3>3, <4>1
    <3> QED
      BY <3>1, <3>2, <3>3
  <2>4. CASE (Cites(p) \/ Drops(p)) /\ proc[p].pc \in {"source", "history"}
    BY <1>1, <1>3, <2>2, <2>4
  <2> QED
    BY <2>1, <2>3, <2>4
<1>8. ASSUME NEW o \in Procs, o # p
      PROVE  proc'[o] = proc[o]
  BY <1>8, MoveFacts
<1>9. ASSUME NEW o \in Procs, NEW f \in TrackedFields
      PROVE  /\ (proc'[o].pc \in {"commit", "settle"} /\ proc'[o].base # None)
                  => Holds(held', proc'[o].cve, f, proc'[o].base[f])
             /\ proc'[o].pc \in {"source", "history"} =>
                  Holds(held', proc'[o].cve, f, proc'[o].row[f])
  <2>1. CASE o = p
    BY <1>6, <1>7, <2>1
  <2>2. CASE o # p
    BY <1>1, <1>3, <1>8, <2>2
  <2> QED
    BY <2>1, <2>2
<1>10. HeldInv'
  BY <1>5, <1>9 DEF HeldInv
<1>11. ASSUME NEW h \in history'
       PROVE  Holds(held', h.cve, h.field, h.new_value)
  <2>1. CASE h \in history
    BY <1>0, <2>1 DEF HistoryWasTrue, Holds
  <2>2. CASE Appends(p) /\ h \notin history
    <3>1. PICK f \in proc[p].fields :
            h = [cve |-> proc[p].cve, field |-> f, new_value |-> proc[p].row[f],
                 observed_at |-> proc[p].at]
      BY <1>11, <2>2 DEF Appends
    <3>2. f \in TrackedFields
      BY <1>0 DEF ProcStates
    <3>3. Holds(held, proc[p].cve, f, proc[p].row[f])
      BY <1>3, <2>2, <3>2 DEF Appends
    <3> QED
      BY <1>1, <3>1, <3>3
  <2>3. history' = history \/ Appends(p)
    BY DEF Does, Stops, Starts, Goes, Drops, Reads, Loads, Stores, Cites,
           Counted, Picks, Rates
  <2> QED
    BY <1>11, <2>1, <2>2, <2>3
<1>12. HistoryWasTrue'
  BY <1>11 DEF HistoryWasTrue, Holds
<1> QED
  BY <1>10, <1>12

LEMMA StepEmployed ==
    ASSUME TypeOK, EmployedInv, NEW p \in Procs, Moves(p), Minds(p)
    PROVE  EmployedInv'
<1> HIDE DEF BoundedEvents
<1>1. \A o \in Procs \ {p} : proc'[o] = proc[o]
  BY MoveFacts
<1>2. Workers \subseteq Procs /\ Imports \subseteq Procs
  BY DEF Procs
<1>3. ASSUME NEW w \in Workers, proc'[w].pc \in Working
      PROVE  Employed(proc'[w], syncs')
  <2>1. CASE w = p
    BY <1>3, <2>1 DEF Minds
  <2>2. CASE w # p
    <3>1. proc'[w] = proc[w] /\ proc[w] \in ProcStates
      BY <1>1, <1>2, <2>2, TypeFacts
    <3>2. Employed(proc[w], syncs)
      BY <1>3, <3>1 DEF EmployedInv
    <3>3. proc[w].sync \in Syncs
      BY <3>1, <3>2 DEF Employed, ProcStates
    <3>4. syncs'[proc[w].sync] # None
      BY <3>2, <3>3 DEF Minds, Employed
    <3> QED
      BY <3>1, <3>2, <3>4 DEF Employed
  <2> QED
    BY <2>1, <2>2
<1>4. ASSUME NEW i \in Imports
      PROVE  proc'[i].sync = None
  BY <1>1, <1>2 DEF Minds, EmployedInv
<1> QED
  BY <1>3, <1>4 DEF EmployedInv

\* Only a worker carries a message, and of a sync that was requested.
LEMMA CarrierFacts ==
    ASSUME EmployedInv, NEW p \in Procs, NEW s \in Syncs, Carries(proc[p], s)
    PROVE  p \in Workers /\ syncs[s] # None
<1>1. p \notin Imports
  BY SyncAssumption DEF EmployedInv, Carries
<1>2. p \in Workers
  BY <1>1 DEF Procs
<1> QED
  BY <1>2 DEF EmployedInv, Employed, Carries

LEMMA StepTokens ==
    ASSUME TypeOK, EmployedInv, TokenInv, NEW p \in Procs, Moves(p), Minds(p)
    PROVE  TokenInv'
<1> HIDE DEF BoundedEvents
<1>0. Workers \subseteq Procs /\ queue' \subseteq Syncs
  BY DEF Procs, Minds
<1>1. \A o \in Procs \ {p} : proc'[o] = proc[o]
  BY MoveFacts
<1>2. ASSUME NEW s \in Syncs
      PROVE  /\ syncs[s] # None => syncs'[s] # None
             /\ syncs'[s] = syncs[s] \/ HasResult(s) \/ Takes(p, s)
             /\ s \in queue' => s \in queue
                                \/ (Carries(proc[p], s) /\ ~Carries(proc'[p], s))
             /\ Carries(proc'[p], s) => Carries(proc[p], s) \/ Takes(p, s)
             /\ Carries(proc'[p], s) /\ proc'[p].pc = "ack" => HasResult(s)
  BY DEF Minds
<1>3. ASSUME NEW w \in Workers, NEW s \in Syncs, Carries(proc[w], s)
      PROVE  /\ s \notin queue
             /\ \A o \in Workers \ {w} : ~Carries(proc[o], s)
             /\ proc[w].pc = "ack" => syncs[s].status \in Terminal
  BY <1>3 DEF TokenInv
<1>4. ASSUME NEW s \in Syncs, Carries(proc[p], s)
      PROVE  p \in Workers /\ syncs[s] # None
  BY <1>4, CarrierFacts
<1>5. ASSUME NEW s \in Syncs, Takes(p, s)
      PROVE  s \in queue /\ s \notin queue' /\ p \in Workers
  BY <1>5 DEF Takes
<1>6. ASSUME NEW s \in queue'
      PROVE  syncs'[s] # None
  <2>1. s \in Syncs
    BY <1>0, <1>6
  <2>2. s \in queue => syncs[s] # None
    BY DEF TokenInv
  <2> QED
    BY <1>2, <1>4, <1>6, <2>1, <2>2
<1>7. ASSUME NEW w \in Workers, NEW s \in Syncs, Carries(proc'[w], s)
      PROVE  /\ s \notin queue'
             /\ \A o \in Workers \ {w} : ~Carries(proc'[o], s)
             /\ proc'[w].pc = "ack" =>
                  syncs'[s].status \in Terminal
  <2>1. CASE w = p
    <3>1. Carries(proc[p], s) \/ Takes(p, s)
      BY <1>2, <1>7, <2>1
    <3>2. s \notin queue'
      BY <1>2, <1>3, <1>4, <1>5, <1>7, <2>1, <3>1
    <3>3. ASSUME NEW o \in Workers \ {w}, Carries(proc'[o], s)
          PROVE  FALSE
      <4>1. Carries(proc[o], s)
        BY <1>0, <1>1, <2>1, <3>3
      <4> QED
        BY <1>3, <1>5, <2>1, <3>1, <3>3, <4>1
    <3>4. proc'[w].pc = "ack" => HasResult(s)
      BY <1>2, <1>7, <2>1
    <3> QED
      BY <3>2, <3>3, <3>4 DEF HasResult
  <2>2. CASE w # p
    <3>1. proc'[w] = proc[w] /\ Carries(proc[w], s)
      BY <1>0, <1>1, <1>7, <2>2
    <3>2. ~Carries(proc[p], s)
      BY <1>3, <1>4, <2>2, <3>1
    <3>3. ~Takes(p, s)
      BY <1>3, <1>5, <3>1
    <3>4. s \notin queue'
      BY <1>2, <1>3, <3>1, <3>2
    <3>5. ASSUME NEW o \in Workers \ {w}, Carries(proc'[o], s)
          PROVE  FALSE
      <4>1. CASE o = p
        BY <1>2, <3>2, <3>3, <3>5, <4>1
      <4>2. CASE o # p
        <5>1. Carries(proc[o], s)
          BY <1>0, <1>1, <3>5, <4>2
        <5> QED
          BY <1>3, <3>1, <3>5, <5>1
      <4> QED
        BY <4>1, <4>2
    <3>6. proc'[w].pc = "ack" => syncs'[s].status \in Terminal
      BY <1>2, <1>3, <3>1, <3>3 DEF HasResult
    <3> QED
      BY <3>4, <3>5, <3>6
  <2> QED
    BY <2>1, <2>2
<1> QED
  BY <1>6, <1>7 DEF TokenInv

LEMMA StepForgotten ==
    ASSUME TypeOK, EmployedInv, NoneForgotten,
           NEW p \in Procs, Moves(p), Minds(p)
    PROVE  NoneForgotten'
<1>0. /\ spent["error"] \in Nat /\ spent["collision"] \in Nat
      /\ spent'["error"] \in Nat /\ spent'["collision"] \in Nat
      /\ spent["error"] <= spent'["error"]
      /\ spent["collision"] <= spent'["collision"]
  BY DEF Minds, Bounded, TypeOK
<1> HIDE DEF BoundedEvents
<1>1. \A o \in Procs \ {p} : proc'[o] = proc[o]
  BY MoveFacts
<1>2. Workers \subseteq Procs
  BY DEF Procs
<1>3. ASSUME NEW s \in Syncs, syncs'[s] # None,
             syncs'[s].status \notin Terminal,
             spent'["error"] = 0, spent'["collision"] = 0
      PROVE  s \in queue' \/ \E w \in Workers : Carries(proc'[w], s)
  <2>1. ~HasResult(s) /\ ~Failed
    BY <1>0, <1>3 DEF HasResult, Failed
  <2>2. /\ syncs'[s] = syncs[s] \/ Takes(p, s)
        /\ s \in queue => s \in queue' \/ Takes(p, s)
        /\ Carries(proc[p], s) => Carries(proc'[p], s) \/ s \in queue'
    BY <2>1 DEF Minds
  <2>3. CASE Takes(p, s)
    BY <2>3 DEF Takes
  <2>4. CASE ~Takes(p, s)
    <3>1. spent["error"] = 0 /\ spent["collision"] = 0
      BY <1>0, <1>3
    <3>2. s \in queue \/ \E w \in Workers : Carries(proc[w], s)
      BY <1>3, <2>2, <2>4, <3>1 DEF NoneForgotten
    <3>3. ASSUME NEW w \in Workers, Carries(proc[w], s)
          PROVE  s \in queue' \/ \E o \in Workers : Carries(proc'[o], s)
      <4>1. CASE w = p
        BY <2>2, <3>3, <4>1
      <4>2. CASE w # p
        BY <1>1, <1>2, <3>3, <4>2
      <4> QED
        BY <4>1, <4>2
    <3> QED
      BY <2>2, <2>4, <3>2, <3>3
  <2> QED
    BY <2>3, <2>4
<1> QED
  BY <1>3 DEF NoneForgotten

\* A request leaves everything else as it is.
LEMMA RequestBase ==
    ASSUME Ready, HeldInv, HistoryWasTrue, NoneForgotten,
           NEW s \in Syncs, Requests(s)
    PROVE  /\ Ready' /\ HeldInv' /\ HistoryWasTrue' /\ NoneForgotten'
           /\ Alone' => Alone
<1>0. TypeOK /\ EquippedInv /\ EmployedInv /\ TokenInv
  BY DEF Ready
<1>1. /\ spent["error"] \in Nat /\ spent["collision"] \in Nat
      /\ spent["overlap"] \in Nat /\ spent'["overlap"] \in Nat
      /\ spent'["error"] \in Nat /\ spent'["collision"] \in Nat
      /\ spent["error"] <= spent'["error"]
      /\ spent["collision"] <= spent'["collision"]
      /\ spent["overlap"] <= spent'["overlap"]
      /\ spent' \in [BoundedEvents -> Nat]
  BY <1>0 DEF Requests, Bounded, TypeOK
<1> HIDE DEF BoundedEvents
<1>2. /\ UNCHANGED <<rows, history, candidates, proc, clock, held, gaps>>
      /\ syncs[s] = None /\ syncs'[s] # None
      /\ \A o \in Syncs \ {s} : syncs'[o] = syncs[o]
      /\ queue \subseteq queue' /\ queue' \subseteq queue \cup {s}
      /\ s \in queue' \/ Failed
      /\ syncs' \in [Syncs -> SyncRows \cup {None}]
  BY DEF Requests, ghosts
<1>3. \A o \in Syncs : syncs[o] # None => syncs'[o] = syncs[o]
  BY <1>2
<1>4. TypeOK'
  BY <1>0, <1>1, <1>2 DEF TypeOK
<1>5. EquippedInv'
  BY <1>0, <1>2 DEF EquippedInv
<1>6. EmployedInv'
  <2>1. ASSUME NEW w \in Workers, proc'[w].pc \in Working
        PROVE  Employed(proc'[w], syncs')
    <3>1. proc'[w] = proc[w] /\ proc[w] \in ProcStates
      BY <1>0, <1>2, TypeFacts DEF Procs
    <3>2. Employed(proc[w], syncs)
      BY <1>0, <2>1, <3>1 DEF EmployedInv
    <3>3. proc[w].sync \in Syncs
      BY <3>1, <3>2 DEF Employed, ProcStates
    <3> QED
      BY <1>3, <3>1, <3>2, <3>3 DEF Employed
  <2> QED
    BY <1>0, <1>2, <2>1 DEF EmployedInv
<1>7. TokenInv'
  <2>1. ASSUME NEW o \in queue'
        PROVE  syncs'[o] # None
    BY <1>0, <1>2, <2>1 DEF TokenInv, TypeOK
  <2>2. ASSUME NEW w \in Workers, NEW o \in Syncs, Carries(proc'[w], o)
        PROVE  /\ o \notin queue'
               /\ \A x \in Workers \ {w} : ~Carries(proc'[x], o)
               /\ proc'[w].pc = "ack" => syncs'[o].status \in Terminal
    <3>1. Carries(proc[w], o) /\ proc' = proc /\ w \in Procs
      BY <1>2, <2>2 DEF Procs
    <3>2. syncs[o] # None
      BY <1>0, <3>1, CarrierFacts
    <3>3. o # s
      BY <1>2, <3>2
    <3>4. /\ o \notin queue
          /\ \A x \in Workers \ {w} : ~Carries(proc[x], o)
          /\ proc[w].pc = "ack" => syncs[o].status \in Terminal
      BY <1>0, <3>1 DEF TokenInv
    <3> QED
      BY <1>2, <3>1, <3>3, <3>4
  <2> QED
    BY <2>1, <2>2 DEF TokenInv
<1>8. HeldInv' /\ HistoryWasTrue'
  BY <1>2 DEF HeldInv, HistoryWasTrue
<1>9. ASSUME NEW o \in Syncs, syncs'[o] # None, syncs'[o].status \notin Terminal,
             spent'["error"] = 0, spent'["collision"] = 0
      PROVE  o \in queue' \/ \E w \in Workers : Carries(proc'[w], o)
  <2>1. CASE o = s
    BY <1>1, <1>2, <1>9, <2>1 DEF Failed
  <2>2. CASE o # s
    <3>1. /\ syncs[o] = syncs'[o] /\ proc' = proc
          /\ spent["error"] = 0 /\ spent["collision"] = 0
      BY <1>1, <1>2, <1>9, <2>2
    <3>2. o \in queue \/ \E w \in Workers : Carries(proc[w], o)
      BY <1>9, <3>1 DEF NoneForgotten
    <3> QED
      BY <1>2, <3>1, <3>2
  <2> QED
    BY <2>1, <2>2
<1>10. NoneForgotten'
  BY <1>9 DEF NoneForgotten
<1>11. Alone' => Alone
  BY <1>1 DEF Alone
<1> QED
  BY <1>4, <1>5, <1>6, <1>7, <1>8, <1>10, <1>11 DEF Ready

-----------------------------------------------------------------------------

\* What holds however writers overlap.
BaseInv == Ready /\ HeldInv /\ HistoryWasTrue /\ NoneForgotten

LEMMA InitBase ==
    ASSUME Init
    PROVE  BaseInv
<1>0. Idle("waiting") \in ProcStates
  BY DEF Idle, NoCounts, ProcStates
<1>1. /\ Idle("waiting").pc = "waiting" /\ Idle("waiting").touched = {}
      /\ Idle("waiting").todo = {} /\ Idle("waiting").sync = None
  BY DEF Idle
<1> HIDE DEF BoundedEvents
<1>2. TypeOK
  BY <1>0 DEF Init, TypeOK
<1>3. \A p \in Procs : proc[p] = Idle("waiting")
  BY DEF Init
<1>4. EquippedInv
  BY <1>1, <1>3 DEF EquippedInv, Equipped
<1>5. \A p \in Procs : proc[p].pc \notin Working /\ proc[p].sync = None
  BY <1>1, <1>3 DEF Working
<1>6. EmployedInv
  BY <1>5 DEF EmployedInv, Procs
<1>7. HeldInv
  BY <1>1, <1>3 DEF HeldInv, Init
<1>8. TokenInv
  BY <1>5 DEF TokenInv, Carries, Init, Procs
<1>9. HistoryWasTrue
  BY DEF Init, HistoryWasTrue
<1>10. NoneForgotten
  BY DEF Init, NoneForgotten
<1> QED
  BY <1>2, <1>4, <1>6, <1>7, <1>8, <1>9, <1>10 DEF BaseInv, Ready

LEMMA StepBase ==
    ASSUME BaseInv, [Next]_vars
    PROVE  BaseInv'
<1>0. /\ Ready /\ TypeOK /\ EquippedInv /\ EmployedInv /\ TokenInv
      /\ HeldInv /\ HistoryWasTrue /\ NoneForgotten
  BY DEF BaseInv, Ready
<1>1. CASE UNCHANGED vars
  <2> USE <1>1 DEF vars, tables, ghosts
  <2>1. TypeOK'
    BY <1>0 DEF TypeOK
  <2>2. EquippedInv'
    BY <1>0 DEF EquippedInv
  <2>3. EmployedInv'
    BY <1>0 DEF EmployedInv
  <2>4. HeldInv'
    BY <1>0 DEF HeldInv
  <2>5. TokenInv'
    BY <1>0 DEF TokenInv
  <2>6. HistoryWasTrue'
    BY <1>0 DEF HistoryWasTrue
  <2>7. NoneForgotten'
    BY <1>0 DEF NoneForgotten
  <2> QED
    BY <2>1, <2>2, <2>3, <2>4, <2>5, <2>6, <2>7 DEF BaseInv, Ready
<1>2. ASSUME NEW s \in Syncs, Requests(s)
      PROVE  BaseInv'
  BY <1>0, <1>2, RequestBase DEF BaseInv
<1>3. ASSUME NEW p \in Procs, Moves(p), Minds(p), Does(p)
      PROVE  BaseInv'
  <2> HIDE DEF BoundedEvents
  <2>1. TypeOK'
    BY <1>0, <1>3, StepType
  <2>2. EquippedInv'
    BY <1>0, <1>3, StepEquipped
  <2>3. EmployedInv'
    BY <1>0, <1>3, StepEmployed
  <2>4. HeldInv' /\ HistoryWasTrue'
    BY <1>0, <1>3, StepHeld
  <2>5. TokenInv'
    BY <1>0, <1>3, StepTokens
  <2>6. NoneForgotten'
    BY <1>0, <1>3, StepForgotten
  <2> QED
    BY <2>1, <2>2, <2>3, <2>4, <2>5, <2>6 DEF BaseInv, Ready
<1>4. CASE Next
  BY <1>0, <1>2, <1>3, <1>4, StepCases
<1> QED
  BY <1>1, <1>4

\* What a worker or an import works with is there at every step, the row before
\* its history, and every message is in one place, whatever crashes, fails,
\* drops or overlaps.
THEOREM BaseInvariance == Spec => []BaseInv
<1>1. Init => BaseInv
  BY InitBase
<1>2. BaseInv /\ [Next]_vars => BaseInv'
  BY StepBase
<1> QED
  BY <1>1, <1>2, PTL DEF Spec

\* The tables, the queue and the state of every worker and import keep their
\* types.
THEOREM TypeCorrect == Spec => []TypeOK
<1>1. BaseInv => TypeOK
  BY DEF BaseInv, Ready
<1> QED
  BY <1>1, BaseInvariance, PTL

\* vulnerability_history never claims a value that the row did not have:
\* append_history runs after the commit of the row it describes, and of a
\* column that the commit left alone it names the value that was loaded.
THEOREM HistoryTrue == Spec => []HistoryWasTrue
<1>1. BaseInv => HistoryWasTrue
  BY DEF BaseInv
<1> QED
  BY <1>1, BaseInvariance, PTL

\* Through crashes, outages and dropped connections, a sync without a result is
\* in the queue or with a worker, unless a call was refused.
THEOREM NoSyncForgotten == Spec => []NoneForgotten
<1>1. BaseInv => NoneForgotten
  BY DEF BaseInv
<1> QED
  BY <1>1, BaseInvariance, PTL
-----------------------------------------------------------------------------
(***************************************************************************)
(* A writer that is alone.                                                 *)
(***************************************************************************)

\* The kinds of step that a lone process takes; the others do not move.
LEMMA LoneStep ==
    ASSUME TypeOK, LoneInv, NEW p \in Procs, Moves(p), Minds(p), Does(p), Alone'
    PROVE  /\ Alone /\ LoneIn(proc, rows, history, candidates, clock)
           /\ Stops(p) \/ Starts(p) \/ p \in ActiveIn(proc)
           /\ Starts(p) => ActiveIn(proc) = {}
           /\ Stops(p) => ActiveIn(proc') = ActiveIn(proc) \ {p}
           /\ Starts(p) => ActiveIn(proc') = {p}
           /\ ~Stops(p) /\ ~Starts(p) =>
                ActiveIn(proc) = {p} /\ ActiveIn(proc') \subseteq {p}
<1>0. /\ spent["overlap"] \in Nat /\ spent'["overlap"] \in Nat
      /\ spent["overlap"] <= spent'["overlap"]
  BY DEF TypeOK, Minds, Bounded
<1> HIDE DEF BoundedEvents
<1>1. Alone
  BY <1>0 DEF Alone
<1>2. LoneIn(proc, rows, history, candidates, clock)
  BY <1>1 DEF LoneInv
<1>3. \A o \in Procs \ {p} : proc'[o] = proc[o]
  BY MoveFacts
<1>4. Stops(p) \/ Starts(p) \/ p \in ActiveIn(proc)
  BY DEF Does, Goes, Drops, Reads, Loads, Stores, Cites, Counted, Appends,
         Picks, Rates, ActiveIn, Working
<1>5. Starts(p) => ActiveIn(proc) = {}
  BY DEF Starts, Active, ActiveIn
<1>6. Stops(p) => ActiveIn(proc') = ActiveIn(proc) \ {p}
  <2>1. Stops(p) => proc'[p].pc \notin Working
    BY DEF Stops, Working
  <2> QED
    BY <1>3, <2>1 DEF ActiveIn
<1>7. Starts(p) => ActiveIn(proc') = {p}
  <2>1. Starts(p) => proc'[p].pc \in Working
    BY DEF Starts, Working
  <2> QED
    BY <1>3, <1>5, <2>1 DEF ActiveIn
<1>8. p \in ActiveIn(proc) => ActiveIn(proc) = {p}
  BY <1>2 DEF LoneIn
<1>9. ActiveIn(proc) = {p} => ActiveIn(proc') \subseteq {p}
  BY <1>3 DEF ActiveIn
<1> QED
  BY <1>1, <1>2, <1>4, <1>5, <1>6, <1>7, <1>8, <1>9

\* Writing the rating of a CVE leaves one rating of its domain.
LEMMA ReplaceFacts ==
    ASSUME NEW C, NEW k, NEW C2,
           \A c : c \in C2 <=> c = k \/ \E o \in C : c \in Replace(o, k)
    PROVE  \A c : c \in C2 <=> \/ c = k
                              \/ /\ c \in C
                                 /\ ~(c.cve = k.cve
                                      /\ c.rating.domain = k.rating.domain)
<1>1. \A c \in C : c.cve = k.cve /\ c.rating.domain = k.rating.domain
                   => Replace(c, k) = {k}
  BY DEF Replace
<1>2. \A c \in C : ~(c.cve = k.cve /\ c.rating.domain = k.rating.domain)
                   => Replace(c, k) = {c}
  BY DEF Replace
<1>3. \A c : c \in C2 <=> \/ c = k
                          \/ /\ c \in C
                             /\ ~(c.cve = k.cve
                                  /\ c.rating.domain = k.rating.domain)
  <2> SUFFICES ASSUME NEW c
               PROVE  c \in C2 <=> \/ c = k
                          \/ /\ c \in C
                             /\ ~(c.cve = k.cve
                                  /\ c.rating.domain = k.rating.domain)
    OBVIOUS
  <2>1. c \in C2 <=> c = k \/ \E o \in C : c \in Replace(o, k)
    OBVIOUS
  <2>2. ASSUME NEW o \in C, c \in Replace(o, k)
        PROVE  c = k \/ (c = o /\ ~(o.cve = k.cve
                                    /\ o.rating.domain = k.rating.domain))
    BY <1>1, <1>2, <2>2
  <2>3. ASSUME c \in C, ~(c.cve = k.cve /\ c.rating.domain = k.rating.domain)
        PROVE  c \in Replace(c, k)
    BY <1>2, <2>3
  <2> QED
    BY <2>1, <2>2, <2>3
<1> QED
  BY <1>3

LEMMA ReplaceOwn ==
    ASSUME NEW C, NEW k, NEW C2,
           \A c : c \in C2 <=> c = k \/ \E o \in C : c \in Replace(o, k)
    PROVE  {c \in C2 : c.cve = k.cve /\ c.rating.domain = k.rating.domain}
             = {k}
<1>1. \A c : c \in C2 <=> \/ c = k
                          \/ /\ c \in C
                             /\ ~(c.cve = k.cve
                                  /\ c.rating.domain = k.rating.domain)
  BY ReplaceFacts
<1> QED
  BY <1>1

\* The newest entry is what the history says now.
LEMMA NewestEntry ==
    ASSUME NEW H, NEW e, NEW v, NEW f, e \in H, e.cve = v, e.field = f,
           e.observed_at \in Nat,
           \A h \in H : h.cve = v /\ h.field = f /\ h # e =>
               h.observed_at \in Nat /\ h.observed_at < e.observed_at
    PROVE  AsOfNow(H, v, f) = e.new_value
<1> DEFINE G == {h \in H : h.cve = v /\ h.field = f}
           Top(h) == \A g \in G : g.observed_at <= h.observed_at
<1>1. e \in G
  OBVIOUS
<1>2. Top(e)
  OBVIOUS
<1>3. ASSUME NEW h \in G, Top(h)
      PROVE  h = e
  <2>1. e.observed_at <= h.observed_at
    BY <1>1, <1>3
  <2>2. CASE h # e
    <3>1. h.observed_at \in Nat /\ h.observed_at < e.observed_at
      BY <2>2
    <3> QED
      BY <2>1, <3>1
  <2> QED
    BY <2>2
<1> HIDE DEF Top
<1>4. (CHOOSE h \in G : Top(h)) = e
  BY <1>1, <1>2, <1>3
<1>5. AsOfNow(H, v, f) = (CHOOSE h \in G : Top(h)).new_value
  BY <1>1 DEF AsOfNow, Latest, Top
<1> QED
  BY <1>4, <1>5

\* After a step of a process that was alone, what it has read is still so.
LEMMA StepUp ==
    ASSUME TypeOK, EquippedInv, NEW p \in Procs, Moves(p), Does(p),
           ~Stops(p), ~Starts(p),
           \A h \in history : h.observed_at <= clock,
           UpToDate(proc[p], rows, history, candidates, clock)
    PROVE  UpToDate(proc'[p], rows', history', candidates', clock')
<1> DEFINE q == proc[p]
           r == proc'[p]
           Goal == UpToDate(r, rows', history', candidates', clock')
<1>0. /\ q \in ProcStates /\ r \in ProcStates /\ clock \in Nat
      /\ rows \in [CVEs -> Vulnerabilities \cup {None}]
      /\ Equipped(q, rows)
  BY TypeFacts, EquippedFacts DEF Moves
<1>1. CASE Goes(p)
  <2>1. r.pc = "rate" => r.todo = r.touched
    BY <1>1 DEF Goes
  <2>2. r.pc \in {"feed", "get", "rate", "ack"}
    BY <1>1 DEF Goes
  <2> HIDE DEF r
  <2>3. Goal
    BY <2>1, <2>2 DEF UpToDate
  <2> QED
    BY <2>3 DEF r
<1>2. CASE Reads(p)
  <2>1. /\ r.pc = "upsert" /\ r.row = merge(KnownIn(r.cve, rows'), r.input)
        /\ r.fields = Changes(KnownIn(r.cve, rows'), r.input)
        /\ r.at = clock + 1 /\ clock' = clock + 1 /\ history' = history
    BY <1>2 DEF Reads
  <2>2. \A h \in history : h.observed_at \in Nat
    BY DEF TypeOK
  <2>3. \A h \in history' : h.observed_at < r.at
    BY <1>0, <2>1, <2>2
  <2> HIDE DEF r
  <2>4. r.at <= clock'
    BY <1>0, <2>1
  <2>5. Goal
    BY <2>1, <2>3, <2>4 DEF UpToDate
  <2> QED
    BY <2>5 DEF r
<1>3. CASE Stores(p) /\ q.pc = "commit"
  <2>1. /\ r.pc = "source" /\ r.row = q.row /\ r.cve = q.cve
        /\ r.at = q.at /\ history' = history /\ clock' = clock
    BY <1>3 DEF Stores, Keeps
  <2>2. /\ q.at <= clock /\ \A h \in history : h.observed_at < q.at
        /\ q.base = rows[q.cve]
    BY <1>3 DEF UpToDate
  <2>3. rows'[q.cve] = q.row
    BY <1>3, <2>2, StoreFacts
  <2> HIDE DEF r, q
  <2>4. Goal
    BY <2>1, <2>2, <2>3 DEF UpToDate
  <2> QED
    BY <2>4 DEF r
<1>4. CASE Cites(p)
  <2>1. /\ q.pc = "source" /\ r.pc = "history" /\ r.row = q.row
        /\ r.cve = q.cve /\ r.at = q.at
        /\ UNCHANGED <<rows, history, clock>>
    BY <1>4 DEF Cites, Keeps
  <2>2. /\ q.at <= clock /\ \A h \in history : h.observed_at < q.at
        /\ q.row = rows[q.cve]
    BY <2>1 DEF UpToDate
  <2> HIDE DEF r, q
  <2>3. Goal
    BY <2>1, <2>2 DEF UpToDate
  <2> QED
    BY <2>3 DEF r
<1>5. CASE Appends(p) \/ Counted(p)
  <2>1. r.pc \in {"products", "feed"}
    BY <1>5 DEF Appends, Counted
  <2> HIDE DEF r
  <2>2. Goal
    BY <2>1 DEF UpToDate
  <2> QED
    BY <2>2 DEF r
<1>6. ASSUME NEW v \in CVEs, Picks(p, v)
      PROVE  Goal
  <2> DEFINE d == classify_domain(rows[v]).domain
             row == [rows[v] EXCEPT !.domain_guess = d]
  <2>1. /\ q.pc = "rate" /\ r.cve = v /\ r.touched = q.touched
        /\ r.todo = q.todo \ {v} /\ r.row = row
        /\ r.pc = IF rows[v].domain_guess = d THEN "candidate" ELSE "guess"
        /\ UNCHANGED <<rows, history, candidates, clock>>
    BY <1>6 DEF Picks
  <2>2. rows[v] \in Vulnerabilities
    BY <1>0, <1>6 DEF Picks, Equipped
  <2>3. d \in Domains \cup {None}
    BY ClassifyType
  <2> HIDE DEF d
  <2>4. /\ row.domain_guess = d
        /\ classify_domain(row) = classify_domain(rows[v])
    BY <2>2, <2>3, GuessRow
  <2>5. rows[v].domain_guess = d => row = rows[v]
    BY <2>2 DEF Vulnerabilities
  <2>6. \A w \in q.touched \ q.todo : RatedIn(w, rows, candidates)
    BY <2>1 DEF UpToDate
  <2>7. \A w \in r.touched \ r.todo : w # v => RatedIn(w, rows, candidates)
    BY <2>1, <2>6
  <2> HIDE DEF r, q, row
  <2>8. CASE r.pc = "candidate"
    <3>1. r.row = rows'[r.cve] /\ r.row.domain_guess = classify_domain(r.row).domain
      BY <2>1, <2>4, <2>5, <2>8 DEF d
    <3> QED
      BY <2>1, <2>7, <2>8, <3>1 DEF UpToDate
  <2>9. CASE r.pc = "guess"
    <3>1. r.row = [rows'[r.cve] EXCEPT
                     !.domain_guess = classify_domain(rows'[r.cve]).domain]
      BY <2>1 DEF row, d
    <3> QED
      BY <2>1, <2>7, <2>9, <3>1 DEF UpToDate
  <2> QED
    BY <2>1, <2>8, <2>9
<1>7. CASE Stores(p) /\ q.pc = "settle"
  <2> DEFINE d == classify_domain(rows[q.cve]).domain
  <2>0. q.base = rows[q.cve]
    BY <1>7 DEF UpToDate
  <2>1. /\ q.pc = "settle" /\ r.pc = "candidate" /\ r.row = q.row
        /\ r.cve = q.cve /\ r.touched = q.touched /\ r.todo = q.todo
        /\ UNCHANGED <<history, candidates, clock>>
    BY <1>7 DEF Stores, Keeps
  <2>2. /\ q.cve \in CVEs /\ rows'[q.cve] = q.row
        /\ \A v \in CVEs \ {q.cve} : rows'[v] = rows[v]
    BY <1>7, <2>0, StoreFacts
  <2>3. /\ q.row = [rows[q.cve] EXCEPT !.domain_guess = d]
        /\ \A w \in q.touched \ q.todo : w # q.cve => RatedIn(w, rows, candidates)
    BY <2>1 DEF UpToDate
  <2>4. rows[q.cve] \in Vulnerabilities
    BY <1>0, <2>1 DEF Equipped
  <2>5. d \in Domains \cup {None}
    BY ClassifyType
  <2> HIDE DEF d
  <2>6. q.row.domain_guess = d /\ classify_domain(q.row) = classify_domain(rows[q.cve])
    BY <2>3, <2>4, <2>5, GuessRow
  <2>7. q.row.domain_guess = classify_domain(q.row).domain
    BY <2>6 DEF d
  <2>8. q.touched \subseteq CVEs
    BY <1>0 DEF ProcStates
  <2>9. \A w \in r.touched \ r.todo : w # r.cve => RatedIn(w, rows', candidates')
    <3> SUFFICES ASSUME NEW w \in r.touched \ r.todo, w # r.cve
                 PROVE  RatedIn(w, rows', candidates')
      OBVIOUS
    <3>1. rows'[w] = rows[w] /\ candidates' = candidates
      BY <2>1, <2>2, <2>8
    <3>2. RatedIn(w, rows, candidates)
      BY <2>1, <2>3
    <3> QED
      BY <3>1, <3>2 DEF RatedIn
  <2> HIDE DEF r, q
  <2>10. Goal
    BY <2>1, <2>2, <2>7, <2>9 DEF UpToDate
  <2> QED
    BY <2>10 DEF r
<1>8. CASE Rates(p)
  <2> DEFINE k == Rating(q.cve, q.row)
  <2>1. /\ q.pc = "candidate" /\ r.pc = "rate" /\ r.row = q.row
        /\ r.cve = q.cve /\ r.touched = q.touched /\ r.todo = q.todo
        /\ UNCHANGED <<rows, history, clock>>
    BY <1>8 DEF Rates, Keeps
  <2>2. /\ q.row = rows[q.cve]
        /\ q.row.domain_guess = classify_domain(q.row).domain
        /\ \A w \in q.touched \ q.todo : w # q.cve => RatedIn(w, rows, candidates)
    BY <2>1 DEF UpToDate
  <2>3. /\ k.cve = q.cve /\ k.rating.domain = classify_domain(q.row).domain
        /\ k.rating.support_status = classify_domain(q.row).support_status
    BY RatingOf
  <2>4. candidates' = IF Rateable(k)
                      THEN {k} \cup UNION {Replace(c, k) : c \in candidates}
                      ELSE candidates
    BY <1>8 DEF Rates
  <2> HIDE DEF k
  <2>5. /\ ~Rateable(k) => candidates' = candidates
        /\ Rateable(k) => candidates' =
             {k} \cup UNION {Replace(c, k) : c \in candidates}
    BY <2>4
  <2>6. ASSUME NEW w \in q.touched \ q.todo
        PROVE  RatedIn(w, rows', candidates')
    <3>1. rows' = rows
      BY <2>1
    <3>2. CASE w # q.cve
      <4>1. \A d : {c \in candidates' : c.cve = w /\ c.rating.domain = d}
                     = {c \in candidates : c.cve = w /\ c.rating.domain = d}
        <5>1. CASE Rateable(k)
          <6>1. candidates' = {k} \cup UNION {Replace(c, k) : c \in candidates}
            BY <2>5, <5>1
          <6>2. w # k.cve
            BY <2>3, <3>2
          <6> SUFFICES ASSUME NEW d
                       PROVE  {c \in candidates' : c.cve = w /\ c.rating.domain = d}
                                = {c \in candidates : c.cve = w /\ c.rating.domain = d}
            OBVIOUS
          <6> DEFINE C2 == candidates'
          <6>3. \A c : c \in C2 <=>
                         c = k \/ \E o \in candidates : c \in Replace(o, k)
            BY <6>1
          <6> HIDE DEF C2
          <6>4. {c \in C2 : c.cve = w /\ c.rating.domain = d}
                  = {c \in candidates : c.cve = w /\ c.rating.domain = d}
            <7>1. \A c : c.cve = w => (c \in C2 <=> c \in candidates)
              BY <6>2, <6>3 DEF Replace
            <7> QED
              BY <7>1
          <6> QED
            BY <6>4 DEF C2
        <5>2. CASE ~Rateable(k)
          BY <2>5, <5>2
        <5> QED
          BY <5>1, <5>2
      <4>2. RatedIn(w, rows, candidates)
        BY <2>2, <3>2
      <4> QED
        BY <3>1, <4>1, <4>2 DEF RatedIn
    <3>3. CASE w = q.cve /\ ~Rateable(k)
      <4>1. classify_domain(q.row).support_status = "unsupported"
        BY <2>3, <3>3 DEF Rateable
      <4> QED
        BY <2>2, <3>1, <3>3, <4>1 DEF RatedIn
    <3>4. CASE w = q.cve /\ Rateable(k)
      <4>1. {c \in candidates' : c.cve = k.cve
                                   /\ c.rating.domain = k.rating.domain} = {k}
        <5> DEFINE C2 == candidates'
        <5>1. \A c : c \in C2 <=>
                       c = k \/ \E o \in candidates : c \in Replace(o, k)
          BY <2>5, <3>4
        <5> HIDE DEF C2
        <5>2. {c \in C2 : c.cve = k.cve /\ c.rating.domain = k.rating.domain}
                = {k}
          BY <5>1, ReplaceOwn
        <5> QED
          BY <5>2 DEF C2
      <4>2. k = Rating(w, rows[w])
        BY <2>2, <3>4 DEF k
      <4>3. {c \in candidates' : c.cve = w
               /\ c.rating.domain = classify_domain(rows[w]).domain}
              = {Rating(w, rows[w])}
        BY <2>2, <2>3, <3>4, <4>1, <4>2
      <4> QED
        BY <2>2, <3>1, <3>4, <4>3 DEF RatedIn
    <3> QED
      BY <3>2, <3>3, <3>4
  <2> HIDE DEF r, q
  <2>7. Goal
    BY <2>1, <2>6 DEF UpToDate
  <2> QED
    BY <2>7 DEF r
<1>9. CASE Loads(p)
  <2>1. /\ \/ q.pc = "upsert" /\ r.pc = "commit"
           \/ q.pc = "guess" /\ r.pc = "settle"
        /\ r.row = q.row /\ r.cve = q.cve /\ r.at = q.at
        /\ r.input = q.input /\ r.fields = q.fields
        /\ r.touched = q.touched /\ r.todo = q.todo
        /\ r.base = rows[q.cve]
        /\ UNCHANGED <<rows, history, candidates, clock>>
    BY <1>9 DEF Loads, Keeps
  <2>5. UpToDate(q, rows, history, candidates, clock)
    OBVIOUS
  <2> HIDE DEF r, q
  <2>2. CASE q.pc = "upsert" /\ r.pc = "commit"
    <3>1. /\ q.row = merge(KnownIn(q.cve, rows), q.input)
          /\ q.fields = Changes(KnownIn(q.cve, rows), q.input)
          /\ q.at <= clock /\ \A h \in history : h.observed_at < q.at
      BY <2>2, <2>5 DEF UpToDate
    <3>2. /\ r.row = merge(KnownIn(r.cve, rows'), r.input)
          /\ r.fields = Changes(KnownIn(r.cve, rows'), r.input)
          /\ r.at <= clock' /\ \A h \in history' : h.observed_at < r.at
          /\ r.base = rows'[r.cve]
      <4>1. KnownIn(r.cve, rows') = KnownIn(q.cve, rows)
        BY <2>1
      <4> QED
        BY <2>1, <3>1, <4>1
    <3>3. Goal
      BY <2>2, <3>2 DEF UpToDate
    <3> QED
      BY <3>3 DEF r
  <2>3. CASE q.pc = "guess" /\ r.pc = "settle"
    <3>1. /\ q.row = [rows[q.cve] EXCEPT
                        !.domain_guess = classify_domain(rows[q.cve]).domain]
          /\ \A w \in q.touched \ q.todo : w # q.cve =>
                 RatedIn(w, rows, candidates)
      BY <2>3, <2>5 DEF UpToDate
    <3>2. /\ r.row = [rows'[r.cve] EXCEPT
                        !.domain_guess = classify_domain(rows'[r.cve]).domain]
          /\ \A w \in r.touched \ r.todo : w # r.cve =>
                 RatedIn(w, rows', candidates')
          /\ r.base = rows'[r.cve]
      BY <2>1, <3>1
    <3>3. Goal
      BY <2>3, <3>2 DEF UpToDate
    <3> QED
      BY <3>3 DEF r
  <2> QED
    BY <2>1, <2>2, <2>3
<1>10. CASE Drops(p)
  <2>1. /\ r.pc = q.pc /\ r.row = q.row /\ r.cve = q.cve /\ r.at = q.at
        /\ r.input = q.input /\ r.fields = q.fields /\ r.base = q.base
        /\ r.touched = q.touched /\ r.todo = q.todo
        /\ UNCHANGED <<rows, history, candidates, clock>>
    BY <1>10 DEF Drops, Keeps
  <2>2. UpToDate(q, rows, history, candidates, clock)
    OBVIOUS
  <2> HIDE DEF r, q
  <2>3. UpToDate(r, rows, history, candidates, clock)
    BY <2>1, <2>2 DEF UpToDate
  <2> QED
    BY <2>1, <2>3 DEF r
<1>11. Stores(p) => q.pc \in {"commit", "settle"}
  BY DEF Stores
<1> HIDE DEF Goal, r
<1>12. Goal
  BY <1>1, <1>2, <1>3, <1>4, <1>5, <1>6, <1>7, <1>8, <1>9, <1>10, <1>11
  DEF Does, Goal, r
<1> QED
  BY <1>12 DEF Goal, r

LEMMA StepLone ==
    ASSUME TypeOK, EquippedInv, LoneInv,
           NEW p \in Procs, Moves(p), Minds(p), Does(p)
    PROVE  LoneInv'
<1> SUFFICES ASSUME Alone'
             PROVE  LoneIn(proc', rows', history', candidates', clock')
  BY DEF LoneInv
<1>1. /\ LoneIn(proc, rows, history, candidates, clock)
      /\ Stops(p) => ActiveIn(proc') = ActiveIn(proc) \ {p}
      /\ Starts(p) => ActiveIn(proc') = {p}
      /\ ~Stops(p) /\ ~Starts(p) =>
           ActiveIn(proc) = {p} /\ ActiveIn(proc') \subseteq {p}
  BY LoneStep
<1>2. \A h \in history' : h.observed_at <= clock'
  <2>1. /\ \A h \in history : h.observed_at <= clock
        /\ \A h \in history : h.observed_at \in Nat
        /\ clock \in Nat
    BY <1>1 DEF LoneIn, TypeOK
  <2>2. CASE history' = history /\ (clock' = clock \/ clock' = clock + 1)
    BY <2>1, <2>2
  <2>3. CASE Appends(p)
    <3>1. proc[p].at <= clock
      <4>1. p \in ActiveIn(proc) /\ proc[p].pc = "history"
        BY <2>3 DEF Appends, ActiveIn, Working
      <4>2. UpToDate(proc[p], rows, history, candidates, clock)
        BY <1>1, <4>1 DEF LoneIn
      <4> QED
        BY <4>1, <4>2 DEF UpToDate
    <3>2. clock' = clock
      BY <2>3 DEF Appends
    <3>3. \A h \in history' : h \in history \/ h.observed_at = proc[p].at
      BY <2>3 DEF Appends
    <3> QED
      BY <2>1, <3>1, <3>2, <3>3
  <2>4. Appends(p) \/ (history' = history /\ (clock' = clock \/ clock' = clock + 1))
    BY DEF Does, Stops, Starts, Goes, Drops, Reads, Loads, Stores, Cites,
           Counted, Picks, Rates
  <2> QED
    BY <2>2, <2>3, <2>4
<1>3. ASSUME NEW o \in ActiveIn(proc')
      PROVE  /\ \A x \in ActiveIn(proc') : x = o
             /\ UpToDate(proc'[o], rows', history', candidates', clock')
  <2>1. CASE Stops(p)
    <3>1. o \in ActiveIn(proc) /\ o # p /\ o \in Procs
      BY <1>1, <1>3, <2>1 DEF ActiveIn
    <3>2. proc'[o] = proc[o]
      BY <3>1, MoveFacts
    <3>3. /\ rows' = rows /\ history' = history /\ candidates' = candidates
          /\ clock' = clock
      BY <2>1 DEF Stops
    <3>4. UpToDate(proc[o], rows, history, candidates, clock)
          /\ \A x \in ActiveIn(proc) : x = o
      BY <1>1, <3>1 DEF LoneIn
    <3> QED
      BY <1>1, <2>1, <3>2, <3>3, <3>4
  <2>2. CASE Starts(p)
    <3>1. o = p /\ proc'[p].pc = "feed"
      BY <1>1, <1>3, <2>2 DEF Starts
    <3>2. UpToDate(proc'[p], rows', history', candidates', clock')
      BY <3>1 DEF UpToDate
    <3> QED
      BY <1>1, <2>2, <3>1, <3>2
  <2>3. CASE ~Stops(p) /\ ~Starts(p)
    <3>1. /\ o = p /\ p \in ActiveIn(proc)
          /\ \A x \in ActiveIn(proc') : x = o
      BY <1>1, <1>3, <2>3
    <3>2. /\ UpToDate(proc[p], rows, history, candidates, clock)
          /\ \A h \in history : h.observed_at <= clock
      BY <1>1, <3>1 DEF LoneIn
    <3>3. UpToDate(proc'[p], rows', history', candidates', clock')
      BY <2>3, <3>2, StepUp
    <3> QED
      BY <3>1, <3>3
  <2> QED
    BY <2>1, <2>2, <2>3
<1> QED
  BY <1>2, <1>3 DEF LoneIn

\* An entry about another CVE or field does not change what the history says.
LEMMA SameEntries ==
    ASSUME NEW H, NEW H2, NEW v, NEW f,
           \A h : h.cve = v /\ h.field = f => (h \in H2 <=> h \in H)
    PROVE  AsOfNow(H2, v, f) = AsOfNow(H, v, f)
<1>1. {h \in H2 : h.cve = v /\ h.field = f}
        = {h \in H : h.cve = v /\ h.field = f}
  OBVIOUS
<1> QED
  BY <1>1 DEF AsOfNow

LEMMA StepExplain ==
    ASSUME TypeOK, EquippedInv, LoneInv, ExplainInv,
           NEW p \in Procs, Moves(p), Minds(p), Does(p)
    PROVE  ExplainInv'
<1> DEFINE Told(H, R, v, f) == AsOfNow(H, v, f) = KnownIn(v, R)[f]
           Owed(P, v, f) == \E o \in ActiveIn(P) :
                              /\ P[o].cve = v /\ f \in P[o].fields
                              /\ P[o].pc \in {"source", "history"}
<1> SUFFICES ASSUME Alone', NEW v \in CVEs, NEW f \in TrackedFields,
                    <<v, f>> \notin gaps'
             PROVE  Told(history', rows', v, f) \/ Owed(proc', v, f)
  BY DEF ExplainInv, ExplainIn
<1>0. /\ Alone /\ LoneIn(proc, rows, history, candidates, clock)
      /\ Stops(p) \/ Starts(p) \/ p \in ActiveIn(proc)
      /\ Starts(p) => ActiveIn(proc) = {}
      /\ Stops(p) => ActiveIn(proc') = ActiveIn(proc) \ {p}
      /\ ~Stops(p) /\ ~Starts(p) => ActiveIn(proc) = {p}
  BY LoneStep
<1>3. /\ proc[p] \in ProcStates /\ Equipped(proc[p], rows)
      /\ rows[v] \in Vulnerabilities \cup {None}
  BY TypeFacts, EquippedFacts
<1>10. ASSUME Appends(p), v = proc[p].cve, f \in proc[p].fields
       PROVE  Told(history', rows', v, f)
  <2> DEFINE e(g) == [cve |-> proc[p].cve, field |-> g,
                      new_value |-> proc[p].row[g], observed_at |-> proc[p].at]
  <2>1. /\ proc[p].pc = "history" /\ rows' = rows /\ ~Stops(p) /\ ~Starts(p)
        /\ history' = history \cup {e(g) : g \in proc[p].fields}
    BY <1>10 DEF Appends, Stops, Starts
  <2>2. /\ UpToDate(proc[p], rows, history, candidates, clock)
        /\ proc[p].at \in Nat /\ proc[p].fields \subseteq TrackedFields
    BY <1>0, <1>3, <2>1 DEF ProcStates, LoneIn
  <2>3. /\ proc[p].row = rows[proc[p].cve]
        /\ \A h \in history : h.observed_at < proc[p].at
    BY <2>1, <2>2 DEF UpToDate
  <2>4. \A g : /\ e(g).cve = proc[p].cve /\ e(g).field = g
               /\ e(g).new_value = proc[p].row[g]
               /\ e(g).observed_at = proc[p].at
    OBVIOUS
  <2> HIDE DEF e
  <2>5. e(f) \in history'
    BY <1>10, <2>1
  <2>6. ASSUME NEW h \in history', h.cve = v, h.field = f, h # e(f)
        PROVE  h.observed_at \in Nat /\ h.observed_at < e(f).observed_at
    <3>1. h \in history
      BY <2>1, <2>4, <2>6
    <3> QED
      BY <2>3, <2>4, <3>1 DEF TypeOK
  <2>7. AsOfNow(history', v, f) = e(f).new_value
    BY <1>10, <2>2, <2>4, <2>5, <2>6, NewestEntry
  <2>8. rows[v] # None
    BY <1>3, <1>10, <2>1 DEF Equipped
  <2>9. KnownIn(v, rows')[f] = proc[p].row[f]
    BY <1>10, <2>1, <2>3, <2>8 DEF KnownIn
  <2> QED
    BY <2>4, <2>7, <2>9
<1> SUFFICES ASSUME ~(Appends(p) /\ v = proc[p].cve /\ f \in proc[p].fields)
             PROVE  Told(history', rows', v, f) \/ Owed(proc', v, f)
  BY <1>10
<1>1. <<v, f>> \notin gaps
  <2>1. CASE Appends(p)
    <3>1. gaps' = gaps \ {<<proc[p].cve, g>> : g \in proc[p].fields}
      BY <2>1 DEF Appends
    <3>2. <<v, f>> \notin {<<proc[p].cve, g>> : g \in proc[p].fields}
      BY <2>1
    <3> QED
      BY <3>1, <3>2
  <2>2. CASE ~Appends(p)
    BY <2>2 DEF Does, Stops, Starts, Goes, Drops, Reads, Loads, Stores, Cites,
                Counted, Picks, Rates, ghosts
  <2> QED
    BY <2>1, <2>2
<1>2. Told(history, rows, v, f) \/ Owed(proc, v, f)
  BY <1>0, <1>1 DEF ExplainInv, ExplainIn
<1>4. CASE Stops(p)
  <2>1. history' = history /\ rows' = rows /\ gaps' = gaps \cup Gap(p)
    BY <1>4 DEF Stops
  <2>2. CASE Told(history, rows, v, f)
    BY <2>1, <2>2
  <2>3. ASSUME NEW o \in ActiveIn(proc), proc[o].cve = v, f \in proc[o].fields,
               proc[o].pc \in {"source", "history"}
        PROVE  Owed(proc', v, f)
    <3>1. o # p
      BY <2>1, <2>3 DEF Gap
    <3>2. o \in ActiveIn(proc') /\ o \in Procs
      BY <1>0, <1>4, <3>1 DEF ActiveIn
    <3>3. proc'[o] = proc[o]
      BY <3>1, <3>2, MoveFacts
    <3> QED
      BY <2>3, <3>2, <3>3
  <2> QED
    BY <1>2, <2>2, <2>3
<1>5. CASE Starts(p)
  <2>1. Told(history, rows, v, f)
    BY <1>0, <1>2, <1>5
  <2>2. history' = history /\ rows' = rows
    BY <1>5 DEF Starts
  <2> QED
    BY <2>1, <2>2
<1>6. ASSUME ~Stops(p), ~Starts(p)
      PROVE  /\ UpToDate(proc[p], rows, history, candidates, clock)
             /\ \/ Told(history, rows, v, f)
                \/ /\ proc[p].cve = v /\ f \in proc[p].fields
                   /\ proc[p].pc \in {"source", "history"}
  <2>1. ActiveIn(proc) = {p}
    BY <1>0, <1>6
  <2>2. UpToDate(proc[p], rows, history, candidates, clock)
    BY <1>0, <2>1 DEF LoneIn
  <2> QED
    BY <1>2, <2>1, <2>2
<1> HIDE DEF Told
<1>7. CASE /\ ~Stops(p) /\ ~Starts(p)
           /\ Goes(p) \/ Reads(p) \/ Loads(p) \/ Counted(p)
              \/ (\E w \in CVEs : Picks(p, w)) \/ Rates(p)
  <2>1. /\ history' = history /\ rows' = rows
        /\ proc[p].pc \notin {"source", "history"}
    BY <1>7 DEF Goes, Reads, Loads, Counted, Picks, Rates
  <2>2. Told(history, rows, v, f)
    BY <1>6, <1>7, <2>1
  <2> QED
    BY <2>1, <2>2
<1>8. CASE ~Stops(p) /\ ~Starts(p) /\ Stores(p) /\ proc[p].pc = "commit"
  <2>1. /\ proc[p].pc = "commit" /\ history' = history
        /\ proc'[p].pc = "source" /\ Keeps(proc[p], proc'[p])
        /\ proc[p].base = rows[proc[p].cve]
    BY <1>6, <1>8 DEF Stores, UpToDate
  <2>2. /\ proc[p].cve \in CVEs
        /\ rows'[proc[p].cve] = proc[p].row /\ proc[p].row \in Vulnerabilities
        /\ \A w \in CVEs \ {proc[p].cve} : rows'[w] = rows[w]
    BY <1>8, <2>1, StoreFacts
  <2>3. Told(history, rows, v, f)
    BY <1>6, <1>8, <2>1
  <2>4. CASE v # proc[p].cve
    <3>1. KnownIn(v, rows') = KnownIn(v, rows)
      BY <2>2, <2>4 DEF KnownIn
    <3> QED
      BY <2>1, <2>3, <3>1 DEF Told
  <2>5. CASE v = proc[p].cve /\ f \in proc[p].fields
    <3>1. p \in ActiveIn(proc')
      BY <2>1 DEF ActiveIn, Working
    <3>2. proc'[p].cve = v /\ f \in proc'[p].fields
      BY <2>1, <2>5 DEF Keeps
    <3>3. Owed(proc', v, f)
      BY <2>1, <3>1, <3>2
    <3> QED
      BY <3>3
  <2>6. CASE v = proc[p].cve /\ f \notin proc[p].fields
    <3> DEFINE e == KnownIn(v, rows)
    <3>1. /\ proc[p].row = merge(e, proc[p].input)
          /\ proc[p].fields = Changes(e, proc[p].input)
      BY <1>6, <1>8, <2>1, <2>6 DEF UpToDate
    <3>2. e \in Vulnerabilities /\ proc[p].input \in Contributions
      BY <1>3, <2>1, BlankType DEF KnownIn, Equipped
    <3> HIDE DEF e
    <3>3. proc[p].row[f] = e[f]
      BY <2>6, <3>1, <3>2, MergeKeeps
    <3>4. KnownIn(v, rows') = proc[p].row
      BY <2>2, <2>6, NoRowAssumption DEF KnownIn
    <3>5. AsOfNow(history', v, f) = KnownIn(v, rows')[f]
      BY <2>1, <2>3, <3>3, <3>4 DEF Told, e
    <3> QED
      BY <3>5 DEF Told
  <2> QED
    BY <2>4, <2>5, <2>6
<1>9. CASE ~Stops(p) /\ ~Starts(p) /\ (Cites(p) \/ Drops(p))
  <2>1. /\ history' = history /\ rows' = rows
        /\ Keeps(proc[p], proc'[p]) /\ proc'[p].pc \in Working
        /\ proc[p].pc \in {"source", "history"} =>
             proc'[p].pc \in {"source", "history"}
    BY <1>9 DEF Cites, Drops, Working
  <2>2. p \in ActiveIn(proc')
    BY <2>1 DEF ActiveIn
  <2>3. CASE Told(history, rows, v, f)
    BY <2>1, <2>3
  <2>4. CASE /\ proc[p].cve = v /\ f \in proc[p].fields
             /\ proc[p].pc \in {"source", "history"}
    <3>1. Owed(proc', v, f)
      BY <2>1, <2>2, <2>4 DEF Keeps
    <3> QED
      BY <3>1
  <2> QED
    BY <1>6, <1>9, <2>3, <2>4
<1>12. CASE ~Stops(p) /\ ~Starts(p) /\ Appends(p)
  <2> DEFINE e(g) == [cve |-> proc[p].cve, field |-> g,
                      new_value |-> proc[p].row[g], observed_at |-> proc[p].at]
  <2>1. /\ rows' = rows
        /\ history' = history \cup {e(g) : g \in proc[p].fields}
    BY <1>12 DEF Appends
  <2>2. \A g : e(g).cve = proc[p].cve /\ e(g).field = g
    OBVIOUS
  <2> HIDE DEF e
  <2>3. Told(history, rows, v, f)
    BY <1>6, <1>12
  <2>4. \A h : h.cve = v /\ h.field = f => (h \in history' <=> h \in history)
    BY <1>12, <2>1, <2>2
  <2>5. AsOfNow(history', v, f) = AsOfNow(history, v, f)
    BY <2>4, SameEntries
  <2> QED
    BY <2>1, <2>3, <2>5 DEF Told
<1>11. CASE ~Stops(p) /\ ~Starts(p) /\ Stores(p) /\ proc[p].pc = "settle"
  <2> DEFINE d == classify_domain(rows[proc[p].cve]).domain
  <2>1. /\ proc[p].pc = "settle" /\ history' = history
        /\ proc[p].base = rows[proc[p].cve]
    BY <1>6, <1>11 DEF Stores, UpToDate
  <2>2. /\ proc[p].cve \in CVEs
        /\ rows'[proc[p].cve] = proc[p].row /\ proc[p].row \in Vulnerabilities
        /\ \A w \in CVEs \ {proc[p].cve} : rows'[w] = rows[w]
    BY <1>11, <2>1, StoreFacts
  <2>3. Told(history, rows, v, f)
    BY <1>6, <1>11, <2>1
  <2>4. CASE v # proc[p].cve
    <3>1. KnownIn(v, rows') = KnownIn(v, rows)
      BY <2>2, <2>4 DEF KnownIn
    <3> QED
      BY <2>1, <2>3, <3>1 DEF Told
  <2>5. CASE v = proc[p].cve
    <3>1. proc[p].row = [rows[v] EXCEPT !.domain_guess = d]
      BY <1>6, <1>11, <2>1, <2>5 DEF UpToDate
    <3>2. rows[v] # None /\ rows[v] \in Vulnerabilities
      BY <1>3, <2>1, <2>5 DEF Equipped
    <3>3. d \in Domains \cup {None}
      BY ClassifyType
    <3> HIDE DEF d
    <3>4. f \in DOMAIN Blank \ {"domain_guess"}
      BY FieldNames
    <3>5. proc[p].row[f] = rows[v][f]
      BY <3>1, <3>2, <3>3, <3>4, GuessRow
    <3>6. KnownIn(v, rows) = rows[v] /\ KnownIn(v, rows') = proc[p].row
      BY <2>2, <2>5, <3>2, NoRowAssumption DEF KnownIn
    <3> QED
      BY <2>1, <2>3, <3>5, <3>6 DEF Told
  <2> QED
    BY <2>4, <2>5
<1>13. Stores(p) => proc[p].pc \in {"commit", "settle"}
  BY DEF Stores
<1> HIDE DEF Owed
<1> QED
  BY <1>4, <1>5, <1>7, <1>8, <1>9, <1>11, <1>12, <1>13 DEF Does

-----------------------------------------------------------------------------
(* The invariants of a lone writer hold together with those above. *)

SyncInv == BaseInv /\ LoneInv /\ ExplainInv

LEMMA InitSync ==
    ASSUME Init
    PROVE  SyncInv
<1>1. ActiveIn(proc) = {}
  <2>1. \A p \in Procs : proc[p].pc = "waiting"
    BY DEF Init, Idle
  <2> QED
    BY <2>1 DEF ActiveIn, Working
<1>2. history = {} /\ \A v \in CVEs : rows[v] = None
  BY DEF Init
<1>3. LoneInv
  BY <1>1, <1>2 DEF LoneInv, LoneIn
<1>4. ExplainIn(proc, rows, history, gaps)
  BY <1>2 DEF ExplainIn, AsOfNow, Latest, KnownIn
<1>5. BaseInv
  BY InitBase
<1> QED
  BY <1>3, <1>4, <1>5 DEF SyncInv, ExplainInv

LEMMA StepSync ==
    ASSUME SyncInv, [Next]_vars
    PROVE  SyncInv'
<1>0. BaseInv /\ LoneInv /\ ExplainInv
  BY DEF SyncInv
<1>1. BaseInv'
  BY <1>0, StepBase
<1>2. CASE UNCHANGED vars
  <2>1. /\ proc' = proc /\ rows' = rows /\ history' = history
        /\ candidates' = candidates /\ clock' = clock /\ gaps' = gaps
        /\ spent' = spent
    BY <1>2 DEF vars, tables, ghosts
  <2>2. LoneInv'
    BY <1>0, <2>1 DEF LoneInv, Alone
  <2>3. ExplainInv'
    BY <1>0, <2>1 DEF ExplainInv, Alone
  <2> QED
    BY <1>1, <2>2, <2>3 DEF SyncInv
<1>3. ASSUME NEW s \in Syncs, Requests(s)
      PROVE  SyncInv'
  <2>1. Alone' => Alone
    BY <1>0, <1>3, RequestBase DEF BaseInv
  <2>2. /\ proc' = proc /\ rows' = rows /\ history' = history
        /\ candidates' = candidates /\ clock' = clock /\ gaps' = gaps
    BY <1>3 DEF Requests, ghosts
  <2>3. LoneInv'
    BY <1>0, <2>1, <2>2 DEF LoneInv
  <2>4. ExplainInv'
    BY <1>0, <2>1, <2>2 DEF ExplainInv
  <2> QED
    BY <1>1, <2>3, <2>4 DEF SyncInv
<1>4. ASSUME NEW p \in Procs, Moves(p), Minds(p), Does(p)
      PROVE  SyncInv'
  <2>1. TypeOK /\ EquippedInv
    BY <1>0 DEF BaseInv, Ready
  <2>2. LoneInv'
    BY <1>0, <1>4, <2>1, StepLone
  <2>3. ExplainInv'
    BY <1>0, <1>4, <2>1, StepExplain
  <2> QED
    BY <1>1, <2>2, <2>3 DEF SyncInv
<1>5. CASE Next
  BY <1>0, <1>3, <1>4, <1>5, StepCases DEF BaseInv
<1> QED
  BY <1>2, <1>5

\* The invariants of IntelligenceSync, together inductive.
THEOREM Invariance == Spec => []SyncInv
<1>1. Init => SyncInv
  BY InitSync
<1>2. SyncInv /\ [Next]_vars => SyncInv'
  BY StepSync
<1> QED
  BY <1>1, <1>2, PTL DEF Spec

\* While no writers overlap, what the history says of a field that merge records
\* is what the row says: merge records every such field that it changes, and the
\* timestamps of a lone writer increase.  A writer that stopped between the row
\* and its history leaves wrong the fields it was changing, until one of them
\* changes again.
THEOREM HistoryReplays == Spec => []TrackedFieldsReplay
<1>1. SyncInv => TrackedFieldsReplay
  <2> SUFFICES ASSUME SyncInv, Alone, NEW v \in CVEs, rows[v] # None,
                      \A p \in Active : proc[p].cve = v =>
                          proc[p].pc \notin {"source", "history"},
                      NEW f \in TrackedFields, <<v, f>> \notin gaps
               PROVE  AsOfNow(history, v, f) = rows[v][f]
    BY DEF TrackedFieldsReplay
  <2>1. ExplainIn(proc, rows, history, gaps) /\ Active = ActiveIn(proc)
    BY DEF SyncInv, ExplainInv, Active, ActiveIn
  <2>2. AsOfNow(history, v, f) = KnownIn(v, rows)[f]
    BY <2>1 DEF ExplainIn
  <2>3. KnownIn(v, rows) = rows[v]
    BY DEF KnownIn
  <2> QED
    BY <2>2, <2>3
<1> QED
  BY <1>1, Invariance, PTL

\* While no writers overlap, a sync that has rated all it touched leaves every
\* touched CVE with the domain its text calls for and, if that domain is
\* supported, exactly one rating in it, computed from the row as it is.
THEOREM RatingsCurrent == Spec => []RatingsAreCurrent
<1>1. SyncInv => RatingsAreCurrent
  <2> SUFFICES ASSUME SyncInv, Alone, NEW w \in Workers,
                      NEW v \in proc[w].touched,
                      proc[w].pc = "rate", proc[w].todo = {}
               PROVE  RatedIn(v, rows, candidates)
    BY DEF RatingsAreCurrent, RatedIn
  <2>1. LoneIn(proc, rows, history, candidates, clock)
    BY DEF SyncInv, LoneInv
  <2>2. w \in ActiveIn(proc)
    BY DEF ActiveIn, Working, Procs
  <2>3. UpToDate(proc[w], rows, history, candidates, clock)
    BY <2>1, <2>2 DEF LoneIn
  <2>4. RatedIn(v, rows, candidates)
    BY <2>3 DEF UpToDate
  <2> QED
    BY <2>4
<1> QED
  BY <1>1, Invariance, PTL

\* What a row of CVE v may lose to another row.
Grows(v, old, new) ==
    /\ \A f \in SharedFields \cup LatestFields \cup {"kev_due_date"} :
         old[f] # None => new[f] # None
    /\ old.sources \subseteq new.sources
    /\ old.kev_listed => new.kev_listed
    /\ \/ new.epss_percentile = old.epss_percentile
       \/ \E c \in Contributions :
            /\ c.cve = v /\ c.epss_score # None
            /\ new.epss_score = c.epss_score
            /\ new.epss_percentile = c.epss_percentile
    /\ \/ new.domain_guess = old.domain_guess
       \/ new.domain_guess = classify_domain(new).domain

LEMMA GrowsFacts ==
    ASSUME NEW v \in CVEs, NEW old \in Vulnerabilities
    PROVE  /\ Grows(v, old, old)
           /\ \A c \in Contributions : c.cve = v => Grows(v, old, merge(old, c))
           /\ \A d \in Domains \cup {None} :
                d = classify_domain(old).domain =>
                    Grows(v, old, [old EXCEPT !.domain_guess = d])
<1>1. Grows(v, old, old)
  BY DEF Grows
<1>2. ASSUME NEW c \in Contributions, c.cve = v
      PROVE  Grows(v, old, merge(old, c))
  <2> DEFINE m == merge(old, c)
  <2>1. /\ \A f \in SharedFields \cup LatestFields \cup {"kev_due_date"} :
             old[f] # None => m[f] # None
        /\ old.kev_listed => m.kev_listed
        /\ m.domain_guess = old.domain_guess
        /\ \/ m.epss_percentile = old.epss_percentile
           \/ /\ c.epss_score # None /\ m.epss_score = c.epss_score
              /\ m.epss_percentile = c.epss_percentile
    BY MergeKeeps
  <2>2. old.sources \subseteq m.sources
    BY MergeType
  <2> HIDE DEF m
  <2>3. Grows(v, old, m)
    BY <1>2, <2>1, <2>2 DEF Grows
  <2> QED
    BY <2>3 DEF m
<1>3. ASSUME NEW d \in Domains \cup {None}, d = classify_domain(old).domain
      PROVE  Grows(v, old, [old EXCEPT !.domain_guess = d])
  <2> DEFINE new == [old EXCEPT !.domain_guess = d]
  <2>1. /\ \A f \in DOMAIN Blank \ {"domain_guess"} : new[f] = old[f]
        /\ new.domain_guess = d /\ classify_domain(new) = classify_domain(old)
    BY GuessRow
  <2> HIDE DEF new
  <2>2. /\ new.sources = old.sources /\ new.kev_listed = old.kev_listed
        /\ new.epss_percentile = old.epss_percentile
        /\ \A f \in SharedFields \cup LatestFields \cup {"kev_due_date"} :
             new[f] = old[f]
    BY <2>1, FieldNames
  <2>3. new.domain_guess = classify_domain(new).domain
    BY <1>3, <2>1
  <2>4. Grows(v, old, new)
    BY <2>2, <2>3 DEF Grows
  <2> QED
    BY <2>4 DEF new
<1> QED
  BY <1>1, <1>2, <1>3

\* While no writers overlap, a commit loses only what it replaces: a field that
\* is known stays known, a source stays cited and a KEV listing is not
\* withdrawn; the percentile of an EPSS score goes with the score, also to a
\* record that has none, and a domain only to the one the text calls for.
THEOREM LostToReplacement == Spec => OnlyReplacedIsLost
<1>1. ASSUME SyncInv, [Next]_vars, Alone', NEW v \in CVEs, rows[v] # None
      PROVE  Grows(v, rows[v], rows'[v])
  <2>0. TypeOK /\ EquippedInv /\ LoneInv /\ Ready
    BY <1>1 DEF SyncInv, BaseInv, Ready
  <2>1. rows[v] \in Vulnerabilities
    BY <1>1, <2>0 DEF TypeOK
  <2>2. CASE rows'[v] = rows[v]
    BY <2>1, <2>2, GrowsFacts
  <2>3. ASSUME NEW p \in Procs, Moves(p), Minds(p), Does(p),
               rows'[v] # rows[v]
        PROVE  Grows(v, rows[v], rows'[v])
    <3>1. Stores(p)
      BY <2>0, <2>3, RowsGrow
    <3>2. proc[p].pc \in {"commit", "settle"}
      BY <3>1 DEF Stores
    <3>3. UpToDate(proc[p], rows, history, candidates, clock)
      <4>1. LoneIn(proc, rows, history, candidates, clock)
        BY <1>1, <2>0, <2>3, LoneStep
      <4>2. p \in ActiveIn(proc)
        BY <3>2 DEF ActiveIn, Working
      <4> QED
        BY <4>1, <4>2 DEF LoneIn
    <3>4. proc[p].base = rows[proc[p].cve]
      BY <3>2, <3>3 DEF UpToDate
    <3>5. proc[p].cve = v /\ rows'[v] = proc[p].row
      BY <2>0, <2>3, <3>1, <3>4, StoreFacts
    <3>6. Equipped(proc[p], rows)
      BY <2>0, EquippedFacts
    <3>7. CASE proc[p].pc = "commit"
      <4>1. proc[p].row = merge(rows[v], proc[p].input)
        BY <1>1, <3>3, <3>5, <3>7 DEF UpToDate, KnownIn
      <4>2. proc[p].input \in Contributions /\ proc[p].input.cve = v
        BY <3>5, <3>6, <3>7 DEF Equipped
      <4> QED
        BY <2>1, <3>5, <4>1, <4>2, GrowsFacts
    <3>8. CASE proc[p].pc = "settle"
      <4> DEFINE d == classify_domain(rows[v]).domain
      <4>1. rows'[v] = [rows[v] EXCEPT !.domain_guess = d]
        BY <3>3, <3>5, <3>8 DEF UpToDate
      <4>2. d \in Domains \cup {None}
        BY ClassifyType
      <4> QED
        BY <2>1, <4>1, <4>2, GrowsFacts
    <3> QED
      BY <3>2, <3>7, <3>8
  <2>4. CASE Next
    <3>1. \A s : Requests(s) => rows' = rows
      BY DEF Requests
    <3> QED
      BY <2>0, <2>2, <2>3, <2>4, <3>1, StepCases
  <2>5. CASE UNCHANGED vars
    BY <2>2, <2>5 DEF vars, tables
  <2> QED
    BY <1>1, <2>4, <2>5
<1> DEFINE A == Alone' => \A v \in CVEs : rows[v] # None =>
                  Grows(v, rows[v], rows'[v])
<1>2. SyncInv /\ [Next]_vars => [A]_vars
  BY <1>1
<1>3. Spec => [][A]_vars
  BY <1>2, Invariance, PTL DEF Spec
<1>4. [A]_vars =>
        [Alone' => \A v \in CVEs : rows[v] # None =>
           /\ \A f \in SharedFields \cup LatestFields \cup {"kev_due_date"} :
                rows[v][f] # None => rows'[v][f] # None
           /\ rows[v].sources \subseteq rows'[v].sources
           /\ rows[v].kev_listed => rows'[v].kev_listed
           /\ rows'[v].epss_percentile = rows[v].epss_percentile
                \/ \E c \in Contributions :
                     /\ c.cve = v /\ c.epss_score # None
                     /\ rows'[v].epss_score = c.epss_score
                     /\ rows'[v].epss_percentile = c.epss_percentile
           /\ rows'[v].domain_guess = rows[v].domain_guess
                \/ rows'[v].domain_guess =
                     classify_domain(rows'[v]).domain]_vars
  BY DEF Grows
<1> QED
  BY <1>3, <1>4, PTL DEF OnlyReplacedIsLost
-----------------------------------------------------------------------------
(***************************************************************************)
(* The fetch that supplies a sync, which SourceConnectors describes, for   *)
(* every set of records, every page size and page limit, and any number of *)
(* changes and retries.                                                    *)
(***************************************************************************)

(***************************************************************************)
(* Ranks: how many members of a set of numbers are less than one of them.  *)
(***************************************************************************)

Before(S, r) == {q \in S : q < r}

LEMMA RankGrows ==
    ASSUME NEW S \in SUBSET Nat, IsFiniteSet(S), NEW q \in S, NEW r \in S, q < r
    PROVE  Cardinality(Before(S, q)) < Cardinality(Before(S, r))
<1>1. IsFiniteSet(Before(S, q)) /\ IsFiniteSet(Before(S, r))
  BY FS_Subset DEF Before
<1>2. q \notin Before(S, q) /\ Before(S, q) \cup {q} \in SUBSET Before(S, r)
  <2>1. \A x \in S : x \in Nat
    OBVIOUS
  <2>2. \A x \in S : x < q => x < r
    BY <2>1
  <2>3. ~ (q < q)
    BY <2>1
  <2> QED  BY <2>2, <2>3 DEF Before
<1>3. Cardinality(Before(S, q) \cup {q}) = Cardinality(Before(S, q)) + 1
  BY <1>1, <1>2, FS_AddElement
<1>4. Cardinality(Before(S, q) \cup {q}) <= Cardinality(Before(S, r))
  BY <1>1, <1>2, FS_Subset
<1>5. Cardinality(Before(S, q)) \in Nat /\ Cardinality(Before(S, r)) \in Nat
  BY <1>1, FS_CardinalityType
<1> QED  BY <1>3, <1>4, <1>5

LEMMA RankType ==
    ASSUME NEW S \in SUBSET Nat, IsFiniteSet(S), NEW r \in S
    PROVE  /\ Cardinality(Before(S, r)) \in 0..Cardinality(S) - 1
           /\ Cardinality(S) \in Nat
<1>1. IsFiniteSet(S \ {r}) /\ Cardinality(S \ {r}) = Cardinality(S) - 1
  BY FS_RemoveElement
<1>2. Before(S, r) \in SUBSET (S \ {r})
  BY DEF Before
<1>3. /\ IsFiniteSet(Before(S, r))
      /\ Cardinality(Before(S, r)) <= Cardinality(S) - 1
  BY <1>1, <1>2, FS_Subset
<1> QED  BY <1>3, FS_CardinalityType

LEMMA RankOnto ==
    ASSUME NEW S \in SUBSET Nat, IsFiniteSet(S), NEW i \in 0..Cardinality(S) - 1
    PROVE  \E r \in S : Cardinality(Before(S, r)) = i
<1> DEFINE f == [r \in S |-> Cardinality(Before(S, r))]
           T == 0..Cardinality(S) - 1
<1>1. Cardinality(S) \in Nat
  BY FS_CardinalityType
<1>2. IsFiniteSet(T) /\ Cardinality(T) = Cardinality(S)
  BY <1>1, FS_Interval
<1>3. f \in [S -> T]
  BY RankType
<1>4. ASSUME NEW q \in S, NEW r \in S, f[q] = f[r]
      PROVE  q = r
  <2>1. q \in Nat /\ r \in Nat
    OBVIOUS
  <2>2. CASE q < r
    <3>1. f[q] < f[r]
      BY <2>2, RankGrows
    <3> QED  BY <3>1, <1>3, <1>1, <1>4
  <2>3. CASE r < q
    <3>1. f[r] < f[q]
      BY <2>3, RankGrows
    <3> QED  BY <3>1, <1>3, <1>1, <1>4
  <2> QED  BY <2>1, <2>2, <2>3
<1>5. f \in Injection(S, T)
  BY <1>3, <1>4 DEF Injection, IsInjective
<1>6. f \in Surjection(S, T)
  BY <1>2, <1>5, FS_Injection
<1>7. \E r \in S : f[r] = i
  BY <1>6 DEF Surjection
<1> QED  BY <1>7

USE ConnectorAssumption

LEMMA RankIsBefore ==
    \A r : Rank(r) = Cardinality(Before(present, r))
  BY DEF Rank, Before

LEMMA PresentFinite ==
    ASSUME FeedTypeOK
    PROVE  /\ present \in SUBSET Nat
           /\ \A r \in present : r > 0
           /\ IsFiniteSet(present)
           /\ Cardinality(present) \in Nat
<1>1. IsFiniteSet(Records) /\ Records \subseteq Nat \ {0}
  BY DEF ConnectorAssumption
<1>2. present \in SUBSET Records
  BY DEF FeedTypeOK
<1>3. IsFiniteSet(present)
  BY <1>1, <1>2, FS_Subset
<1> QED  BY <1>1, <1>2, <1>3, FS_CardinalityType

\* The listing has every record once, in the order of their places.
LEMMA Listed ==
    ASSUME FeedTypeOK
    PROVE  /\ Listing \in Seq(present)
           /\ Len(Listing) = Cardinality(present)
           /\ \A i \in 1..Cardinality(present) :
                 /\ Listing[i] \in present
                 /\ Rank(Listing[i]) = i - 1
           /\ \A r \in present :
                 /\ Rank(r) \in 0..Cardinality(present) - 1
                 /\ Listing[Rank(r) + 1] = r
<1> DEFINE n == Cardinality(present)
<1>1. /\ present \in SUBSET Nat /\ IsFiniteSet(present) /\ n \in Nat
  BY PresentFinite
<1>2. Listing = [i \in 1..n |-> CHOOSE r \in present : Rank(r) = i - 1]
  BY DEF Listing, Rank
<1>3. ASSUME NEW i \in 1..n
      PROVE  Listing[i] \in present /\ Rank(Listing[i]) = i - 1
  <2>1. i - 1 \in 0..n - 1
    BY <1>1
  <2>2. \E r \in present : Rank(r) = i - 1
    BY <1>1, <2>1, RankOnto, RankIsBefore
  <2>3. Listing[i] = CHOOSE r \in present : Rank(r) = i - 1
    BY <1>2
  <2> QED  BY <2>2, <2>3
<1>4. Listing \in [1..n -> present]
  BY <1>2, <1>3
<1>5. Listing \in Seq(present) /\ Len(Listing) = n
  BY <1>1, <1>4
<1>6. ASSUME NEW r \in present
      PROVE  /\ Rank(r) \in 0..n - 1
             /\ Listing[Rank(r) + 1] = r
  <2> DEFINE s == Listing[Rank(r) + 1]
  <2>1. Rank(r) \in 0..n - 1
    BY <1>1, RankType, RankIsBefore
  <2>2. s \in present /\ Rank(s) = Rank(r)
    BY <1>1, <1>3, <2>1
  <2>3. s < r => Rank(s) < Rank(r)
    BY <1>1, <2>2, RankGrows, RankIsBefore
  <2>4. r < s => Rank(r) < Rank(s)
    BY <1>1, <2>2, RankGrows, RankIsBefore
  <2>5. Rank(r) \in Nat
    BY <1>1, <2>1
  <2> HIDE DEF s
  <2>6. s \in Nat /\ r \in Nat
    BY <1>1, <2>2
  <2> QED  BY <2>1, <2>2, <2>3, <2>4, <2>5, <2>6 DEF s
<1> QED  BY <1>3, <1>5, <1>6

\* A later record has a higher rank, and a higher rank a later record.
LEMMA RanksOrder ==
    ASSUME FeedTypeOK,
           NEW q \in present, NEW r \in present
    PROVE  (q < r) <=> (Rank(q) < Rank(r))
<1>1. present \in SUBSET Nat /\ IsFiniteSet(present)
  BY PresentFinite
<1>2. Rank(q) \in Nat /\ Rank(r) \in Nat /\ q \in Nat /\ r \in Nat
  BY <1>1, Listed, PresentFinite
<1>3. q < r => Rank(q) < Rank(r)
  BY <1>1, RankGrows, RankIsBefore
<1>4. r < q => Rank(r) < Rank(q)
  BY <1>1, RankGrows, RankIsBefore
<1> QED  BY <1>2, <1>3, <1>4

LEMMA RanksDiffer ==
    ASSUME FeedTypeOK,
           NEW q \in present, NEW r \in present, Rank(q) = Rank(r)
    PROVE  q = r
  BY Listed

\* What a page holds that begins behind the first b entries.
LEMMA PageOf ==
    ASSUME FeedTypeOK, NEW b \in Nat
    PROVE  LET p == FirstPage(SubSeq(Listing, b + 1, Len(Listing)))
               n == Cardinality(present)
           IN /\ p \in Seq(present)
              /\ Len(p) = IF b >= n THEN 0
                          ELSE IF n - b < PageSize THEN n - b ELSE PageSize
              /\ \A k \in 1..Len(p) : p[k] = Listing[b + k]
<1> DEFINE n == Cardinality(present)
           t == SubSeq(Listing, b + 1, n)
           m == IF Len(t) < PageSize THEN Len(t) ELSE PageSize
           p == SubSeq(t, 1, m)
<1>1. n \in Nat /\ PageSize \in Nat \ {0}
  BY PresentFinite DEF ConnectorAssumption
<1>2. \A i \in b + 1..n : Listing[i] \in present
  BY <1>1, Listed
<1>3. /\ t \in Seq(present)
      /\ Len(t) = IF b + 1 <= n THEN n - (b + 1) + 1 ELSE 0
      /\ \A i \in 1..n - (b + 1) + 1 : t[i] = Listing[b + 1 + i - 1]
  BY <1>1, <1>2, SubSeqProperties, b + 1 \in Int, n \in Int
<1>a. Len(t) \in Nat
  BY <1>1, <1>3
<1>4. m \in Nat /\ m <= Len(t)
  <2> HIDE DEF t
  <2> QED  BY <1>1, <1>a
<1>b. m = IF b >= n THEN 0 ELSE IF n - b < PageSize THEN n - b ELSE PageSize
  <2>1. Len(t) = IF b >= n THEN 0 ELSE n - b
    BY <1>1, <1>3
  <2> HIDE DEF t, n
  <2> QED  BY <1>1, <2>1
<1> HIDE DEF m
<1> HIDE DEF t
<1>5. \A i \in 1..m : t[i] \in present
  BY <1>3, <1>4, ElementOfSeq
<1>6. /\ p \in Seq(present)
      /\ Len(p) = IF 1 <= m THEN m - 1 + 1 ELSE 0
      /\ \A i \in 1..m - 1 + 1 : p[i] = t[1 + i - 1]
  <2> QED  BY <1>4, <1>5, SubSeqProperties, 1 \in Int, m \in Int
<1>7. Len(p) = m
  <2> HIDE DEF p
  <2> QED  BY <1>4, <1>6
<1>8. \A k \in 1..m : p[k] = Listing[b + k]
  <2> TAKE k \in 1..m
  <2>1. k \in 1..m - 1 + 1 /\ 1 + k - 1 = k
    BY <1>4
  <2>2. p[k] = t[k]
    <3> HIDE DEF p
    <3> QED  BY <1>6, <2>1
  <2>3. k \in 1..n - (b + 1) + 1 /\ b + 1 + k - 1 = b + k
    BY <1>1, <1>b, <1>4
  <2> QED  BY <1>3, <2>2, <2>3
<1>9. p = FirstPage(SubSeq(Listing, b + 1, Len(Listing)))
  BY Listed DEF FirstPage, t, m
<1> HIDE DEF p
<1> QED  BY <1>6, <1>7, <1>8, <1>9, <1>b

\* How many entries of the listing lie before the page asked for.
Begin ==
    IF connector = "cisa_kev" THEN 0
    ELSE IF connector = "github_advisory" THEN Passed ELSE at

LEMMA PassedType ==
    ASSUME FeedTypeOK
    PROVE  /\ Passed = Cardinality({r \in present : r <= cursor})
           /\ Passed \in 0..Cardinality(present)
<1>1. {r \in present : r <= cursor} \in SUBSET present
  OBVIOUS
<1>2. /\ IsFiniteSet({r \in present : r <= cursor})
      /\ Cardinality({r \in present : r <= cursor}) <= Cardinality(present)
  BY <1>1, PresentFinite, FS_Subset
<1>3. Cardinality({r \in present : r <= cursor}) \in Nat
  BY <1>2, FS_CardinalityType
<1> QED  BY <1>2, <1>3, PresentFinite DEF Passed

\* A page is a part of the listing.
LEMMA ItemsAre ==
    ASSUME FeedTypeOK
    PROVE  LET n == Cardinality(present)
               m == Len(Items)
           IN /\ Begin \in Nat
              /\ Items \in Seq(present)
              /\ m = IF Begin >= n THEN 0
                     ELSE IF connector = "cisa_kev" THEN n
                     ELSE IF n - Begin < PageSize THEN n - Begin ELSE PageSize
              /\ m \in Nat
              /\ \A k \in 1..m : /\ Begin + k \in 1..n
                                /\ Items[k] = Listing[Begin + k]
                                /\ Items[k] \in present
                                /\ Rank(Items[k]) = Begin + k - 1
              /\ \A r \in present :
                    Rank(r) \in Begin..Begin + m - 1 =>
                        /\ Rank(r) - Begin + 1 \in 1..m
                        /\ Items[Rank(r) - Begin + 1] = r
<1> DEFINE n == Cardinality(present)
           m == Len(Items)
<1>1. n \in Nat /\ PageSize \in Nat \ {0} /\ Begin \in Nat
  <2>1. n \in Nat /\ PageSize \in Nat \ {0} /\ at \in Nat
    BY PresentFinite DEF ConnectorAssumption, FeedTypeOK
  <2>2. Passed \in Nat
    BY <2>1, PassedType
  <2> QED  BY <2>1, <2>2 DEF Begin
<1>2. /\ Items \in Seq(present)
      /\ m = IF Begin >= n THEN 0
             ELSE IF connector = "cisa_kev" THEN n
             ELSE IF n - Begin < PageSize THEN n - Begin ELSE PageSize
      /\ \A k \in 1..m : Items[k] = Listing[Begin + k]
  <2>1. CASE connector = "cisa_kev"
    <3>1. Items = Listing /\ Begin = 0
      BY <2>1 DEF Items, Begin
    <3>2. \A k \in 1..n : 0 + k = k
      BY <1>1
    <3> QED  BY <1>1, <2>1, <3>1, <3>2, Listed
  <2>2. CASE connector # "cisa_kev"
    <3>1. Items =
             FirstPage(SubSeq(Listing, Begin + 1, Len(Listing)))
      BY <2>2 DEF Items, Begin
    <3> QED  BY <1>1, <2>2, <3>1, PageOf
  <2> QED  BY <2>1, <2>2
<1>3. m \in Nat /\ Begin + m <= (IF Begin >= n THEN Begin ELSE n)
  <2> HIDE DEF m, n
  <2> QED  BY <1>1, <1>2 DEF Begin
<1>4. ASSUME NEW k \in 1..m
      PROVE  /\ Begin + k \in 1..n
             /\ Items[k] = Listing[Begin + k]
             /\ Items[k] \in present
             /\ Rank(Items[k]) = Begin + k - 1
  <2>1. Begin + k \in 1..n
    <3> HIDE DEF m, n
    <3> QED  BY <1>1, <1>2, <1>3
  <2> DEFINE j == Begin + k
  <2>2. Items[k] = Listing[j]
    BY <1>2
  <2> HIDE DEF j
  <2>3. j \in 1..n
    BY <2>1 DEF j
  <2>4. Listing[j] \in present /\ Rank(Listing[j]) = j - 1
    BY <2>3, Listed
  <2>5. Items[k] \in present /\ Rank(Items[k]) = j - 1
    BY <2>2, <2>4
  <2>6. Items[k] = Listing[Begin + k]
    BY <1>2
  <2>7. Rank(Items[k]) = Begin + k - 1
    BY <1>1, <2>5 DEF j
  <2>8. Items[k] \in present
    BY <2>5
  <2> HIDE DEF m, n
  <2> QED  BY <2>1, <2>6, <2>7, <2>8
<1>5. ASSUME NEW r \in present, Rank(r) \in Begin..Begin + m - 1
      PROVE  /\ Rank(r) - Begin + 1 \in 1..m
             /\ Items[Rank(r) - Begin + 1] = r
  <2> DEFINE k == Rank(r) - Begin + 1
  <2>1. k \in 1..m /\ Begin + k = Rank(r) + 1
    <3> HIDE DEF m
    <3> QED  BY <1>1, <1>3, <1>5
  <2>2. Items[k] = Listing[Begin + k]
    <3> HIDE DEF k
    <3> QED  BY <1>2, <2>1
  <2> QED  BY <2>1, <2>2, Listed
<1> QED  BY <1>1, <1>2, <1>3, <1>4, <1>5

LEMMA ReceivedType ==
    ASSUME FeedTypeOK
    PROVE  /\ Len(received) \in Nat
           /\ DOMAIN received = 1..Len(received)
           /\ \A i \in 1..Len(received) : received[i] \in Records
           /\ \A r : r \in Range(received) <=>
                     \E i \in 1..Len(received) : received[i] = r
<1>1. /\ Len(received) \in Nat
      /\ DOMAIN received = 1..Len(received)
      /\ \A i \in 1..Len(received) : received[i] \in Records
  BY LenProperties DEF FeedTypeOK
<1> QED  BY <1>1 DEF Range

\* A page arrives, and the fetch goes on, ends or raises.
Receives(total) == Arrive /\ (ReceivePage(total) \/ BadTotal)

\* The entries of a page are appended.
LEMMA Appended ==
    ASSUME FeedTypeOK,
           NEW total, Receives(total)
    PROVE  LET m == Len(Items)
               l == Len(received)
           IN /\ received' \in Seq(Records)
              /\ Len(received') = l + m
              /\ DOMAIN received' = 1..l + m
              /\ \A i \in 1..l : received'[i] = received[i]
              /\ \A k \in 1..m : /\ l + k \in l + 1..l + m
                                /\ received'[l + k] = Items[k]
              /\ \A i \in l + 1..l + m : /\ i - l \in 1..m
                                        /\ received'[i] = Items[i - l]
              /\ \A r : r \in Range(received)' <=>
                    \/ r \in Range(received)
                    \/ \E k \in 1..m : Items[k] = r
<1> DEFINE m == Len(Items)
           l == Len(received)
<1>1. received' = received \o Items
  BY DEF Receives, Arrive
<1>2. received \in Seq(Records) /\ Items \in Seq(Records)
  BY ItemsAre, SeqMonotonic DEF FeedTypeOK
<1>3. l \in Nat /\ m \in Nat
  BY <1>2
<1>4. /\ received' \in Seq(Records)
      /\ Len(received') = l + m
      /\ \A i \in 1..l + m :
            received'[i] = IF i <= l THEN received[i] ELSE Items[i - l]
  BY <1>1, <1>2, ConcatProperties
<1>5. DOMAIN received' = 1..l + m
  BY <1>4, LenProperties
<1> HIDE DEF m, l
<1>6. \A i \in 1..l : received'[i] = received[i]
  BY <1>3, <1>4
<1>7. \A k \in 1..m : l + k \in l + 1..l + m /\ received'[l + k] = Items[k]
  <2> TAKE k \in 1..m
  <2>1. l + k \in 1..l + m /\ ~ (l + k <= l) /\ l + k - l = k
    BY <1>3
  <2> QED  BY <1>3, <1>4, <2>1
<1>8. \A i \in l + 1..l + m : i - l \in 1..m /\ received'[i] = Items[i - l]
  <2> TAKE i \in l + 1..l + m
  <2>1. i \in 1..l + m /\ ~ (i <= l) /\ i - l \in 1..m
    BY <1>3
  <2> QED  BY <1>4, <2>1
<1>9. \A r : r \in Range(received) <=> \E i \in 1..l : received[i] = r
  BY ReceivedType DEF l
<1>10. \A r : r \in Range(received)' <=>
               \E i \in 1..l + m : received'[i] = r
  BY <1>5 DEF Range
<1>11. \A i \in 1..l + m : i \in 1..l \/ i \in l + 1..l + m
  BY <1>3
<1>12. \A i : i \in 1..l \/ i \in l + 1..l + m => i \in 1..l + m
  BY <1>3
<1>13. ASSUME NEW r
       PROVE  r \in Range(received)' <=>
                 \/ r \in Range(received)
                 \/ \E k \in 1..m : Items[k] = r
  <2>1. ASSUME r \in Range(received)'
        PROVE  r \in Range(received) \/ \E k \in 1..m : Items[k] = r
    BY <1>6, <1>8, <1>9, <1>10, <1>11, <2>1
  <2>2. ASSUME r \in Range(received)
        PROVE  r \in Range(received)'
    BY <1>6, <1>9, <1>10, <1>12, <2>2
  <2>3. ASSUME NEW k \in 1..m, Items[k] = r
        PROVE  r \in Range(received)'
    BY <1>7, <1>10, <1>12, <2>3
  <2> QED  BY <2>1, <2>2, <2>3
<1> QED  BY <1>4, <1>5, <1>6, <1>7, <1>8, <1>13 DEF m, l

-----------------------------------------------------------------------------
\* What the steps that receive nothing have in common.
Pauses ==
    /\ UNCHANGED <<connector, since, present, at, cursor, pages, received,
                   steady, removed, inserted>>
    /\ attempt' \in Nat
    /\ pc' \in {"request", "backoff", "ended"}
    /\ \/ UNCHANGED <<pc, ended, status>>
       \/ pc # "ended" /\ pc' # "ended" /\ UNCHANGED <<ended, status>>
       \/ /\ pc # "ended" /\ pc' = "ended"
          /\ ended' \in {"error", "exception"}
          /\ status' \in {status, "failed"}

LEMMA FeedSteps ==
    ASSUME FeedTypeOK, [FeedNext]_(feedVars)
    PROVE  \/ Pauses
           \/ \E total : Receives(total)
           \/ \E r \in Records : Publish(r) \/ Withdraw(r)
<1> USE DEF Pauses
<1>a. pc \in {"request", "backoff", "ended"} /\ attempt \in Nat
  BY DEF FeedTypeOK
<1>1. CASE UNCHANGED feedVars
  BY <1>a, <1>1 DEF feedVars, progress
<1>2. CASE Unavailable
  <2>1. /\ UNCHANGED <<connector, since, present, at, cursor, pages, received,
                       steady, removed, inserted>>
        /\ UNCHANGED <<ended, status>>
        /\ pc = "request" /\ pc' = "backoff" /\ attempt' = attempt + 1
    BY <1>2 DEF Unavailable, Attempts
  <2>2. attempt' \in Nat
    BY <1>a, <2>1
  <2> QED  BY <2>1, <2>2
<1>3. CASE WakeUp
  BY <1>a, <1>3 DEF WakeUp, progress
<1>4. CASE GiveUp
  BY <1>a, <1>4 DEF GiveUp, Fail, progress
<1>5. CASE Rejected
  BY <1>a, <1>5 DEF Rejected, Fail, progress
<1>6. CASE Unparsable
  BY <1>a, <1>6 DEF Unparsable, progress
<1>7. CASE BadTotal
  BY <1>7 DEF Receives, BadTotal
<1>8. ASSUME NEW total, ReceivePage(total)
      PROVE  Receives(total)
  BY <1>8 DEF Receives, ReceivePage
<1> QED
  BY <1>1, <1>2, <1>3, <1>4, <1>5, <1>6, <1>7, <1>8 DEF FeedNext, Fetch

LEMMA FeedTypeStep ==
    ASSUME FeedTypeOK, [FeedNext]_(feedVars)
    PROVE  FeedTypeOK'
<1>1. CASE Pauses
  BY <1>1 DEF FeedTypeOK, Connectors, Pauses
<1>2. ASSUME NEW total, Receives(total)
      PROVE  FeedTypeOK'
  <2>1. received' \in Seq(Records)
    BY <1>2, Appended
  <2>2. Len(Items) \in Nat
    BY ItemsAre
  <2>3. at' \in Nat /\ pages' \in Nat /\ attempt' \in Nat
    <3>1. /\ at' = at + Len(Items)
          /\ pages' = pages + 1 /\ attempt' = 0
      BY <1>2 DEF Receives, Arrive, Received
    <3>2. at \in Nat /\ pages \in Nat
      BY DEF FeedTypeOK
    <3> QED  BY <2>2, <3>1, <3>2
  <2>4. cursor' \in Nat
    <3>1. CASE Items = <<>>
      BY <1>2, <3>1 DEF Receives, Arrive, FeedTypeOK
    <3>2. CASE Items # <<>>
      <4>1. Len(Items) \in 1..Len(Items)
        BY <3>2, ItemsAre, EmptySeq
      <4>2. Items[Len(Items)] \in present
        BY <4>1, ItemsAre
      <4>3. cursor' = Items[Len(Items)]
        BY <1>2, <3>2 DEF Receives, Arrive, Last
      <4> QED  BY <4>2, <4>3, PresentFinite
    <3> QED  BY <3>1, <3>2
  <2>5. ended' \in {"", "end", "no_total", "max_pages", "exception"}
    BY <1>2 DEF Receives, Arrive, ReceivePage, BadTotal, EndOf
  <2>6. /\ pc' \in {"request", "backoff", "ended"}
        /\ status' \in {"running", "completed", "failed"}
    BY <1>2 DEF Receives, Arrive, ReceivePage, BadTotal, FeedTypeOK
  <2>7. UNCHANGED <<connector, since, present, steady, removed, inserted>>
    BY <1>2 DEF Receives, Arrive
  <2> QED
    BY <2>1, <2>3, <2>4, <2>5, <2>6, <2>7 DEF FeedTypeOK, Connectors
<1>3. ASSUME NEW r \in Records, Publish(r)
      PROVE  FeedTypeOK'
  <2>1. inserted' = inserted + 1
    BY <1>3 DEF Publish
  <2>2. inserted' \in Nat
    <3>1. inserted \in Nat
      BY DEF FeedTypeOK
    <3> QED  BY <2>1, <3>1
  <2> QED
    BY <1>3, <2>2 DEF FeedTypeOK, Publish, progress, Connectors
<1>4. ASSUME NEW r \in Records, Withdraw(r)
      PROVE  FeedTypeOK'
  <2>1. removed' = removed + 1
    BY <1>4 DEF Withdraw
  <2>2. removed' \in Nat
    <3>1. removed \in Nat
      BY DEF FeedTypeOK
    <3> QED  BY <2>1, <3>1
  <2> QED
    BY <1>4, <2>2 DEF FeedTypeOK, Withdraw, progress, Connectors
<1> QED  BY <1>1, <1>2, <1>3, <1>4, FeedSteps

\* Len(Items) entries more, of which the last is where the cursor is.
LEMMA Arrives ==
    ASSUME FeedTypeOK,
           NEW total, Receives(total)
    PROVE  /\ at' = at + Len(Items)
           /\ Items = <<>> => cursor' = cursor /\ received' = received
           /\ Items # <<>> => /\ Len(Items) \in Nat \ {0}
                                  /\ cursor' = Items[Len(Items)]
<1>1. Items \in Seq(present)
  BY ItemsAre
<1> QED
  BY <1>1, EmptySeq, ConcatEmptySeq
  DEF Receives, Arrive, Received, Last, FeedTypeOK

LEMMA PlaceStep ==
    ASSUME FeedTypeOK, PlaceInv,
           [FeedNext]_(feedVars)
    PROVE  PlaceInv'
<1>1. CASE Pauses
  BY <1>1 DEF PlaceInv, Pauses, Last
<1>2. ASSUME NEW total, Receives(total)
      PROVE  PlaceInv'
  <2> DEFINE m == Len(Items)
  <2>1. at' = Len(received')
    BY <1>2, Arrives, Appended DEF PlaceInv
  <2>2. cursor' = IF received' = <<>> THEN 0 ELSE Last(received')
    <3>1. CASE Items = <<>>
      BY <1>2, <3>1, Arrives DEF PlaceInv, Last
    <3>2. CASE Items # <<>>
      <4>1. m \in Nat \ {0} /\ cursor' = Items[m]
        BY <1>2, <3>2, Arrives
      <4>2. /\ Len(received') = Len(received) + m
            /\ received'[Len(received) + m] = Items[m]
        <5>1. m \in 1..m
          BY <4>1
        <5> QED  BY <1>2, <5>1, Appended
      <4>3. received' # <<>>
        <5>1. Len(received) + m # 0
          BY <4>1, ReceivedType
        <5> QED  BY <4>2, <5>1
      <4> QED  BY <4>1, <4>2, <4>3 DEF Last
    <3> QED  BY <3>1, <3>2
  <2>3. pc' # "ended" => /\ pages' < MaxPages /\ ended' = ""
                        /\ status' = "running" /\ connector # "cisa_kev"
    <3>1. SUFFICES ASSUME pc' # "ended"
                   PROVE  /\ pages' < MaxPages /\ ended' = ""
                          /\ status' = "running" /\ connector # "cisa_kev"
      OBVIOUS
    <3>2. ended' = "" /\ status' = status /\ pages' = pages + 1
      BY <1>2, <3>1 DEF Receives, Arrive, ReceivePage, BadTotal
    <3>3. EndOf(Items, total) = ""
      BY <1>2, <3>2 DEF Receives, Arrive, ReceivePage, BadTotal
    <3>4. connector # "cisa_kev" /\ pages + 1 # MaxPages
      BY <3>3 DEF EndOf
    <3>5. pages < MaxPages /\ status = "running"
      BY <1>2 DEF PlaceInv, Receives, Arrive, ReceivePage, BadTotal
    <3>6. pages \in Nat /\ MaxPages \in Nat
      BY DEF FeedTypeOK, ConnectorAssumption
    <3>7. pages + 1 < MaxPages
      BY <3>4, <3>5, <3>6
    <3> QED  BY <3>2, <3>4, <3>5, <3>7
  <2>4. connector' = connector
    BY <1>2 DEF Receives, Arrive
  <2> QED  BY <2>1, <2>2, <2>3, <2>4 DEF PlaceInv, Last
<1>3. ASSUME NEW r \in Records, Publish(r) \/ Withdraw(r)
      PROVE  PlaceInv'
  BY <1>3 DEF PlaceInv, Publish, Withdraw, progress,
              Last
<1> QED  BY <1>1, <1>2, <1>3, FeedSteps

-----------------------------------------------------------------------------
LEMMA Sizes ==
    ASSUME NEW S, IsFiniteSet(S), NEW A \in SUBSET S, NEW B \in SUBSET S
    PROVE  /\ Cardinality(A) \in Nat /\ Cardinality(B) \in Nat
           /\ IsFiniteSet(A) /\ IsFiniteSet(B)
           /\ A \subseteq B => Cardinality(A) <= Cardinality(B)
<1>1. IsFiniteSet(A) /\ IsFiniteSet(B)
  BY FS_Subset
<1> QED  BY <1>1, FS_Subset, FS_CardinalityType

LEMMA OneMore ==
    ASSUME NEW A, NEW B, IsFiniteSet(A), IsFiniteSet(B),
           \A x, y \in B : x \notin A /\ y \notin A => x = y
    PROVE  Cardinality(B) <= Cardinality(A) + 1
<1>1. Cardinality(A) \in Nat /\ Cardinality(B) \in Nat
  BY FS_CardinalityType
<1>2. CASE B \in SUBSET A
  BY <1>1, <1>2, FS_Subset
<1>3. CASE B \notin SUBSET A
  <2>1. PICK x \in B : x \notin A
    BY <1>3
  <2>2. B \in SUBSET (A \cup {x})
    BY <2>1
  <2>3. /\ IsFiniteSet(A \cup {x})
        /\ Cardinality(A \cup {x}) = Cardinality(A) + 1
    BY <2>1, FS_AddElement
  <2> QED  BY <2>2, <2>3, FS_Subset
<1> QED  BY <1>2, <1>3

LEMMA BeforeWithout ==
    ASSUME NEW S \in SUBSET Nat, IsFiniteSet(S), NEW q \in S, NEW r \in S
    PROVE  Cardinality(Before(S \ {q}, r)) =
              IF q < r THEN Cardinality(Before(S, r)) - 1
              ELSE Cardinality(Before(S, r))
<1>1. Before(S \ {q}, r) = Before(S, r) \ {q}
  BY DEF Before
<1>2. q \in Before(S, r) <=> q < r
  BY DEF Before
<1>3. IsFiniteSet(Before(S, r))
  BY FS_Subset DEF Before
<1>4. Cardinality(Before(S, r) \ {q}) =
         IF q \in Before(S, r) THEN Cardinality(Before(S, r)) - 1
         ELSE Cardinality(Before(S, r))
  BY <1>3, FS_RemoveElement
<1> QED  BY <1>1, <1>2, <1>4

LEMMA BeforeWith ==
    ASSUME NEW S \in SUBSET Nat, IsFiniteSet(S), NEW q \in Nat, q \notin S,
           NEW r
    PROVE  Cardinality(Before(S \cup {q}, r)) =
              IF q < r THEN Cardinality(Before(S, r)) + 1
              ELSE Cardinality(Before(S, r))
<1>1. Before(S \cup {q}, r) = IF q < r THEN Before(S, r) \cup {q}
                                       ELSE Before(S, r)
  BY DEF Before
<1>2. q \notin Before(S, r)
  BY DEF Before
<1>3. IsFiniteSet(Before(S, r))
  BY FS_Subset DEF Before
<1>4. Cardinality(Before(S, r) \cup {q}) = Cardinality(Before(S, r)) + 1
  BY <1>2, <1>3, FS_AddElement
<1> QED  BY <1>1, <1>4

\* Different records have different ranks.
LEMMA SameRank ==
    ASSUME NEW S \in SUBSET Nat, IsFiniteSet(S), NEW q \in S, NEW r \in S,
           Cardinality(Before(S, q)) = Cardinality(Before(S, r))
    PROVE  q = r
<1>1. q \in Nat /\ r \in Nat
  OBVIOUS
<1>2. Cardinality(Before(S, q)) \in Nat
  BY RankType
<1>3. ~ (q < r) /\ ~ (r < q)
  BY <1>2, RankGrows
<1> QED  BY <1>1, <1>3

SkippedOf(S, T, a, R) == {r \in T : Cardinality(Before(S, r)) < a} \ R
AheadOf(S, a, R) == {r \in S \cap R : Cardinality(Before(S, r)) >= a}

LEMMA WithdrawSkips ==
    ASSUME NEW S \in SUBSET Nat, IsFiniteSet(S), NEW T \in SUBSET S,
           NEW q \in S, NEW a \in Nat, NEW R
    PROVE  Cardinality(SkippedOf(S \ {q}, T \ {q}, a, R))
              <= Cardinality(SkippedOf(S, T, a, R)) + 1
<1> DEFINE A == SkippedOf(S, T, a, R)
           B == SkippedOf(S \ {q}, T \ {q}, a, R)
<1>1. IsFiniteSet(A) /\ IsFiniteSet(B)
  <2>1. A \in SUBSET S /\ B \in SUBSET S
    BY DEF SkippedOf
  <2> QED  BY <2>1, Sizes
<1>2. ASSUME NEW x \in B, x \notin A
      PROVE  Cardinality(Before(S, x)) = a
  <2>1. x \in S /\ Cardinality(Before(S \ {q}, x)) < a
    BY DEF SkippedOf
  <2>2. ~ (Cardinality(Before(S, x)) < a)
    BY <1>2 DEF SkippedOf
  <2>3. Cardinality(Before(S, x)) \in Nat
    BY <2>1, RankType
  <2>4. \/ Cardinality(Before(S \ {q}, x)) = Cardinality(Before(S, x)) - 1
        \/ Cardinality(Before(S \ {q}, x)) = Cardinality(Before(S, x))
    BY <2>1, BeforeWithout
  <2> QED  BY <2>1, <2>2, <2>3, <2>4
<1>3. \A x \in B : x \in S
  BY DEF SkippedOf
<1> HIDE DEF A, B
<1>4. ASSUME NEW x \in B, NEW y \in B, x \notin A, y \notin A
      PROVE  x = y
  <2>1. x \in S /\ y \in S
    BY <1>3
  <2>2. Cardinality(Before(S, x)) = a /\ Cardinality(Before(S, y)) = a
    BY <1>2, <1>4
  <2>3. Cardinality(Before(S, x)) = Cardinality(Before(S, y))
    BY <2>2
  <2> QED  BY <2>1, <2>3, SameRank
<1>5. Cardinality(B) <= Cardinality(A) + 1
  BY <1>1, <1>4, OneMore
<1> QED  BY <1>5 DEF A, B

LEMMA WithdrawAhead ==
    ASSUME NEW S \in SUBSET Nat, IsFiniteSet(S),
           NEW q \in S, NEW a \in Nat, NEW R
    PROVE  Cardinality(AheadOf(S \ {q}, a, R)) <= Cardinality(AheadOf(S, a, R))
<1>1. ASSUME NEW x \in AheadOf(S \ {q}, a, R)
      PROVE  x \in AheadOf(S, a, R)
  <2>1. x \in S /\ x \in R /\ Cardinality(Before(S \ {q}, x)) >= a
    BY DEF AheadOf
  <2>2. \/ Cardinality(Before(S \ {q}, x)) = Cardinality(Before(S, x)) - 1
        \/ Cardinality(Before(S \ {q}, x)) = Cardinality(Before(S, x))
    BY <2>1, BeforeWithout
  <2>3. Cardinality(Before(S, x)) \in Nat
    BY <2>1, RankType
  <2>4. Cardinality(Before(S, x)) >= a
    BY <2>1, <2>2, <2>3
  <2> QED  BY <2>1, <2>4 DEF AheadOf
<1>2. /\ AheadOf(S \ {q}, a, R) \in SUBSET S
      /\ AheadOf(S, a, R) \in SUBSET S
  BY DEF AheadOf
<1>3. AheadOf(S \ {q}, a, R) \subseteq AheadOf(S, a, R)
  BY <1>1
<1> QED  BY <1>2, <1>3, Sizes

LEMMA PublishSkips ==
    ASSUME NEW S \in SUBSET Nat, IsFiniteSet(S), NEW T \in SUBSET S,
           NEW q \in Nat, q \notin S, NEW a \in Nat, NEW R
    PROVE  Cardinality(SkippedOf(S \cup {q}, T, a, R))
              <= Cardinality(SkippedOf(S, T, a, R))
<1>1. ASSUME NEW x \in SkippedOf(S \cup {q}, T, a, R)
      PROVE  x \in SkippedOf(S, T, a, R)
  <2>1. x \in T /\ x \notin R /\ Cardinality(Before(S \cup {q}, x)) < a
    BY DEF SkippedOf
  <2>2. \/ Cardinality(Before(S \cup {q}, x)) = Cardinality(Before(S, x)) + 1
        \/ Cardinality(Before(S \cup {q}, x)) = Cardinality(Before(S, x))
    BY BeforeWith
  <2>3. Cardinality(Before(S, x)) \in Nat
    BY <2>1, RankType
  <2>4. Cardinality(Before(S, x)) < a
    BY <2>1, <2>2, <2>3
  <2> QED  BY <2>1, <2>4 DEF SkippedOf
<1>2. /\ SkippedOf(S \cup {q}, T, a, R) \in SUBSET S
      /\ SkippedOf(S, T, a, R) \in SUBSET S
  BY DEF SkippedOf
<1>3. SkippedOf(S \cup {q}, T, a, R) \subseteq SkippedOf(S, T, a, R)
  BY <1>1
<1> QED  BY <1>2, <1>3, Sizes

LEMMA PublishAhead ==
    ASSUME NEW S \in SUBSET Nat, IsFiniteSet(S),
           NEW q \in Nat, q \notin S, NEW a \in Nat, NEW R
    PROVE  Cardinality(AheadOf(S \cup {q}, a, R))
              <= Cardinality(AheadOf(S, a, R)) + 1
<1> DEFINE U == S \cup {q}
           A == AheadOf(S, a, R)
           B == AheadOf(U, a, R)
<1>1. IsFiniteSet(U) /\ U \in SUBSET Nat /\ S \in SUBSET U
  BY FS_AddElement
<1>2. IsFiniteSet(A) /\ IsFiniteSet(B)
  <2>1. A \in SUBSET U /\ B \in SUBSET U
    BY DEF AheadOf
  <2> QED  BY <1>1, <2>1, Sizes
<1>3. ASSUME NEW x \in B, x \notin A, x # q
      PROVE  q < x /\ Cardinality(Before(U, x)) = a
  <2>1. x \in S /\ x \in R /\ Cardinality(Before(U, x)) >= a
    BY <1>3 DEF AheadOf
  <2>2. ~ (Cardinality(Before(S, x)) >= a)
    BY <1>3, <2>1 DEF AheadOf
  <2>3. Cardinality(Before(S, x)) \in Nat
    BY <2>1, RankType
  <2>4. Cardinality(Before(U, x)) = IF q < x THEN Cardinality(Before(S, x)) + 1
                                    ELSE Cardinality(Before(S, x))
    BY BeforeWith
  <2> QED  BY <2>1, <2>2, <2>3, <2>4
<1>4. \A x \in B : x \in U /\ Cardinality(Before(U, x)) >= a
  BY DEF AheadOf
<1>5. ASSUME NEW x \in B, NEW y \in B, x \notin A, y \notin A
      PROVE  x = y
  <2>1. ASSUME NEW u \in B, u \notin A, u # q, q \in B
        PROVE  FALSE
    <3>1. q < u /\ Cardinality(Before(U, u)) = a
      BY <1>3, <2>1
    <3>2. Cardinality(Before(U, q)) < Cardinality(Before(U, u))
      BY <1>1, <1>4, <2>1, <3>1, RankGrows
    <3>3. Cardinality(Before(U, q)) >= a
      BY <1>4, <2>1
    <3>4. Cardinality(Before(U, q)) \in Nat
      BY <1>1, RankType
    <3> QED  BY <3>1, <3>2, <3>3, <3>4
  <2>2. CASE x # q /\ y # q
    <3>1. x \in U /\ y \in U
      BY <1>4, <1>5
    <3>2. Cardinality(Before(U, x)) = a /\ Cardinality(Before(U, y)) = a
      BY <1>3, <1>5, <2>2
    <3>3. Cardinality(Before(U, x)) = Cardinality(Before(U, y))
      BY <3>2
    <3> HIDE DEF U
    <3> QED  BY <1>1, <3>1, <3>3, SameRank
  <2> QED  BY <1>5, <2>1, <2>2
<1> HIDE DEF A, B
<1>6. Cardinality(B) <= Cardinality(A) + 1
  BY <1>2, <1>5, OneMore
<1> QED  BY <1>6 DEF A, B, U

LEMMA AsSets ==
    /\ Skipped = SkippedOf(present, steady, at, Range(received))
    /\ Ahead = AheadOf(present, at, Range(received))
    /\ Skipped' = SkippedOf(present', steady', at', Range(received)')
    /\ Ahead' = AheadOf(present', at', Range(received)')
  BY DEF Skipped, Ahead, Rank, SkippedOf, AheadOf, Before

LEMMA OffsetSetsFinite ==
    ASSUME FeedTypeOK
    PROVE  /\ IsFiniteSet(Skipped) /\ Cardinality(Skipped) \in Nat
           /\ IsFiniteSet(Ahead) /\ Cardinality(Ahead) \in Nat
           /\ IsFiniteSet(Repeats) /\ Cardinality(Repeats) \in Nat
<1>1. Skipped \in SUBSET present /\ Ahead \in SUBSET present
  BY DEF Skipped, Ahead, FeedTypeOK
<1>2. Repeats \in SUBSET (1..Len(received)) /\ IsFiniteSet(1..Len(received))
  <2>1. Len(received) \in Nat /\ DOMAIN received = 1..Len(received)
    BY ReceivedType
  <2>2. IsFiniteSet(1..Len(received))
    BY <2>1, FS_Interval, 1 \in Int, Len(received) \in Int
  <2> QED  BY <2>1, <2>2 DEF Repeats
<1>3. IsFiniteSet(present)
  BY PresentFinite
<1> QED  BY <1>1, <1>2, <1>3, Sizes

\* A page takes entries that come again from ahead of the offset.
LEMMA OffsetPage ==
    ASSUME FeedTypeOK, connector \in ByOffset,
           NEW total, Receives(total)
    PROVE  /\ Skipped' \subseteq Skipped
           /\ Cardinality(Repeats') + Cardinality(Ahead')
                 <= Cardinality(Repeats) + Cardinality(Ahead)
<1> DEFINE m == Len(Items)
           l == Len(received)
           n == Cardinality(present)
           R == Range(received)
           Q == Range(received)'
           Moved == {r \in Ahead : Rank(r) < at + m}
           New == {i \in l + 1..l + m : received'[i] \in R}
<1>1. Begin = at
  BY DEF Begin, ByOffset
<1>2. l \in Nat /\ m \in Nat /\ at \in Nat /\ n \in Nat
  BY ReceivedType, ItemsAre, PresentFinite DEF FeedTypeOK
<1>3. /\ at' = at + m
      /\ present' = present /\ steady' = steady /\ steady \in SUBSET present
  BY Arrives DEF Receives, Arrive, FeedTypeOK
<1>4. \A r \in present : Rank(r) \in Nat
  BY <1>2, Listed
<1>5. \A k \in 1..m : /\ Items[k] \in present
                     /\ Rank(Items[k]) = at + k - 1
  BY <1>1, ItemsAre
<1>6. \A r \in present : Rank(r) \in at..at + m - 1 =>
                            \E k \in 1..m : Items[k] = r
  BY <1>1, ItemsAre
<1>7. \A r : r \in Q <=> r \in R \/ \E k \in 1..m : Items[k] = r
  BY Appended
<1>8. /\ Skipped = {r \in steady : Rank(r) < at} \ R
      /\ Skipped' = {r \in steady : Rank(r) < at + m} \ Q
      /\ Ahead = {r \in present \cap R : Rank(r) >= at}
      /\ Ahead' = {r \in present \cap Q : Rank(r) >= at + m}
  BY <1>3, AsSets, RankIsBefore DEF SkippedOf, AheadOf
<1> HIDE DEF m, l, n, R, Q
<1>9. Skipped' \subseteq Skipped
  <2>1. ASSUME NEW r \in Skipped'
        PROVE  r \in Skipped
    <3>1. r \in steady /\ r \in present /\ Rank(r) < at + m /\ r \notin Q
      BY <1>3, <1>8
    <3>2. Rank(r) \notin at..at + m - 1
      BY <1>6, <1>7, <3>1
    <3>3. Rank(r) < at
      BY <1>2, <1>4, <3>1, <3>2
    <3>4. r \notin R
      BY <1>7, <3>1
    <3> QED  BY <1>8, <3>1, <3>3, <3>4
  <2> QED  BY <2>1
<1>10. Ahead' \in SUBSET (Ahead \ Moved)
  <2>1. ASSUME NEW r \in Ahead'
        PROVE  r \in Ahead /\ r \notin Moved
    <3>1. r \in present /\ r \in Q /\ Rank(r) >= at + m
      BY <1>8
    <3>2. ASSUME NEW k \in 1..m, Items[k] = r
          PROVE  FALSE
      <4>1. Rank(r) = at + k - 1
        BY <1>5, <3>2
      <4> QED  BY <1>2, <3>1, <4>1
    <3>3. r \in R
      BY <1>7, <3>1, <3>2
    <3>4. Rank(r) >= at /\ ~ (Rank(r) < at + m)
      BY <1>2, <1>4, <3>1
    <3> QED  BY <1>8, <3>1, <3>3, <3>4
  <2> QED  BY <2>1
<1>11. \A i \in New : /\ received'[i] \in Moved
                     /\ Rank(received'[i]) = at + (i - l) - 1
  <2> TAKE i \in New
  <2>1. i \in l + 1..l + m /\ received'[i] \in R
    OBVIOUS
  <2>2. i - l \in 1..m /\ received'[i] = Items[i - l]
    BY <2>1, Appended DEF l, m
  <2>3. /\ received'[i] \in present
        /\ Rank(received'[i]) = at + (i - l) - 1
    BY <1>5, <2>2
  <2>4. at + (i - l) - 1 >= at /\ at + (i - l) - 1 < at + m
    BY <1>2, <2>1, <2>2
  <2> QED  BY <1>8, <2>1, <2>3, <2>4
<1>12. Repeats' \in SUBSET (Repeats \cup New)
  <2>1. ASSUME NEW i \in Repeats', i \notin Repeats
        PROVE  i \in New
    <3>1. /\ i \in 1..l + m
          /\ \E j \in 1..i - 1 : received'[j] = received'[i]
      <4>1. DOMAIN received' = 1..l + m
        BY Appended DEF l, m
      <4> QED  BY <2>1, <4>1 DEF Repeats
    <3>2. PICK j \in 1..i - 1 : received'[j] = received'[i]
      BY <3>1
    <3>3. CASE i <= l
      <4>1. i \in 1..l /\ j \in 1..l
        BY <1>2, <3>1, <3>3
      <4>2. received[j] = received[i]
        BY <3>2, <4>1, Appended DEF l, m
      <4>3. DOMAIN received = 1..l
        BY ReceivedType DEF l
      <4> QED  BY <2>1, <4>1, <4>2, <4>3 DEF Repeats
    <3>4. CASE ~ (i <= l)
      <4>1. i \in l + 1..l + m
        BY <1>2, <3>1, <3>4
      <4>2. CASE j <= l
        <5>1. j \in 1..l
          BY <1>2, <3>1, <4>2
        <5>2. received'[i] = received[j]
          BY <3>2, <5>1, Appended DEF l, m
        <5>3. received[j] \in R
          BY <5>1, ReceivedType DEF l, R
        <5> QED  BY <4>1, <5>2, <5>3
      <4>3. CASE ~ (j <= l)
        <5>1. j \in l + 1..l + m
          BY <1>2, <3>1, <4>1, <4>3
        <5>2. /\ i - l \in 1..m /\ received'[i] = Items[i - l]
              /\ j - l \in 1..m /\ received'[j] = Items[j - l]
          BY <4>1, <5>1, Appended DEF l, m
        <5>3. /\ Rank(received'[i]) = at + (i - l) - 1
              /\ Rank(received'[j]) = at + (j - l) - 1
          BY <1>5, <5>2
        <5>4. Rank(received'[i]) = Rank(received'[j])
          BY <3>2
        <5>5. at + (i - l) - 1 = at + (j - l) - 1
          BY <5>3, <5>4
        <5> QED  BY <1>2, <3>1, <4>1, <5>1, <5>5
      <4> QED  BY <4>2, <4>3
    <3> QED  BY <3>3, <3>4
  <2> QED  BY <2>1
<1>13. /\ IsFiniteSet(Ahead) /\ IsFiniteSet(Repeats)
       /\ Cardinality(Ahead) \in Nat /\ Cardinality(Repeats) \in Nat
  BY OffsetSetsFinite
<1>14. /\ IsFiniteSet(New) /\ Cardinality(New) \in Nat
       /\ Cardinality(New) <= Cardinality(Moved)
       /\ IsFiniteSet(Moved) /\ Cardinality(Moved) \in Nat
  <2>1. Moved \in SUBSET Ahead
    OBVIOUS
  <2>2. IsFiniteSet(Moved)
    BY <1>13, <2>1, FS_Subset
  <2> DEFINE f == [i \in New |-> received'[i]]
  <2>3. f \in [New -> Moved]
    BY <1>11
  <2>4. ASSUME NEW i \in New, NEW j \in New, f[i] = f[j]
        PROVE  i = j
    <3>1. received'[i] = received'[j]
      BY <2>4
    <3>2. at + (i - l) - 1 = at + (j - l) - 1
      BY <1>11, <3>1
    <3>3. i \in l + 1..l + m /\ j \in l + 1..l + m
      OBVIOUS
    <3> HIDE DEF New, f
    <3> QED  BY <1>2, <3>2, <3>3
  <2>5. f \in Injection(New, Moved)
    BY <2>3, <2>4 DEF Injection, IsInjective
  <2>6. IsFiniteSet(New) /\ Cardinality(New) <= Cardinality(Moved)
    BY <2>2, <2>5, FS_Injection
  <2> QED  BY <2>2, <2>6, FS_CardinalityType
<1>15. Cardinality(Repeats') <= Cardinality(Repeats) + Cardinality(New)
  <2> HIDE DEF New, Moved
  <2> DEFINE U == Repeats \cup New
             c == Cardinality(Repeats \cap New)
  <2>1. IsFiniteSet(U) /\ Cardinality(U) = Cardinality(Repeats) + Cardinality(New) - c
    BY <1>13, <1>14, FS_Union
  <2>2. c \in Nat
    <3>1. Repeats \cap New \in SUBSET New
      OBVIOUS
    <3> QED  BY <1>14, <3>1, FS_Subset, FS_CardinalityType
  <2>3. /\ IsFiniteSet(Repeats') /\ Cardinality(Repeats') <= Cardinality(U)
    BY <1>12, <2>1, FS_Subset
  <2>4. Cardinality(Repeats') \in Nat /\ Cardinality(U) \in Nat
    BY <2>1, <2>3, FS_CardinalityType
  <2> HIDE DEF U, c
  <2> QED  BY <1>13, <1>14, <2>1, <2>2, <2>3, <2>4
<1>16. Cardinality(Ahead') <= Cardinality(Ahead) - Cardinality(Moved)
  <2>1. Ahead \cap Moved = Moved
    OBVIOUS
  <2> HIDE DEF New, Moved
  <2> DEFINE W == Ahead \ Moved
  <2>2. /\ IsFiniteSet(W)
        /\ Cardinality(W) = Cardinality(Ahead) - Cardinality(Ahead \cap Moved)
    BY <1>13, FS_Difference
  <2>3. /\ IsFiniteSet(Ahead') /\ Cardinality(Ahead') <= Cardinality(W)
    BY <1>10, <2>2, FS_Subset
  <2> QED  BY <2>1, <2>2, <2>3
<1>17. Cardinality(Repeats') \in Nat /\ Cardinality(Ahead') \in Nat
  <2> HIDE DEF New, Moved
  <2>1. IsFiniteSet(Repeats \cup New)
    BY <1>13, <1>14, FS_Union
  <2>2. IsFiniteSet(Ahead \ Moved)
    BY <1>13, FS_Difference
  <2> QED  BY <1>10, <1>12, <2>1, <2>2, FS_Subset, FS_CardinalityType
<1> HIDE DEF New, Moved
<1>18. Cardinality(Repeats') + Cardinality(Ahead')
         <= Cardinality(Repeats) + Cardinality(Ahead)
  BY <1>13, <1>14, <1>15, <1>16, <1>17
<1> QED  BY <1>9, <1>18

\* A fetch comes to the end with the catalogue, or where the listing ends.
LEMMA EndsAt ==
    ASSUME NEW total, Receives(total), ended' = "end"
    PROVE  \/ connector = "cisa_kev"
           \/ /\ ReachedEnd(Items, total)
              /\ total = Len(Listing)
<1>1. EndOf(Items, total) = "end"
  BY DEF Receives, Arrive, ReceivePage, BadTotal
<1> QED  BY <1>1 DEF EndOf

\* What changes at the source happens to a fetch that has not ended.
LEMMA ChangeIsEarly ==
    ASSUME PlaceInv, NEW r, Publish(r) \/ Withdraw(r)
    PROVE  /\ pc # "ended" /\ ended = "" /\ ended' = ""
           /\ status = "running" /\ status' = "running"
           /\ UNCHANGED <<connector, since, pc, at, cursor, pages, received>>
  BY DEF PlaceInv, Publish, Withdraw, progress

LEMMA PauseKeeps ==
    ASSUME Pauses
    PROVE  /\ Listing' = Listing
           /\ Repeats' = Repeats
           /\ Skipped' = Skipped
           /\ Ahead' = Ahead
           /\ Range(received)' = Range(received)
           /\ ended' \in {ended, "error", "exception"}
  BY DEF Pauses, Listing, Repeats, Skipped, Ahead,
         Range, Rank

LEMMA OffsetStep ==
    ASSUME FeedTypeOK, PlaceInv, OffsetInv,
           [FeedNext]_(feedVars)
    PROVE  OffsetInv'
<1>1. SUFFICES ASSUME connector' \in ByOffset
               PROVE  /\ Cardinality(Skipped') <= removed'
                      /\ Cardinality(Repeats') + Cardinality(Ahead')
                            <= inserted'
                      /\ ended' = "end" => at' >= Len(Listing')
  BY DEF OffsetInv, ByOffset
<1>2. connector' = connector
  <2>1. Pauses => connector' = connector
    BY DEF Pauses
  <2>2. ASSUME NEW total, Receives(total) PROVE connector' = connector
    BY <2>2 DEF Receives, Arrive
  <2> QED  BY <2>1, <2>2, FeedSteps, ChangeIsEarly
<1>3. connector \in ByOffset
  BY <1>1, <1>2
<1>4. /\ Cardinality(Skipped) <= removed
      /\ Cardinality(Repeats) + Cardinality(Ahead) <= inserted
      /\ ended = "end" => at >= Len(Listing)
  BY <1>3 DEF OffsetInv
<1>5. /\ removed \in Nat /\ inserted \in Nat /\ at \in Nat
      /\ Cardinality(Skipped) \in Nat
      /\ Cardinality(Repeats) \in Nat /\ Cardinality(Ahead) \in Nat
  BY OffsetSetsFinite DEF FeedTypeOK
<1>6. /\ present \in SUBSET Nat /\ IsFiniteSet(present)
      /\ steady \in SUBSET present
  BY PresentFinite DEF FeedTypeOK
<1>7. FeedTypeOK'
  BY FeedTypeStep
<1>8. CASE Pauses
  <2>1. UNCHANGED <<removed, inserted, at>>
    BY <1>8 DEF Pauses
  <2> QED  BY <1>4, <1>8, <2>1, PauseKeeps
<1>9. ASSUME NEW total, Receives(total)
      PROVE  /\ Cardinality(Skipped') <= removed'
             /\ Cardinality(Repeats') + Cardinality(Ahead')
                   <= inserted'
             /\ ended' = "end" => at' >= Len(Listing')
  <2>1. UNCHANGED <<present, steady, removed, inserted>>
    BY <1>9 DEF Receives, Arrive
  <2>2. Cardinality(Skipped') <= Cardinality(Skipped)
    <3>1. Skipped' \in SUBSET Skipped
      BY <1>3, <1>9, OffsetPage
    <3> QED  BY <3>1, OffsetSetsFinite, FS_Subset
  <2>3. Cardinality(Repeats') + Cardinality(Ahead')
           <= Cardinality(Repeats) + Cardinality(Ahead)
    BY <1>3, <1>9, OffsetPage
  <2>4. /\ Cardinality(Skipped') \in Nat
        /\ Cardinality(Repeats') \in Nat /\ Cardinality(Ahead') \in Nat
    <3>1. Skipped' \in SUBSET present' /\ Ahead' \in SUBSET present'
      BY <1>6, <2>1 DEF Skipped, Ahead
    <3>2. IsFiniteSet(present')
      BY <1>6, <2>1
    <3>3. Repeats' \in SUBSET (1..Len(received'))
      <4>1. DOMAIN received' = 1..Len(received')
        BY <1>9, Appended
      <4> QED  BY <4>1 DEF Repeats
    <3>4. IsFiniteSet(1..Len(received'))
      <4>1. Len(received') \in Int
        BY <1>9, Appended, LenProperties
      <4> QED  BY <4>1, FS_Interval, 1 \in Int
    <3> QED  BY <3>1, <3>2, <3>3, <3>4, FS_Subset, FS_CardinalityType
  <2>5. ASSUME ended' = "end"
        PROVE  at' >= Len(Listing')
    <3>1. /\ ReachedEnd(Items, total) /\ total = Len(Listing)
          /\ connector # "github_advisory"
      BY <1>3, <1>9, <2>5, EndsAt DEF ByOffset
    <3>2. Items = <<>> \/ at + Len(Items) >= Len(Listing)
      BY <3>1 DEF ReachedEnd, Received
    <3>3. Listing' = Listing
      BY <2>1 DEF Listing
    <3>4. at' = at + Len(Items)
      BY <1>9, Arrives
    <3>5. CASE Items = <<>>
      <4>1. Len(Items) = 0
        BY <3>5, EmptySeq
      <4>2. Begin = at /\ connector # "cisa_kev"
        BY <1>3 DEF Begin, ByOffset
      <4>3. at >= Cardinality(present)
        <5>1. 0 = IF at >= Cardinality(present) THEN 0
                  ELSE IF Cardinality(present) - at < PageSize
                  THEN Cardinality(present) - at ELSE PageSize
          BY <4>1, <4>2, ItemsAre
        <5>2. PageSize \in Nat \ {0} /\ Cardinality(present) \in Nat
          BY PresentFinite DEF ConnectorAssumption
        <5> QED  BY <1>5, <5>1, <5>2
      <4> QED  BY <1>5, <3>3, <3>4, <4>1, <4>3, Listed
    <3> QED  BY <3>2, <3>3, <3>4, <3>5
  <2> QED  BY <1>4, <1>5, <2>1, <2>2, <2>3, <2>4, <2>5
<1>10. ASSUME NEW r \in Records, Publish(r) \/ Withdraw(r)
       PROVE  /\ Cardinality(Skipped') <= removed'
              /\ Cardinality(Repeats') + Cardinality(Ahead')
                    <= inserted'
              /\ ended' = "end" => at' >= Len(Listing')
  <2>1. ended' = "" /\ at' = at /\ received' = received
    BY <1>10, ChangeIsEarly
  <2>2. Repeats' = Repeats
    BY <2>1 DEF Repeats
  <2> DEFINE R == Range(received)
  <2>3. Range(received)' = R
    BY <2>1 DEF Range
  <2>4. r \in Nat
    BY DEF ConnectorAssumption
  <2>5. /\ Skipped = SkippedOf(present, steady, at, R)
        /\ Ahead = AheadOf(present, at, R)
        /\ Skipped' = SkippedOf(present', steady', at, R)
        /\ Ahead' = AheadOf(present', at, R)
    BY <2>1, <2>3, AsSets
  <2>6. /\ Cardinality(Skipped') \in Nat
        /\ Cardinality(Ahead') \in Nat
    <3>1. /\ Skipped' \in SUBSET (present \cup {r})
          /\ Ahead' \in SUBSET (present \cup {r})
      BY <1>6, <1>10, <2>5
      DEF SkippedOf, AheadOf, Publish, Withdraw
    <3>2. IsFiniteSet(present \cup {r})
      BY <1>6, FS_AddElement
    <3> QED  BY <3>1, <3>2, Sizes
  <2> HIDE DEF R
  <2>7. CASE Publish(r)
    <3>1. /\ r \notin present /\ present' = present \cup {r}
          /\ steady' = steady /\ removed' = removed /\ inserted' = inserted + 1
      BY <2>7 DEF Publish
    <3>2. Cardinality(Skipped') <= Cardinality(Skipped)
      BY <1>5, <1>6, <2>4, <2>5, <3>1, PublishSkips
    <3>3. Cardinality(Ahead') <= Cardinality(Ahead) + 1
      BY <1>5, <1>6, <2>4, <2>5, <3>1, PublishAhead
    <3>4. Cardinality(Skipped') <= removed'
      BY <1>4, <1>5, <2>6, <3>1, <3>2
    <3>5. Cardinality(Repeats') + Cardinality(Ahead') <= inserted'
      BY <1>4, <1>5, <2>2, <2>6, <3>1, <3>3
    <3> QED  BY <2>1, <3>4, <3>5
  <2>8. CASE Withdraw(r)
    <3>1. /\ r \in present /\ present' = present \ {r}
          /\ steady' = steady \ {r} /\ removed' = removed + 1
          /\ inserted' = inserted
      BY <2>8 DEF Withdraw
    <3>2. Cardinality(Skipped') <= Cardinality(Skipped) + 1
      BY <1>5, <1>6, <2>5, <3>1, WithdrawSkips
    <3>3. Cardinality(Ahead') <= Cardinality(Ahead)
      BY <1>5, <1>6, <2>5, <3>1, WithdrawAhead
    <3>4. Cardinality(Skipped') <= removed'
      BY <1>4, <1>5, <2>6, <3>1, <3>2
    <3>5. Cardinality(Repeats') + Cardinality(Ahead') <= inserted'
      BY <1>4, <1>5, <2>2, <2>6, <3>1, <3>3
    <3> QED  BY <2>1, <3>4, <3>5
  <2> QED  BY <1>10, <2>7, <2>8
<1> QED  BY <1>8, <1>9, <1>10, FeedSteps

-----------------------------------------------------------------------------
\* The records up to the cursor are those of a lower rank than Passed.
LEMMA PassedRank ==
    ASSUME FeedTypeOK, NEW r \in present
    PROVE  r <= cursor <=> Rank(r) < Passed
<1> DEFINE P == {q \in present : q <= cursor}
<1>1. /\ present \in SUBSET Nat /\ IsFiniteSet(present) /\ cursor \in Nat
      /\ r \in Nat
  BY PresentFinite DEF FeedTypeOK
<1>2. Passed = Cardinality(P) /\ Rank(r) = Cardinality(Before(present, r))
  BY PassedType, RankIsBefore
<1>3. P \in SUBSET present /\ Before(present, r) \in SUBSET present
  BY DEF Before
<1>4. /\ IsFiniteSet(P) /\ IsFiniteSet(Before(present, r))
      /\ Cardinality(P) \in Nat /\ Cardinality(Before(present, r)) \in Nat
  BY <1>1, <1>3, Sizes
<1>5. ASSUME r <= cursor
      PROVE  Cardinality(Before(present, r)) < Cardinality(P)
  <2>1. \A q \in present : q < r => q <= cursor
    BY <1>1, <1>5
  <2>2. Before(present, r) \cup {r} \in SUBSET P /\ r \notin Before(present, r)
    <3>1. r \in P /\ ~ (r < r)
      BY <1>1, <1>5
    <3>2. Before(present, r) \in SUBSET P
      BY <2>1 DEF Before
    <3>3. r \notin Before(present, r)
      BY <3>1 DEF Before
    <3> HIDE DEF P
    <3> QED  BY <3>1, <3>2, <3>3
  <2>3. Cardinality(Before(present, r) \cup {r}) =
           Cardinality(Before(present, r)) + 1
    BY <1>4, <2>2, FS_AddElement
  <2>4. Cardinality(Before(present, r) \cup {r}) <= Cardinality(P)
    BY <1>4, <2>2, FS_Subset
  <2> QED  BY <1>4, <2>3, <2>4
<1>6. ASSUME ~ (r <= cursor)
      PROVE  Cardinality(P) <= Cardinality(Before(present, r))
  <2>1. \A q \in present : q <= cursor => q < r
    BY <1>1, <1>6
  <2>2. P \in SUBSET Before(present, r)
    BY <2>1 DEF Before
  <2> QED  BY <1>4, <2>2, FS_Subset
<1> HIDE DEF P
<1> QED  BY <1>2, <1>4, <1>5, <1>6

LEMMA Increasing ==
    ASSUME FeedTypeOK, PlaceInv,
           \A i, j \in DOMAIN received : i < j => received[i] < received[j],
           NEW i \in 1..Len(received)
    PROVE  received[i] \in Nat /\ received[i] <= cursor
<1> DEFINE l == Len(received)
<1>1. l \in Nat /\ DOMAIN received = 1..l
  BY ReceivedType
<1>2. \A k \in 1..l : received[k] \in Nat
  BY ReceivedType DEF ConnectorAssumption
<1>3. received # <<>>
  BY <1>1
<1>4. cursor = received[l] /\ l \in 1..l
  <2>1. cursor = received[l]
    BY <1>3 DEF PlaceInv, Last
  <2> QED  BY <1>1, <2>1
<1>5. i < l => received[i] < received[l]
  BY <1>1, <1>4
<1>6. i < l \/ i = l
  <2> HIDE DEF l
  <2>1. i \in 1..l
    BY DEF l
  <2> QED  BY <1>1, <2>1
<1> QED  BY <1>2, <1>4, <1>5, <1>6

\* Where a fetch that does not count begins its page.
LEMMA CursorBegins ==
    ASSUME FeedTypeOK, PlaceInv,
           connector \notin ByOffset, pc # "ended"
    PROVE  Begin = Passed
<1>1. CASE connector = "github_advisory"
  BY <1>1 DEF Begin
<1>2. CASE connector = "cisa_kev"
  <2>1. cursor = 0
    BY <1>2 DEF PlaceInv
  <2>2. \A r \in present : r \in Nat /\ r > 0
    BY PresentFinite
  <2>3. {r \in present : r <= cursor} = {}
    BY <2>1, <2>2
  <2>4. Passed = 0
    BY <2>3, PassedType, FS_EmptySet
  <2> QED  BY <1>2, <2>4 DEF Begin
<1> QED  BY <1>1, <1>2 DEF FeedTypeOK, Connectors, ByOffset

LEMMA CursorPage ==
    ASSUME FeedTypeOK, PlaceInv, CursorInv,
           connector \notin ByOffset,
           NEW total, Receives(total)
    PROVE  /\ \A i, j \in DOMAIN received' : i < j => received'[i] < received'[j]
           /\ \A r \in steady : r <= cursor' => r \in Range(received)'
           /\ ended' = "end" => \A r \in present : r <= cursor'
<1> DEFINE m == Len(Items)
           l == Len(received)
           n == Cardinality(present)
           p == Passed
<1>1. Begin = p /\ pc # "ended"
  <2>1. pc # "ended"
    BY DEF Receives, Arrive
  <2> QED  BY <2>1, CursorBegins
<1>2. l \in Nat /\ m \in Nat /\ n \in Nat /\ p \in Nat /\ cursor \in Nat
  <2>1. p \in 0..n /\ n \in Nat
    BY PassedType, PresentFinite
  <2>2. cursor \in Nat
    BY DEF FeedTypeOK
  <2>3. l \in Nat /\ m \in Nat
    BY ReceivedType, ItemsAre
  <2>4. p \in Nat
    <3> HIDE DEF p, n
    <3> QED  BY <2>1
  <2> QED  BY <2>1, <2>2, <2>3, <2>4
<1>3. \A k \in 1..m : /\ p + k \in 1..n
                     /\ Items[k] \in present
                     /\ Rank(Items[k]) = p + k - 1
  BY <1>1, ItemsAre
<1>4. \A r \in present : /\ r \in Nat
                        /\ Rank(r) \in 0..n - 1
  BY PresentFinite, Listed
<1>5. \A i, j \in DOMAIN received : i < j => received[i] < received[j]
  BY DEF CursorInv
<1>6. \A i \in 1..l : received[i] \in Nat /\ received[i] <= cursor
  BY <1>5, Increasing
<1>7. \A r \in present : r <= cursor <=> Rank(r) < p
  BY PassedRank
<1>8. \A k \in 1..m : Items[k] \in Nat /\ cursor < Items[k]
  <2> TAKE k \in 1..m
  <2>1. Items[k] \in present /\ Items[k] \in Nat
    BY <1>3, <1>4
  <2>2. Rank(Items[k]) = p + k - 1
    BY <1>3
  <2>3. ~ (p + k - 1 < p)
    <3> HIDE DEF p, m
    <3> QED  BY <1>2
  <2>4. ~ (Items[k] <= cursor)
    BY <1>7, <2>1, <2>2, <2>3
  <2> QED  BY <1>2, <2>1, <2>4
<1>9. DOMAIN received' = 1..l + m /\ DOMAIN received = 1..l
  BY Appended, ReceivedType
<1>10. ASSUME NEW i \in 1..l + m, NEW j \in 1..l + m, i < j
       PROVE  received'[i] < received'[j]
  <2> HIDE DEF l, m, n, p
  <2>1. CASE j <= l
    <3>1. i \in 1..l /\ j \in 1..l
      BY <1>2, <1>10, <2>1
    <3>2. received'[i] = received[i] /\ received'[j] = received[j]
      BY <3>1, Appended DEF l
    <3> QED  BY <1>5, <1>9, <1>10, <3>1, <3>2
  <2>2. CASE i <= l /\ ~ (j <= l)
    <3>1. i \in 1..l /\ j \in l + 1..l + m
      BY <1>2, <1>10, <2>2
    <3>2. /\ received'[i] = received[i]
          /\ j - l \in 1..m /\ received'[j] = Items[j - l]
      BY <3>1, Appended DEF l, m
    <3>3. /\ received'[i] \in Nat /\ received'[i] <= cursor
          /\ received'[j] \in Nat /\ cursor < received'[j]
      BY <1>6, <1>8, <3>1, <3>2
    <3> QED  BY <1>2, <3>3
  <2>3. CASE ~ (i <= l)
    <3>1. i \in l + 1..l + m /\ j \in l + 1..l + m
      BY <1>2, <1>10, <2>3
    <3>2. /\ i - l \in 1..m /\ received'[i] = Items[i - l]
          /\ j - l \in 1..m /\ received'[j] = Items[j - l]
      BY <3>1, Appended DEF l, m
    <3>3. /\ received'[i] \in present /\ received'[j] \in present
          /\ Rank(received'[i]) = p + (i - l) - 1
          /\ Rank(received'[j]) = p + (j - l) - 1
      BY <1>3, <3>2
    <3>4. p + (i - l) - 1 < p + (j - l) - 1
      BY <1>2, <1>10, <3>1
    <3>5. Rank(received'[i]) < Rank(received'[j])
      BY <3>3, <3>4
    <3> QED  BY <3>3, <3>5, RanksOrder
  <2>4. i \in Nat /\ j \in Nat
    BY <1>2
  <2> QED  BY <1>2, <2>1, <2>2, <2>3, <2>4
<1>11. Items = <<>> => cursor' = cursor
  BY Arrives
<1>12. Items # <<>> => /\ m \in 1..m /\ cursor' = Items[m]
                           /\ cursor' \in present
                           /\ Rank(cursor') = p + m - 1
  <2>1. Items # <<>> => m \in Nat \ {0} /\ cursor' = Items[m]
    BY Arrives
  <2>2. Items # <<>> => m \in 1..m
    BY <2>1
  <2> QED  BY <1>3, <2>1, <2>2
<1>13. ASSUME NEW r \in steady, r <= cursor'
       PROVE  r \in Range(received)'
  <2>1. r \in present
    BY DEF FeedTypeOK
  <2>2. CASE r <= cursor
    <3>1. r \in Range(received)
      BY <2>2 DEF CursorInv
    <3> QED  BY <3>1, Appended
  <2>3. CASE ~ (r <= cursor)
    <3>1. Items # <<>>
      BY <1>11, <1>13, <2>3
    <3>2. /\ cursor' \in present /\ Rank(cursor') = p + m - 1
          /\ cursor' \in Nat /\ r \in Nat
      BY <1>4, <1>12, <2>1, <3>1
    <3>3. ~ (p + m - 1 < Rank(r))
      <4>1. ~ (cursor' < r)
        BY <1>13, <3>2
      <4>2. ~ (Rank(cursor') < Rank(r))
        BY <2>1, <3>2, <4>1, RanksOrder
      <4> QED  BY <3>2, <4>2
    <3>4. ~ (Rank(r) < p)
      BY <1>7, <2>1, <2>3
    <3>5. Rank(r) \in p..p + m - 1
      <4>1. Rank(r) \in Nat
        BY <1>2, <1>4, <2>1
      <4> HIDE DEF p, m, n
      <4> QED  BY <1>2, <3>3, <3>4, <4>1
    <3>6. \E k \in 1..m : Items[k] = r
      BY <1>1, <2>1, <3>5, ItemsAre
    <3> QED  BY <3>6, Appended
  <2> QED  BY <2>2, <2>3
<1>14. ASSUME ended' = "end", NEW r \in present
       PROVE  r <= cursor'
  <2>1. Rank(r) \in 0..n - 1 /\ r \in Nat
    BY <1>4
  <2>2. CASE Items = <<>>
    <3>1. m = 0
      BY <2>2, EmptySeq
    <3>2. p >= n
      <4>1. /\ 0 = IF p >= n THEN 0
                   ELSE IF connector = "cisa_kev" THEN n
                   ELSE IF n - p < PageSize THEN n - p ELSE PageSize
            /\ connector = "cisa_kev" => p = 0
        BY <1>1, <3>1, ItemsAre DEF Begin
      <4>2. PageSize \in Nat \ {0}
        BY DEF ConnectorAssumption
      <4> HIDE DEF p, n, m
      <4> QED  BY <1>2, <4>1, <4>2
    <3>3. Rank(r) < p
      <4> HIDE DEF p, n
      <4> QED  BY <1>2, <2>1, <3>2
    <3> QED  BY <1>7, <1>11, <2>2, <3>3
  <2>3. CASE Items # <<>>
    <3>1. p + m - 1 = n - 1
      <4>1. CASE connector = "cisa_kev"
        <5>1. p = 0
          BY <1>1, <4>1 DEF Begin
        <5>2. 0 = p /\ m = IF 0 >= n THEN 0 ELSE n
          BY <1>1, <4>1, <5>1, ItemsAre
        <5>3. m = n
          <6> HIDE DEF m, n, p
          <6> QED  BY <1>2, <5>2
        <5> HIDE DEF m, n, p
        <5> QED  BY <1>2, <5>1, <5>3
      <4>2. CASE connector # "cisa_kev"
        <5>1. Last(Items) = Last(Listing)
          BY <1>14, <2>3, <4>2, EndsAt DEF ReachedEnd
        <5>2. Items[m] = Listing[n]
          BY <5>1, Listed DEF Last
        <5>3. n \in 1..n
          <6> HIDE DEF n
          <6> QED  BY <1>2, <2>1
        <5>4. Rank(Listing[n]) = n - 1
          BY <5>3, Listed
        <5>5. Rank(Items[m]) = p + m - 1
          BY <1>12, <2>3
        <5>6. Rank(Items[m]) = Rank(Listing[n])
          BY <5>2
        <5> QED  BY <5>4, <5>5, <5>6
      <4> QED  BY <4>1, <4>2
    <3>2. /\ cursor' \in present /\ Rank(cursor') = n - 1
          /\ cursor' \in Nat
      BY <1>4, <1>12, <2>3, <3>1
    <3>3. ~ (n - 1 < Rank(r))
      <4> HIDE DEF n
      <4> QED  BY <1>2, <2>1
    <3>4. ~ (cursor' < r)
      BY <3>2, <3>3, RanksOrder
    <3> QED  BY <2>1, <3>2, <3>4
  <2> QED  BY <2>2, <2>3
<1> QED  BY <1>9, <1>10, <1>13, <1>14

LEMMA ConnectorStays ==
    ASSUME FeedTypeOK, PlaceInv, [FeedNext]_(feedVars)
    PROVE  connector' = connector
<1>1. Pauses => connector' = connector
  BY DEF Pauses
<1>2. ASSUME NEW total, Receives(total) PROVE connector' = connector
  BY <1>2 DEF Receives, Arrive
<1> QED  BY <1>1, <1>2, FeedSteps, ChangeIsEarly

LEMMA CursorStep ==
    ASSUME FeedTypeOK, PlaceInv, CursorInv,
           [FeedNext]_(feedVars)
    PROVE  CursorInv'
<1> DEFINE Sorted(f) == \A i, j \in DOMAIN f : i < j => f[i] < f[j]
<1>1. SUFFICES ASSUME connector \notin ByOffset
               PROVE  /\ Sorted(received')
                      /\ \A r \in steady' :
                            r <= cursor' => r \in Range(received)'
                      /\ ended' = "end" => \A r \in present' : r <= cursor'
  BY ConnectorStays DEF CursorInv, ByOffset
<1>2. /\ Sorted(received)
      /\ \A r \in steady : r <= cursor => r \in Range(received)
      /\ ended = "end" => \A r \in present : r <= cursor
  BY <1>1 DEF CursorInv
<1>3. CASE Pauses
  <2>1. UNCHANGED <<received, steady, cursor, present>>
    BY <1>3 DEF Pauses
  <2> QED  BY <1>2, <1>3, <2>1, PauseKeeps
<1>4. ASSUME NEW total, Receives(total)
      PROVE  /\ Sorted(received')
             /\ \A r \in steady' : r <= cursor' => r \in Range(received)'
             /\ ended' = "end" => \A r \in present' : r <= cursor'
  <2>1. UNCHANGED <<steady, present>>
    BY <1>4 DEF Receives, Arrive
  <2> QED  BY <1>1, <1>4, <2>1, CursorPage
<1>5. ASSUME NEW q \in Records, Publish(q) \/ Withdraw(q)
      PROVE  /\ Sorted(received')
             /\ \A r \in steady' : r <= cursor' => r \in Range(received)'
             /\ ended' = "end" => \A r \in present' : r <= cursor'
  <2>1. ended' = "" /\ UNCHANGED <<received, cursor>>
    BY <1>5, ChangeIsEarly
  <2>2. steady' \in SUBSET steady
    BY <1>5 DEF Publish, Withdraw
  <2>3. Range(received)' = Range(received)
    BY <2>1 DEF Range
  <2> QED  BY <1>2, <2>1, <2>2, <2>3
<1> QED  BY <1>3, <1>4, <1>5, FeedSteps

\* The invariants say what an end has cost.
LEMMA InvChangesCostLittle ==
    ASSUME FeedTypeOK, OffsetInv, CursorInv
    PROVE  ChangesCostLittle
<1> DEFINE missed == {r \in steady : Wanted(r)} \ Range(received)
           again == {i \in Repeats : Wanted(received[i])}
<1>1. SUFFICES ASSUME ended = "end"
               PROVE  IF connector \in ByOffset
                      THEN /\ Cardinality(missed) <= removed
                           /\ Cardinality(again) <= inserted
                      ELSE missed = {} /\ again = {}
  BY DEF ChangesCostLittle
<1>2. /\ present \in SUBSET Nat /\ IsFiniteSet(present)
      /\ steady \in SUBSET present
  BY PresentFinite DEF FeedTypeOK
<1>3. CASE connector \in ByOffset
  <2>1. /\ Cardinality(Skipped) <= removed
        /\ Cardinality(Repeats) + Cardinality(Ahead) <= inserted
        /\ at >= Len(Listing)
    BY <1>1, <1>3 DEF OffsetInv
  <2>2. removed \in Nat /\ inserted \in Nat /\ at \in Nat
    BY DEF FeedTypeOK
  <2>3. missed \in SUBSET Skipped
    <3>1. ASSUME NEW r \in missed
          PROVE  r \in Skipped
      <4>1. r \in steady /\ r \in present /\ r \notin Range(received)
        BY <1>2
      <4>2. Rank(r) \in 0..Len(Listing) - 1 /\ Len(Listing) \in Nat
        BY <4>1, Listed, PresentFinite
      <4>3. Rank(r) < at
        BY <2>1, <2>2, <4>2
      <4> QED  BY <4>1, <4>3 DEF Skipped
    <3> QED  BY <3>1
  <2>4. again \in SUBSET Repeats
    OBVIOUS
  <2> HIDE DEF missed, again
  <2>5. /\ Cardinality(missed) <= Cardinality(Skipped)
        /\ Cardinality(again) <= Cardinality(Repeats)
        /\ Cardinality(missed) \in Nat /\ Cardinality(again) \in Nat
    BY <2>3, <2>4, OffsetSetsFinite, FS_Subset, FS_CardinalityType
  <2>6. Cardinality(missed) <= removed
    BY <2>1, <2>2, <2>5, OffsetSetsFinite
  <2>7. Cardinality(again) <= inserted
    BY <2>1, <2>2, <2>5, OffsetSetsFinite
  <2> QED  BY <1>3, <2>6, <2>7
<1>4. CASE connector \notin ByOffset
  <2>1. missed = {}
    BY <1>1, <1>2, <1>4 DEF CursorInv
  <2>2. again = {}
    <3>1. ASSUME NEW i \in Repeats
          PROVE  FALSE
      <4>1. /\ i \in 1..Len(received) /\ Len(received) \in Nat
            /\ DOMAIN received = 1..Len(received)
            /\ received[i] \in Nat
        BY ReceivedType DEF Repeats, ConnectorAssumption
      <4>2. PICK j \in 1..i - 1 : received[j] = received[i]
        BY DEF Repeats
      <4>3. j \in 1..Len(received) /\ j < i
        BY <4>1
      <4>4. received[j] < received[i]
        BY <1>4, <4>1, <4>3 DEF CursorInv
      <4> QED  BY <4>1, <4>2, <4>4
    <3> QED  BY <3>1
  <2> QED  BY <1>4, <2>1, <2>2
<1> QED  BY <1>3, <1>4

-----------------------------------------------------------------------------
LEMMA Firsts ==
    ASSUME FeedTypeOK,
           NEW j \in 0..Cardinality(present)
    PROVE  /\ SubSeq(Listing, 1, j) \in Seq(present)
           /\ Len(SubSeq(Listing, 1, j)) = j
           /\ \A i \in 1..j : SubSeq(Listing, 1, j)[i] = Listing[i]
<1> DEFINE f == SubSeq(Listing, 1, j)
<1>1. Cardinality(present) \in Nat /\ j \in Nat
  BY PresentFinite
<1>2. \A i \in 1..j : Listing[i] \in present
  BY <1>1, Listed
<1>3. /\ f \in Seq(present)
      /\ Len(f) = IF 1 <= j THEN j - 1 + 1 ELSE 0
      /\ \A i \in 1..j - 1 + 1 : f[i] = Listing[1 + i - 1]
  BY <1>1, <1>2, SubSeqProperties, 1 \in Int, j \in Int
<1> HIDE DEF f
<1>4. Len(f) = j
  BY <1>1, <1>3
<1>5. \A i \in 1..j : f[i] = Listing[i]
  <2> TAKE i \in 1..j
  <2>1. i \in 1..j - 1 + 1 /\ 1 + i - 1 = i
    BY <1>1
  <2> QED  BY <1>3, <2>1
<1> QED  BY <1>3, <1>4, <1>5 DEF f

\* While the source stands still, a page continues what has been received.
LEMMA QuietPage ==
    ASSUME FeedTypeOK, PlaceInv, QuietInv,
           removed + inserted = 0, NEW total, Receives(total)
    PROVE  LET n == Cardinality(present)
               m == Len(Items)
           IN /\ at + m \in 0..n
              /\ at \in Nat /\ m \in Nat /\ n \in Nat
              /\ m = IF connector = "cisa_kev" THEN n - at
                     ELSE IF n - at < PageSize THEN n - at ELSE PageSize
              /\ connector = "cisa_kev" => at = 0
              /\ received' = SubSeq(Listing, 1, at + m)
              /\ m > 0 => /\ Last(Items) = Listing[at + m]
                         /\ Items # <<>>
<1> DEFINE n == Cardinality(present)
           m == Len(Items)
<1>1. /\ received = SubSeq(Listing, 1, at)
      /\ at <= Len(Listing) /\ pc # "ended"
  BY DEF QuietInv, Receives, Arrive
<1>2. n \in Nat /\ m \in Nat /\ at \in Nat /\ Len(Listing) = n
  <2>1. at \in Nat
    BY DEF FeedTypeOK
  <2> QED  BY <2>1, PresentFinite, ItemsAre, Listed
<1>3. at \in 0..n
  <2> HIDE DEF n
  <2> QED  BY <1>1, <1>2
<1>4. /\ Len(received) = at
      /\ \A i \in 1..at : received[i] = Listing[i]
  BY <1>1, <1>3, Firsts
<1>5. connector = "cisa_kev" => at = 0
  BY <1>1, <1>4, EmptySeq DEF PlaceInv
<1>6. Begin = at
  <2>1. CASE connector = "cisa_kev"
    BY <1>5, <2>1 DEF Begin
  <2>2. CASE connector = "github_advisory"
    <3> DEFINE P == {r \in present : r <= cursor}
    <3>1. Begin = Cardinality(P)
      BY <2>2, PassedType DEF Begin
    <3>2. /\ present \in SUBSET Nat /\ IsFiniteSet(present)
          /\ \A r \in present : r > 0
      BY PresentFinite
    <3>3. CASE at = 0
      <4>1. received = <<>>
        BY <1>4, <3>3, EmptySeq DEF FeedTypeOK
      <4>2. cursor = 0
        BY <4>1 DEF PlaceInv
      <4>3. P = {}
        <5>1. \A r \in present : r \in Nat /\ r > 0
          BY <3>2
        <5>2. \A r \in present : ~ (r <= cursor)
          BY <4>2, <5>1
        <5> QED  BY <5>2
      <4> QED  BY <3>1, <3>3, <4>3, FS_EmptySet
    <3>4. CASE at # 0
      <4>1. at \in 1..at /\ at \in 1..n
        <5> HIDE DEF n
        <5> QED  BY <1>2, <1>3, <3>4
      <4>2. received # <<>>
        BY <1>4, <3>4
      <4>3. cursor = Listing[at]
        BY <1>4, <4>1, <4>2 DEF PlaceInv, Last
      <4>4. cursor \in present /\ Rank(cursor) = at - 1
        BY <4>1, <4>3, Listed
      <4>5. cursor \in Nat /\ \A r \in present : r \in Nat
        BY <3>2, <4>4
      <4>6. P = Before(present, cursor) \cup {cursor}
        <5>1. \A r \in present : r <= cursor <=> r < cursor \/ r = cursor
          BY <4>5
        <5> QED  BY <4>4, <5>1 DEF Before
      <4>7. cursor \notin Before(present, cursor)
        BY <4>5 DEF Before
      <4>8. IsFiniteSet(Before(present, cursor))
        BY <3>2, FS_Subset DEF Before
      <4>9. Cardinality(P) = Cardinality(Before(present, cursor)) + 1
        <5>1. Cardinality(Before(present, cursor) \cup {cursor}) =
                 Cardinality(Before(present, cursor)) + 1
          BY <4>7, <4>8, FS_AddElement
        <5> HIDE DEF P
        <5> QED  BY <4>6, <5>1
      <4>10. Cardinality(Before(present, cursor)) = at - 1
        BY <4>4, RankIsBefore
      <4> HIDE DEF P
      <4> QED  BY <1>2, <3>1, <4>9, <4>10
    <3> QED  BY <3>3, <3>4
  <2>3. CASE connector # "cisa_kev" /\ connector # "github_advisory"
    BY <2>3 DEF Begin
  <2> QED  BY <2>1, <2>2, <2>3
<1>7. /\ m = IF at >= n THEN 0
             ELSE IF connector = "cisa_kev" THEN n
             ELSE IF n - at < PageSize THEN n - at ELSE PageSize
      /\ \A k \in 1..m : Items[k] = Listing[at + k]
  BY <1>6, ItemsAre
<1>8. PageSize \in Nat \ {0}
  BY DEF ConnectorAssumption
<1> HIDE DEF m, n
<1>9. m = IF connector = "cisa_kev" THEN n - at
          ELSE IF n - at < PageSize THEN n - at ELSE PageSize
  BY <1>2, <1>3, <1>5, <1>7, <1>8
<1>10. at + m \in 0..n
  BY <1>2, <1>3, <1>8, <1>9
<1>11. received' = SubSeq(Listing, 1, at + m)
  <2> DEFINE f == SubSeq(Listing, 1, at + m)
  <2>1. /\ f \in Seq(present) /\ Len(f) = at + m
        /\ \A i \in 1..at + m : f[i] = Listing[i]
    BY <1>10, Firsts DEF n
  <2>2. f \in Seq(Records)
    <3>1. present \subseteq Records
      BY DEF FeedTypeOK
    <3> HIDE DEF f
    <3> QED  BY <2>1, <3>1, SeqMonotonic
  <2>3. received' \in Seq(Records) /\ Len(received') = at + m
    BY <1>4, Appended DEF m
  <2>4. ASSUME NEW i \in 1..at + m
        PROVE  received'[i] = Listing[i]
    <3>1. CASE i <= at
      <4>1. i \in 1..at
        BY <1>2, <3>1
      <4> QED  BY <1>4, <4>1, Appended
    <3>2. CASE ~ (i <= at)
      <4>1. i \in at + 1..at + m /\ at + (i - at) = i
        BY <1>2, <3>2
      <4>2. i - at \in 1..m /\ received'[i] = Items[i - at]
        BY <1>4, <4>1, Appended DEF m
      <4>3. Items[i - at] = Listing[at + (i - at)]
        BY <1>7, <4>2
      <4> QED  BY <4>1, <4>2, <4>3
    <3> QED  BY <3>1, <3>2
  <2> HIDE DEF f
  <2>5. \A i \in 1..Len(received') : received'[i] = f[i]
    BY <2>1, <2>3, <2>4
  <2>6. received' = f
    BY <2>1, <2>2, <2>3, <2>5, SeqEqual
  <2> QED  BY <2>6 DEF f
<1>12. m > 0 => /\ Last(Items) = Listing[at + m]
                /\ Items # <<>>
  <2>1. SUFFICES ASSUME m > 0
                 PROVE  /\ Last(Items) = Listing[at + m]
                        /\ Items # <<>>
    OBVIOUS
  <2>2. m \in 1..m
    BY <1>2, <2>1
  <2>3. Items # <<>>
    BY <1>2, <2>1, EmptySeq DEF m
  <2>4. Items[m] = Listing[at + m]
    BY <1>7, <2>2
  <2> QED  BY <2>3, <2>4 DEF Last, m
<1> QED  BY <1>2, <1>5, <1>9, <1>10, <1>11, <1>12 DEF m, n

\* How many pages of a quiet source reach how far.
LEMMA PagesReach ==
    ASSUME NEW k \in Nat, NEW s \in Nat, NEW t \in Nat, k <= t
    PROVE  /\ (k + 1) * s = k * s + s
           /\ k * s \in Nat /\ t * s \in Nat
           /\ k * s <= t * s
<1>1. PICK d \in Nat : t = k + d
  <2>1. t - k \in Nat /\ t = k + (t - k)
    OBVIOUS
  <2> QED  BY <2>1
<1>2. k * s \in Nat /\ t * s \in Nat /\ d * s \in Nat
  OBVIOUS
<1>3. (k + 1) * s = k * s + s /\ (k + d) * s = k * s + d * s
  OBVIOUS
<1> QED  BY <1>1, <1>2, <1>3

LEMMA QuietStep ==
    ASSUME FeedTypeOK, PlaceInv, QuietInv,
           ReadInv, [FeedNext]_(feedVars)
    PROVE  QuietInv' /\ ReadInv'
<1>1. removed \in Nat /\ inserted \in Nat
  BY DEF FeedTypeOK
<1>2. CASE Pauses
  <2>1. UNCHANGED <<connector, received, at, pages, removed, inserted>>
    BY <1>2 DEF Pauses
  <2>2. Listing' = Listing /\ Asked' = Asked
    BY <1>2, PauseKeeps DEF Asked, Pauses
  <2>3. QuietInv'
    <3>1. pc' # "ended" => pc # "ended"
      BY <1>2 DEF Pauses
    <3> QED  BY <2>1, <2>2, <3>1 DEF QuietInv
  <2>4. ReadInv'
    <3>1. status' = "completed" => status = "completed" /\ ended' = ended
      BY <1>2 DEF Pauses, PlaceInv
    <3> QED  BY <2>1, <2>2, <3>1 DEF ReadInv
  <2> QED  BY <2>3, <2>4
<1>3. ASSUME NEW total, Receives(total)
      PROVE  QuietInv' /\ ReadInv'
  <2> DEFINE n == Cardinality(present)
             m == Len(Items)
             x == pages * PageSize
             z == MaxPages * PageSize
  <2>1. /\ UNCHANGED <<connector, removed, inserted>>
        /\ Listing' = Listing
        /\ pages' = pages + 1 /\ at' = at + m
        /\ pc # "ended"
        /\ ended' # "exception" => ended' = EndOf(Items, total)
        /\ ended' = "" => pc' = pc
        /\ ended' # "" => pc' = "ended"
        /\ ended' \in {"", "exception"} => status' = status
        /\ \/ total = Len(Listing) \/ (total = 0 /\ connector \in ByOffset)
           \/ ended' = "exception"
    <3>1. /\ UNCHANGED <<connector, removed, inserted, present>>
          /\ pages' = pages + 1 /\ pc # "ended"
          /\ ended' # "exception" => ended' = EndOf(Items, total)
          /\ ended' = "" => pc' = pc
          /\ ended' # "" => pc' = "ended"
          /\ ended' \in {"", "exception"} => status' = status
          /\ \/ total = Len(Listing) \/ (total = 0 /\ connector \in ByOffset)
             \/ ended' = "exception"
      <4>1. /\ UNCHANGED <<connector, removed, inserted, present>>
            /\ pages' = pages + 1 /\ pc # "ended"
        BY <1>3 DEF Receives, Arrive
      <4>2. CASE ReceivePage(total)
        <5>1. ended' # "exception"
          BY <4>2 DEF ReceivePage, EndOf
        <5> QED  BY <4>1, <4>2, <5>1 DEF ReceivePage
      <4>3. CASE BadTotal
        BY <4>1, <4>3 DEF BadTotal
      <4> QED  BY <1>3, <4>2, <4>3 DEF Receives
    <3>2. Listing' = Listing
      <4>1. present' = present
        BY <3>1
      <4> QED  BY <4>1 DEF Listing
    <3>3. at' = at + m
      BY <1>3, Arrives
    <3> QED  BY <3>1, <3>2, <3>3
  <2>2. SUFFICES ASSUME removed + inserted = 0
                 PROVE  QuietInv' /\ ReadInv'
    BY <2>1 DEF QuietInv, ReadInv
  <2>3. /\ at + m \in 0..n
        /\ at \in Nat /\ m \in Nat /\ n \in Nat
        /\ m = IF connector = "cisa_kev" THEN n - at
               ELSE IF n - at < PageSize THEN n - at ELSE PageSize
        /\ connector = "cisa_kev" => at = 0
        /\ received' = SubSeq(Listing, 1, at + m)
        /\ m > 0 => /\ Last(Items) = Listing[at + m]
                   /\ Items # <<>>
    BY <1>3, <2>2, QuietPage
  <2>4. /\ at = x
        /\ pages \in Nat /\ PageSize \in Nat \ {0} /\ MaxPages \in Nat
        /\ pages < MaxPages
    BY <2>1, <2>2 DEF QuietInv, PlaceInv, FeedTypeOK,
                      ConnectorAssumption
  <2>5. /\ pages' * PageSize = x + PageSize /\ x \in Nat /\ z \in Nat
        /\ x + PageSize <= z
        /\ PageSize * MaxPages = z
    <3>1. pages + 1 \in Nat /\ pages + 1 <= MaxPages
      BY <2>4
    <3>2. (pages + 1) * PageSize = x + PageSize /\ x \in Nat
      BY <2>4, PagesReach
    <3>3. (pages + 1) * PageSize <= z /\ z \in Nat
      BY <2>4, <3>1, PagesReach
    <3>4. PageSize * MaxPages = z
      BY <2>4
    <3> QED  BY <2>1, <3>2, <3>3, <3>4
  <2>6. Len(Listing) = n /\ Listing \in Seq(present)
    BY Listed
  <2>7. m = 0 => Items = <<>>
    BY ItemsAre, EmptySeq
  <2>8. Items # <<>> => m > 0
    <3>1. Items # <<>> => m \in Nat \ {0}
      BY ItemsAre, EmptySeq
    <3> QED  BY <3>1
  <2> HIDE DEF m, n, x, z
  \* Where the listing ends a fetch by another connector notices it.
  <2>9. ASSUME connector # "cisa_kev", ended' \in {"", "max_pages"}
        PROVE  at + m < n /\ m = PageSize
    <3>1. ~ ReachedEnd(Items, total)
      BY <2>1, <2>9 DEF EndOf
    <3>2. Items # <<>> /\ m > 0
      BY <2>8, <3>1 DEF ReachedEnd
    <3>3. at + m # n
      <4>1. CASE connector \in ByOffset
        <5>1. ~ (at + m >= total)
          BY <3>1, <4>1 DEF ReachedEnd, Received, m
        <5>2. total # 0
          BY <2>3, <5>1
        <5>3. total = n
          BY <2>1, <2>6, <2>9, <5>2
        <5> QED  BY <2>3, <5>1, <5>3
      <4>2. CASE connector = "github_advisory"
        <5>1. Last(Items) # Last(Listing)
          BY <3>1, <4>2 DEF ReachedEnd
        <5>2. Listing[at + m] # Listing[n]
          BY <2>3, <2>6, <3>2, <5>1 DEF Last
        <5> QED  BY <5>2
      <4> QED
        BY <2>9, <4>1, <4>2 DEF FeedTypeOK, Connectors, ByOffset
    <3>4. at + m < n
      BY <2>3, <3>3
    <3>5. m = IF n - at < PageSize THEN n - at ELSE PageSize
      BY <2>3, <2>9
    <3> QED  BY <2>3, <2>4, <3>4, <3>5
  <2>10. QuietInv'
    <3>1. SUFFICES ASSUME pc' # "ended"
                   PROVE  /\ received' = SubSeq(Listing', 1, at')
                          /\ at' = pages' * PageSize /\ at' <= Len(Listing')
      BY DEF QuietInv
    <3>2. ended' = ""
      BY <2>1, <3>1
    <3>3. connector # "cisa_kev"
      BY <2>1, <3>2 DEF EndOf
    <3>4. at + m < n /\ m = PageSize
      BY <2>9, <3>2, <3>3
    <3>5. at' = pages' * PageSize
      BY <2>1, <2>4, <2>5, <3>4 DEF m
    <3>6. at' <= Len(Listing')
      <4>1. at' = at + m
        BY <2>1
      <4>2. Len(Listing') = n
        BY <2>1, <2>6
      <4> QED  BY <2>3, <3>4, <4>1, <4>2
    <3>7. received' = SubSeq(Listing', 1, at')
      BY <2>1, <2>3 DEF m
    <3> QED  BY <3>5, <3>6, <3>7
  <2>11. ReadInv'
    <3> DEFINE p == x + PageSize
               read == IF connector = "cisa_kev" \/ n <= p THEN Listing
                       ELSE SubSeq(Listing, 1, p)
    <3>1. SUFFICES ASSUME status' = "completed"
                   PROVE  /\ received' = read
                          /\ ended' = "max_pages" =>
                                pages' = MaxPages /\ read # Listing
                          /\ read # Listing =>
                                \/ ended' = "max_pages"
                                \/ ended' = "no_total" /\ connector \in ByOffset
      <4>1. Asked' = read
        <5>1. Asked' = LET most == IF connector = "cisa_kev" THEN n ELSE p
                       IN IF n <= most THEN Listing ELSE SubSeq(Listing, 1, most)
          BY <2>1, <2>5, <2>6 DEF Asked
        <5>2. n <= n
          BY <2>3
        <5> QED  BY <5>1, <5>2
      <4> HIDE DEF read
      <4> QED  BY <2>1, <4>1 DEF ReadInv
    <3>2. /\ ended' \notin {"", "exception"}
          /\ ended' = EndOf(Items, total)
          /\ total = Len(Listing) \/ (total = 0 /\ connector \in ByOffset)
      BY <2>1, <3>1 DEF PlaceInv
    <3>3. SubSeq(Listing, 1, n) = Listing
      BY <2>6, SubSeqFull
    <3>4. CASE connector = "cisa_kev"
      <4>1. at + m = n
        BY <2>3, <3>4
      <4>2. ended' = "end"
        BY <3>2, <3>4 DEF EndOf
      <4>3. read = Listing
        BY <3>4
      <4> QED  BY <2>3, <3>3, <4>1, <4>2, <4>3
    <3>5. CASE connector # "cisa_kev"
      <4>1. at + m = IF n <= p THEN n ELSE p
        BY <2>3, <2>4, <3>5
      <4>2. received' = read
        BY <2>3, <3>3, <3>5, <4>1
      <4>3. ASSUME ended' = "max_pages"
            PROVE  pages' = MaxPages /\ read # Listing
        <5>1. pages + 1 = MaxPages
          BY <3>2, <4>3 DEF EndOf
        <5>2. at + m < n
          BY <2>9, <3>5, <4>3
        <5>3. ~ (n <= p) /\ p \in 0..n /\ p # n
          BY <2>3, <2>4, <2>5, <4>1, <5>2
        <5>4. Len(SubSeq(Listing, 1, p)) = p
          BY <5>3, Firsts DEF n
        <5>5. read # Listing
          BY <2>6, <3>5, <5>3, <5>4
        <5> QED  BY <2>1, <5>1, <5>5
      <4>4. ASSUME read # Listing, ended' # "max_pages"
            PROVE  ended' = "no_total" /\ connector \in ByOffset
        <5>1. p < n /\ at + m < n
          <6>1. ~ (n <= p)
            BY <4>4
          <6> QED  BY <2>3, <2>4, <2>5, <4>1, <6>1
        <5>2. SUFFICES ASSUME total = Len(Listing)
                       PROVE  FALSE
          BY <3>2, <3>5, <4>4 DEF EndOf
        <5>3. ReachedEnd(Items, total)
          BY <3>2, <3>5, <4>4 DEF EndOf
        <5>4. Items # <<>>
          <6>1. m = IF n - at < PageSize THEN n - at ELSE PageSize
            BY <2>3, <3>5
          <6>2. m > 0
            BY <2>3, <2>4, <5>1, <6>1
          <6> QED  BY <2>3, <6>2
        <5>5. ~ (connector \in ByOffset /\ at + m >= total)
          BY <2>3, <2>6, <5>1, <5>2
        <5>6. Last(Items) = Last(Listing)
          BY <5>3, <5>4, <5>5 DEF ReachedEnd, Received, m
        <5>7. m > 0
          BY <2>8, <5>4
        <5>8. Listing[at + m] = Listing[n]
          BY <2>3, <2>6, <5>6, <5>7 DEF Last
        <5>9. at + m \in 1..n /\ n \in 1..n
          BY <2>3, <5>7
        <5>10. /\ Rank(Listing[at + m]) = (at + m) - 1
               /\ Rank(Listing[n]) = n - 1
          <6> DEFINE j == at + m
          <6>1. j \in 1..n
            BY <5>9
          <6> HIDE DEF j
          <6>2. Rank(Listing[j]) = j - 1
            BY <6>1, Listed DEF n
          <6>3. Rank(Listing[n]) = n - 1
            BY <5>9, Listed DEF n
          <6> QED  BY <2>3, <6>2, <6>3 DEF j
        <5>11. (at + m) - 1 = n - 1
          BY <5>8, <5>10
        <5> QED  BY <2>3, <5>1, <5>11
      <4> QED  BY <4>2, <4>3, <4>4
    <3> QED  BY <3>4, <3>5
  <2> QED  BY <2>10, <2>11
<1>4. ASSUME NEW r \in Records, Publish(r) \/ Withdraw(r)
      PROVE  QuietInv' /\ ReadInv'
  <2>1. removed' + inserted' # 0
    <3>1. \/ removed' = removed /\ inserted' = inserted + 1
          \/ removed' = removed + 1 /\ inserted' = inserted
      BY <1>4 DEF Publish, Withdraw
    <3> QED  BY <1>1, <3>1
  <2> QED  BY <2>1 DEF QuietInv, ReadInv
<1> QED  BY <1>2, <1>3, <1>4, FeedSteps

LEMMA InvQuietRead ==
    ASSUME ReadInv
    PROVE  QuietReadIsExact
  BY DEF ReadInv, QuietReadIsExact

-----------------------------------------------------------------------------
LEMMA FeedStarts ==
    ASSUME FeedInit
    PROVE  /\ FeedTypeOK /\ PlaceInv /\ OffsetInv /\ CursorInv
           /\ QuietInv /\ ReadInv
<1>1. /\ received = <<>> /\ at = 0 /\ pages = 0 /\ cursor = 0
      /\ pc = "request" /\ ended = "" /\ status = "running"
      /\ steady = present /\ removed = 0 /\ inserted = 0
  BY DEF FeedInit
<1>2. FeedTypeOK
  <2>1. /\ connector \in Connectors /\ since \in BOOLEAN
        /\ present \in SUBSET Records /\ attempt = 0
    BY DEF FeedInit
  <2>2. /\ 0 \in Nat /\ steady \in SUBSET present
        /\ received \in Seq(Records)
    BY <1>1, EmptySeq
  <2> QED  BY <1>1, <2>1, <2>2 DEF FeedTypeOK
<1>3. Len(received) = 0 /\ DOMAIN received = {} /\ Range(received) = {}
  <2>1. Len(received) = 0
    BY <1>1
  <2>2. DOMAIN received = {}
    BY <1>2, <2>1, ReceivedType
  <2> QED  BY <2>1, <2>2 DEF Range
<1>4. PlaceInv
  <2>1. 0 < MaxPages
    BY DEF ConnectorAssumption
  <2>2. pages < MaxPages /\ at = Len(received)
    BY <1>1, <1>3, <2>1
  <2>3. cursor = IF received = <<>> THEN 0 ELSE Last(received)
    BY <1>1
  <2> QED  BY <1>1, <2>2, <2>3 DEF PlaceInv
<1>5. OffsetInv
  <2>1. Repeats = {} /\ Ahead = {}
    BY <1>3 DEF Repeats, Ahead
  <2>2. Skipped = {}
    <3>1. \A r \in present : Rank(r) \in 0..Cardinality(present) - 1
      BY <1>2, Listed
    <3>2. \A r \in present : ~ (Rank(r) < 0)
      BY <3>1
    <3> QED  BY <1>1, <3>2 DEF Skipped
  <2>3. ended # "end"
    BY <1>1
  <2>4. Cardinality({}) = 0 /\ removed = 0 /\ inserted = 0
    BY <1>1, FS_EmptySet
  <2> QED  BY <2>1, <2>2, <2>3, <2>4 DEF OffsetInv
<1>6. CursorInv
  <2>1. \A r \in steady : ~ (r <= cursor)
    <3>1. \A r \in present : r \in Nat /\ r > 0
      BY <1>2, PresentFinite
    <3>2. \A r \in present : ~ (r <= 0)
      BY <3>1
    <3> QED  BY <1>1, <3>2
  <2> QED  BY <1>1, <1>3, <2>1 DEF CursorInv
<1>7. QuietInv
  <2>1. SubSeq(Listing, 1, 0) = <<>>
    BY SubSeqEmpty, 1 \in Int, 0 \in Int
  <2>2. Len(Listing) \in Nat /\ PageSize \in Nat
    BY <1>2, Listed, PresentFinite DEF ConnectorAssumption
  <2>3. 0 * PageSize = 0 /\ 0 <= Len(Listing)
    BY <2>2
  <2> QED  BY <1>1, <2>1, <2>3 DEF QuietInv
<1>8. ReadInv
  BY <1>1 DEF ReadInv
<1> QED  BY <1>2, <1>4, <1>5, <1>6, <1>7, <1>8

FeedInv ==
    FeedTypeOK /\ PlaceInv /\ OffsetInv /\ CursorInv /\ QuietInv /\ ReadInv

LEMMA FeedInvariant == FeedSpec => []FeedInv
<1>1. FeedInit => FeedInv
  BY FeedStarts DEF FeedInv
<1>2. FeedInv /\ [FeedNext]_feedVars => FeedInv'
  BY FeedTypeStep, PlaceStep, OffsetStep, CursorStep, QuietStep DEF FeedInv
<1> QED  BY <1>1, <1>2, PTL DEF FeedSpec

\* A completed fetch of a source that stands still has yielded what the source
\* lists on the pages asked for, once and in order, whatever the page size, and
\* all of it unless the page limit or a missing total cut it short.
THEOREM QuietReadExact == FeedSpec => []QuietReadIsExact
<1>1. FeedInv => QuietReadIsExact
  BY InvQuietRead DEF FeedInv
<1> QED  BY <1>1, FeedInvariant, PTL

\* Over a source that changes, a fetch by offset misses at most one record for
\* each that vanished and repeats at most one for each that appeared.
THEOREM ChangeCostLittle == FeedSpec => []ChangesCostLittle
<1>1. FeedInv => ChangesCostLittle
  BY InvChangesCostLittle DEF FeedInv
<1> QED  BY <1>1, FeedInvariant, PTL
=============================================================================
