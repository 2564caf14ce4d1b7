-------------------------- MODULE IntelligenceSync --------------------------
(***************************************************************************)
(* Threat-intelligence syncs: a request queues a sync of one source, the   *)
(* intelligence worker merges what the source delivers into the CVE rows,  *)
(* record by record, and rates the touched CVEs again; a workbook import   *)
(* merges in the same way, without rating.                                 *)
(*                                                                         *)
(* Each repository call is a transaction of its own; upsert_vulnerability  *)
(* is two steps, since what it writes depends on the row it loads.  A      *)
(* worker that dies leaves its message to be delivered again, and so does  *)
(* one that loses its connection and works on; an error that nothing       *)
(* anticipates is swallowed and the message acknowledged.                  *)
(***************************************************************************)
EXTENDS Priority, Normalisation

CONSTANTS
    CVEs,
    Syncs,          \* requests for a sync
    Workers,        \* the intelligence workers
    Imports,        \* workbook imports
    Contributions,  \* the normalised records that sources can deliver
    Advisories,     \* advisories without a CVE
    Covered,        \* CVEs that an experiment file cites
    Budgets         \* the combinations of bounded events of a behaviour

Procs == Workers \cup Imports

\* What Budgets bounds: syncs and imports, those that begin while another is
\* under way, records, those that do not normalise, outages of a source,
\* refused calls, inserts of a row that exists by now, crashes, and
\* connections that drop.
BoundedEvents ==
    {"request", "overlap", "record", "malformed", "outage", "error",
     "collision", "crash", "drop"}

ASSUME SyncAssumption ==
    /\ \A c \in Contributions :
         /\ c.cve \in CVEs /\ c.source \in Sources
         /\ c.kev_listed \in BOOLEAN
         /\ Normalised(c, None)
         /\ {c.description, c.vendor} \subseteq Texts \cup {None}
    /\ Covered \subseteq CVEs
    /\ Workers \cap Imports = {}
    /\ None \notin Syncs
    /\ Budgets \subseteq [BoundedEvents -> Nat]

VARIABLES
    rows,        \* rows[v]: the merged view of CVE v, or None
    records,     \* the source records: what each source last said of a CVE
    history,     \* the rows of vulnerability_history
    products,    \* the affected products of CVEs
    advisories,  \* the vendor advisories
    candidates,  \* the rows of validation_candidates
    syncs,       \* syncs[s]: the row of sync s, or None
    queue,       \* messages that wait for a worker
    audited,     \* syncs in the audit trail
    proc,        \* proc[p]: how far a sync or import is
    clock,       \* the time
    held,        \* history: every value a field of a row ever had
    gaps,        \* history: <<v, f>>: the history misses a change of field f
    spent        \* spent[k]: bounded events of kind k so far

tables == <<rows, records, history, products, advisories, candidates>>
ghosts == <<held, gaps>>
vars == <<tables, syncs, queue, audited, proc, clock, ghosts, spent>>
-----------------------------------------------------------------------------
Counts == {"fetched", "created", "updated", "unchanged", "failed"}
NoCounts == [k \in Counts |-> 0]

\* A worker or an import without a record.
Idle(pc) ==
    [pc |-> pc, sync |-> None, lost |-> FALSE, source |-> None,
     n |-> NoCounts, touched |-> {}, todo |-> {}, cve |-> None, input |-> None,
     row |-> None, base |-> None, fields |-> {}, new |-> FALSE, at |-> 0]

Init ==
    /\ rows = [v \in CVEs |-> None]
    /\ records = {}
    /\ history = {}
    /\ products = {}
    /\ advisories = {}
    /\ candidates = {}
    /\ syncs = [s \in Syncs |-> None]
    /\ queue = {}
    /\ audited = {}
    /\ proc = [p \in Procs |-> Idle("waiting")]
    /\ clock = 0
    /\ held = {}
    /\ gaps = {}
    /\ spent = [k \in BoundedEvents |-> 0]

Spend(K) ==
    /\ spent' = [k \in BoundedEvents |-> spent[k] + IF k \in K THEN 1 ELSE 0]
    /\ \E b \in Budgets : \A k \in BoundedEvents : spent'[k] <= b[k]

\* Whoever is between two transactions of run_sync or import_and_merge.
Working == {"feed", "get", "upsert", "commit", "source", "history",
            "products", "rate", "guess", "settle", "candidate", "ack"}
Active == {p \in Procs : proc[p].pc \in Working}

Overlap == IF Active = {} THEN {} ELSE {"overlap"}

Goto(p, pc) == proc' = [proc EXCEPT ![p].pc = pc]

SyncRow(source, status, n) == [source |-> source, status |-> status, n |-> n]
-----------------------------------------------------------------------------
(* POST /intelligence/sync: the row, the message, the audit event. *)

\* A publication that fails, or that the broker loses, leaves a queued row that
\* nobody takes up; one may also fail after the message was sent.  The worker
\* does not wait for the audit event.
submit_sync(s, source) ==
    /\ syncs[s] = None
    /\ source # "manual_import"
    /\ syncs' = [syncs EXCEPT ![s] = SyncRow(source, "queued", NoCounts)]
    /\ \E published, logged \in BOOLEAN :
         /\ Spend({"request"}
                    \cup IF published /\ logged THEN {} ELSE {"error"})
         /\ queue' = queue \cup IF published THEN {s} ELSE {}
         /\ audited' = audited \cup IF logged THEN {s} ELSE {}
    /\ UNCHANGED <<tables, proc, clock, ghosts>>
-----------------------------------------------------------------------------
(* The intelligence worker, run_sync; and import_and_merge, which runs the *)
(* same transactions for every row of a workbook.                          *)

Started(source) == [Idle("feed") EXCEPT !.source = source]

Deliver(w, s) ==
    /\ proc[w].pc = "waiting"
    /\ s \in queue
    /\ Spend(Overlap)
    /\ queue' = queue \ {s}
    /\ syncs' = [syncs EXCEPT ![s] = SyncRow(@.source, "running", NoCounts)]
    /\ proc' = [proc EXCEPT ![w] =
                  [Started(syncs[s].source) EXCEPT !.sync = s]]
    /\ UNCHANGED <<tables, audited, clock, ghosts>>

StartImport(i) ==
    /\ proc[i].pc = "waiting"
    /\ Spend({"request"} \cup Overlap)
    /\ proc' = [proc EXCEPT ![i] = Started("manual_import")]
    /\ UNCHANGED <<tables, syncs, queue, audited, clock, ghosts>>

Count(n, K) == [k \in Counts |-> n[k] + IF k \in K THEN 1 ELSE 0]

\* A record that normalises.  A vendor advisory is stored before the CVE.
FetchRecord(p, c) ==
    /\ proc[p].pc = "feed"
    /\ c.source = proc[p].source
    /\ Spend({"record"})
    /\ proc' = [proc EXCEPT ![p].pc = "get", ![p].input = c, ![p].cve = c.cve,
                            ![p].n = Count(@, {"fetched"})]
    /\ advisories' = advisories \cup
         IF c.source = "github_advisory" THEN {c.cve} ELSE {}
    /\ UNCHANGED <<rows, records, history, products, candidates, syncs, queue,
                   audited, clock, ghosts>>

\* An advisory without a CVE is stored and counts as unchanged.
FetchAdvisory(p, a) ==
    /\ proc[p].pc = "feed"
    /\ proc[p].source = "github_advisory"
    /\ Spend({"record"})
    /\ proc' = [proc EXCEPT ![p].n = Count(@, {"fetched", "unchanged"})]
    /\ advisories' = advisories \cup {a}
    /\ UNCHANGED <<rows, records, history, products, candidates, syncs, queue,
                   audited, clock, ghosts>>

\* A record that does not normalise, or a merged view that does not validate:
\* the advisory with that CVE has then been stored.
\* An importer counts its malformed rows apart.
FetchMalformed(w) ==
    /\ proc[w].pc = "feed"
    /\ Spend({"record", "malformed"})
    /\ proc' = [proc EXCEPT ![w].n = Count(@, {"fetched", "failed"})]
    /\ advisories' \in {advisories} \cup
         IF proc[w].source = "github_advisory"
         THEN {advisories \cup {v} : v \in CVEs} ELSE {}
    /\ UNCHANGED <<rows, records, history, products, candidates, syncs, queue,
                   audited, clock, ghosts>>

\* Mutant: the history is written before the row.
Mut_FollowedBy == [get |-> "history", history |-> "upsert",
                   commit |-> "source", source |-> "products"]

\* The order of the transactions for one record.
FollowedBy == [get |-> "upsert", commit |-> "source", source |-> "history",
               history |-> "products"]

\* get_vulnerability, and merge with what it returned.
GetAndMerge(p) ==
    /\ proc[p].pc = "get"
    /\ LET q        == proc[p]
           existing == IF rows[q.cve] = None THEN Blank ELSE rows[q.cve]
       IN proc' = [proc EXCEPT ![p] =
            [q EXCEPT !.pc = FollowedBy.get, !.at = clock + 1,
                      !.row = merge(existing, q.input),
                      !.fields = Changes(existing, q.input),
                      !.new = rows[q.cve] = None]]
    /\ clock' = clock + 1
    /\ UNCHANGED <<tables, syncs, queue, audited, ghosts, spent>>

\* The two steps of upsert_vulnerability, for a merged row and for a domain.
AfterLoad == [upsert |-> "commit", guess |-> "settle"]
AfterCommit == [commit |-> FollowedBy.commit, settle |-> "candidate"]

LoadRow(p) ==
    /\ proc[p].pc \in DOMAIN AfterLoad
    /\ proc' = [proc EXCEPT ![p].base = rows[proc[p].cve],
                            ![p].pc = AfterLoad[@]]
    /\ UNCHANGED <<tables, syncs, queue, audited, clock, ghosts, spent>>

\* A new row is inserted; of a row that was loaded, the columns that are to
\* differ are set, and the others keep what they hold by now.
Saved(row, base, now) ==
    IF base = None THEN row
    ELSE [f \in DOMAIN Blank |-> IF row[f] = base[f] THEN now[f] ELSE row[f]]

CommitRow(p) ==
    /\ proc[p].pc \in DOMAIN AfterCommit
    /\ LET q   == proc[p]
           row == Saved(q.row, q.base, rows[q.cve])
       IN /\ q.base # None \/ rows[q.cve] = None
          /\ rows' = [rows EXCEPT ![q.cve] = row]
          /\ held' = held \cup {[cve |-> q.cve, field |-> f, value |-> row[f]] :
                                  f \in TrackedFields}
    /\ Goto(p, AfterCommit[proc[p].pc])
    /\ UNCHANGED <<records, history, products, advisories, candidates, syncs,
                   queue, audited, clock, gaps, spent>>

upsert_source_record(p) ==
    /\ proc[p].pc = "source"
    /\ LET c == proc[p].input
       IN records' = {r \in records : r.cve # c.cve \/ r.source # c.source}
            \cup {[cve |-> c.cve, source |-> c.source,
                   said |-> [f \in SharedFields |-> c[f]]]}
    /\ Goto(p, FollowedBy.source)
    /\ UNCHANGED <<rows, history, products, advisories, candidates, syncs,
                   queue, audited, clock, ghosts, spent>>

append_history(p) ==
    /\ proc[p].pc = "history"
    /\ LET q == proc[p]
       IN /\ history' = history \cup
               {[cve |-> q.cve, field |-> f, new_value |-> q.row[f],
                 observed_at |-> q.at] : f \in q.fields}
          /\ gaps' = gaps \ {<<q.cve, f>> : f \in q.fields}
    /\ Goto(p, FollowedBy.history)
    /\ UNCHANGED <<rows, records, products, advisories, candidates, syncs,
                   queue, audited, clock, held, spent>>

\* The products, if there are any; then the record is counted.
UpsertProductsAndCount(p) ==
    /\ proc[p].pc = "products"
    /\ LET q == proc[p]
           outcome == IF q.new THEN "created"
                      ELSE IF q.fields # {} THEN "updated" ELSE "unchanged"
       IN /\ products' = products \cup
               IF q.input.product = None THEN {}
               ELSE {<<q.cve, q.input.product>>}
          /\ proc' = [proc EXCEPT ![p] =
               [Started(q.source) EXCEPT
                  !.sync = q.sync, !.lost = q.lost,
                  !.n = Count(q.n, {outcome}),
                  !.touched = q.touched \cup {q.cve}]]
    /\ UNCHANGED <<rows, records, history, advisories, candidates, syncs,
                   queue, audited, clock, ghosts, spent>>

\* The feed ends.  An import rates nothing.
EndOfFeed(p) ==
    /\ proc[p].pc = "feed"
    /\ proc' = [proc EXCEPT ![p].pc = IF p \in Imports THEN "done" ELSE "rate",
                            ![p].todo = proc[p].touched]
    /\ UNCHANGED <<tables, syncs, queue, audited, clock, ghosts, spent>>
-----------------------------------------------------------------------------
(* Rating the touched CVEs, in any order. *)

\* get_vulnerability and classify_domain; a new domain is written back.
ReadTouched(w, v) ==
    /\ proc[w].pc = "rate"
    /\ v \in proc[w].todo
    /\ LET d == classify_domain(rows[v]).domain
       IN proc' = [proc EXCEPT ![w].cve = v,
            ![w].todo = @ \ {v},
            ![w].row = [rows[v] EXCEPT !.domain_guess = d],
            ![w].pc = IF rows[v].domain_guess = d THEN "candidate"
                      ELSE "guess"]
    /\ UNCHANGED <<tables, syncs, queue, audited, clock, ghosts, spent>>

\* Mutant: the old rating stays beside the new one.
Mut_Replace(old, new) == {old, new}

\* upsert_validation_candidate: one row for a CVE and a domain.
Replace(old, new) ==
    IF old.cve = new.cve /\ old.rating.domain = new.rating.domain THEN {new}
    ELSE {old}

Rating(v, row) == [cve |-> v, rating |-> CandidateOf(row, v \in Covered)]

Rateable(k) == k.rating.support_status # "unsupported"

UpsertCandidate(w) ==
    /\ proc[w].pc = "candidate"
    /\ LET k == Rating(proc[w].cve, proc[w].row)
       IN candidates' =
            IF Rateable(k)
            THEN {k} \cup UNION {Replace(c, k) : c \in candidates}
            ELSE candidates
    /\ Goto(w, "rate")
    /\ UNCHANGED <<rows, records, history, products, advisories, syncs, queue,
                   audited, clock, ghosts, spent>>
-----------------------------------------------------------------------------
(* The end of a sync. *)

FinalStatus(n) ==
    IF n.fetched = 0 \/ n.failed = 0 THEN "completed"
    ELSE IF n.failed < n.fetched THEN "partial"
    ELSE "failed"

SaveSync(q, status) ==
    syncs' = [syncs EXCEPT ![q.sync] = SyncRow(q.source, status, q.n)]

SaveFinal(w) ==
    /\ proc[w].pc = "rate"
    /\ proc[w].todo = {}
    /\ SaveSync(proc[w], FinalStatus(proc[w].n))
    /\ Goto(w, "ack")
    /\ UNCHANGED <<tables, queue, audited, clock, ghosts, spent>>

\* ConnectorFetchError: nothing is rated, whatever was merged before.
Outage(w) ==
    /\ proc[w].pc = "feed"
    /\ Spend({"outage"})
    /\ SaveSync(proc[w], "failed")
    /\ Goto(w, "ack")
    /\ UNCHANGED <<tables, queue, audited, clock, ghosts>>

\* What is left of p when it stops: a worker waits for its next message, or
\* is started again.
Stopped(p) == Idle(IF p \in Imports THEN "done" ELSE "waiting")

\* The acknowledgement of a worker without its connection raises: it dies.
Ack(w) ==
    /\ proc[w].pc = "ack"
    /\ proc' = [proc EXCEPT ![w] = Stopped(w)]
    /\ UNCHANGED <<tables, syncs, queue, audited, clock, ghosts, spent>>

\* The changes the history misses if p stops now.
Gap(p) == IF proc[p].pc \in {"source", "history"}
          THEN {<<proc[p].cve, f>> : f \in proc[p].fields} ELSE {}

\* A call is refused: the exception is swallowed and the message
\* acknowledged, or it ends the import.
Refuse(p) ==
    /\ p \in Active
    /\ Spend({"error"})
    /\ gaps' = gaps \cup Gap(p)
    /\ proc' = [proc EXCEPT ![p] = Stopped(p)]
    /\ UNCHANGED <<tables, syncs, queue, audited, clock, held>>

\* The insert of a row that another writer has inserted by now is refused too.
Collide(p) ==
    /\ proc[p].pc = "commit"
    /\ proc[p].base = None /\ rows[proc[p].cve] # None
    /\ Spend({"collision"})
    /\ proc' = [proc EXCEPT ![p] = Stopped(p)]
    /\ UNCHANGED <<tables, syncs, queue, audited, clock, ghosts>>

\* Mutant: the message is taken off the queue when it is delivered.
Mut_Requeued(q) == {}

\* A message that was not acknowledged is delivered again.
Requeued(q) == IF q.lost THEN {} ELSE {q.sync} \cap Syncs

Crash(p) ==
    /\ p \in Active
    /\ Spend({"crash"})
    /\ gaps' = gaps \cup Gap(p)
    /\ queue' = queue \cup Requeued(proc[p])
    /\ proc' = [proc EXCEPT ![p] = Stopped(p)]
    /\ UNCHANGED <<tables, syncs, audited, clock, held>>

\* The connection drops while the worker is busy, for want of heartbeats: the
\* message is delivered again, and the worker does not notice.
LoseConnection(w) ==
    /\ w \in Active
    /\ ~proc[w].lost
    /\ Spend({"drop"})
    /\ queue' = queue \cup Requeued(proc[w])
    /\ proc' = [proc EXCEPT ![w].lost = TRUE]
    /\ UNCHANGED <<tables, syncs, audited, clock, ghosts>>

Merge(p) ==
    \/ \E c \in Contributions : FetchRecord(p, c)
    \/ GetAndMerge(p) \/ LoadRow(p) \/ CommitRow(p) \/ Collide(p)
    \/ upsert_source_record(p) \/ append_history(p)
    \/ UpsertProductsAndCount(p) \/ EndOfFeed(p)

Rate(w) ==
    \/ \E v \in CVEs : ReadTouched(w, v)
    \/ UpsertCandidate(w) \/ SaveFinal(w) \/ Ack(w)

Next ==
    \/ \E s \in Syncs, source \in Sources : submit_sync(s, source)
    \/ \E w \in Workers :
         \/ \E s \in Syncs : Deliver(w, s)
         \/ \E a \in Advisories : FetchAdvisory(w, a)
         \/ FetchMalformed(w) \/ Outage(w) \/ Rate(w) \/ LoseConnection(w)
    \/ \E i \in Imports : StartImport(i)
    \/ \E p \in Procs : Merge(p) \/ Refuse(p) \/ Crash(p)

Spec == Init /\ [][Next]_vars
-----------------------------------------------------------------------------
(* Properties. *)

Terminal == {"completed", "partial", "failed"}

Alone == spent["overlap"] = 0

\* get_vulnerability_as_of, at the present: the newest recorded value.
Latest(G, f) ==
    IF G = {} THEN Blank[f]
    ELSE (CHOOSE h \in G :
            \A g \in G : g.observed_at <= h.observed_at).new_value

AsOfNow(H, v, f) == Latest({h \in H : h.cve = v /\ h.field = f}, f)

\* What get_vulnerability_as_of answers for the present is what the row says,
\* of the fields that merge records: those that TrackedFields names, not every
\* field, as dedup.py:8-9 has it.  A writer that stopped between the row and its
\* history leaves wrong only the fields it was changing, and those only until
\* their next recorded change.  Writers that overlap are left out.
TrackedFieldsReplay ==
    Alone => \A v \in CVEs :
        (rows[v] # None /\ \A p \in Active : proc[p].cve = v =>
                               proc[p].pc \notin {"source", "history"})
            => \A f \in TrackedFields : \/ <<v, f>> \in gaps
                                       \/ AsOfNow(history, v, f) = rows[v][f]

\* The history never claims a value the row did not have, whoever crashes and
\* however writers overlap.
HistoryWasTrue ==
    \A h \in history :
        [cve |-> h.cve, field |-> h.field, value |-> h.new_value] \in held

\* When several sources supply a field, the row has the value of the source
\* with the highest priority.
PriorityDecides ==
    (Alone /\ Active = {}) =>
        \A r \in records, f \in SharedFields :
            (/\ r.said[f] # None
             /\ \A o \in records : (o.cve = r.cve /\ o.said[f] # None) =>
                    SourcePriority[r.source] <= SourcePriority[o.source])
                => rows[r.cve][f] = r.said[f]

\* When a sync comes to its end, every CVE it touched has the domain its text
\* calls for and one rating in that domain, computed from the row as it is.
RatingsAreCurrent ==
    Alone => \A w \in Workers : \A v \in proc[w].touched :
        (proc[w].pc = "rate" /\ proc[w].todo = {}) =>
            LET k == classify_domain(rows[v])
            IN /\ rows[v].domain_guess = k.domain
               /\ k.support_status = "unsupported" \/
                    {c \in candidates : c.cve = v /\ c.rating.domain = k.domain}
                      = {Rating(v, rows[v])}

\* Whether the message of sync s is with the worker whose state is q.
Carries(q, s) == q.pc \in Working /\ q.sync = s /\ ~q.lost

\* A sync without a result waits in the queue or is with a worker, through
\* crashes, outages and dropped connections, unless a call was refused or the
\* insert of a row that another writer had inserted: handle_message_body then
\* swallows the error and the sync stays as it is.
NoneForgotten ==
    \A s \in Syncs :
        (/\ syncs[s] # None /\ syncs[s].status \notin Terminal
         /\ spent["error"] = 0 /\ spent["collision"] = 0)
            => s \in queue \/ \E w \in Workers : Carries(proc[w], s)

\* What is known of a CVE gets lost only to what replaces it, while writers do
\* not overlap: no description, score, vendor, relevance or KEV date becomes
\* unknown, no source is forgotten and no KEV listing withdrawn.  The percentile
\* (and date) of an EPSS score is given up only with the score, and a record
\* that has a score of its own but no percentile leaves none, although "missing
\* data never overwrites known data" (dedup.py:59-60); and the domain changes
\* only to the one that the text calls for, which may be none.
OnlyReplacedIsLost ==
    [][Alone' => \A v \in CVEs : rows[v] # None =>
         /\ \A f \in SharedFields \cup LatestFields \cup {"kev_due_date"} :
              rows[v][f] # None => rows'[v][f] # None
         /\ rows[v].sources \subseteq rows'[v].sources
         /\ rows[v].kev_listed => rows'[v].kev_listed
         /\ rows'[v].epss_percentile = rows[v].epss_percentile
              \/ \E c \in Contributions :
                   /\ c.cve = v /\ c.epss_score # None
                   /\ rows'[v].epss_score = c.epss_score
                   /\ rows'[v].epss_percentile = c.epss_percentile
         /\ rows'[v].domain_guess = rows[v].domain_guess
              \/ rows'[v].domain_guess = classify_domain(rows'[v]).domain]_vars
-----------------------------------------------------------------------------
(***************************************************************************)
(* The inductive invariants that IntelligenceSyncProofs proves.            *)
(***************************************************************************)

\* What some source can say of field f, or nothing.
Supplied(f) == {c[f] : c \in Contributions} \cup {None}

Vulnerabilities ==
    [description : Supplied("description"), cvss_score : Supplied("cvss_score"),
     vendor : Supplied("vendor"), epss_score : Supplied("epss_score"),
     epss_percentile : Supplied("epss_percentile"),
     zero_click_relevance : Supplied("zero_click_relevance"),
     kev_listed : BOOLEAN, kev_due_date : Supplied("kev_due_date"),
     published_at : Supplied("published_at"),
     last_modified_at : Supplied("last_modified_at"),
     domain_guess : Domains \cup {None}, sources : SUBSET Sources]

SyncRows == [source : Sources, status : {"queued", "running"} \cup Terminal,
             n : [Counts -> Nat]]

ASSUME NoRowAssumption == None \notin Vulnerabilities \cup SyncRows

ProcStates ==
    [pc : Working \cup {"waiting", "done"}, sync : Syncs \cup {None},
     lost : BOOLEAN, source : Sources \cup {None}, n : [Counts -> Nat],
     touched : SUBSET CVEs, todo : SUBSET CVEs, cve : CVEs \cup {None},
     input : Contributions \cup {None}, row : Vulnerabilities \cup {None},
     base : Vulnerabilities \cup {None}, fields : SUBSET TrackedFields,
     new : BOOLEAN, at : Nat]

TypeOK ==
    /\ rows \in [CVEs -> Vulnerabilities \cup {None}]
    /\ \A h \in history : /\ h.cve \in CVEs /\ h.field \in TrackedFields
                          /\ h.observed_at \in Nat
    /\ \A c \in candidates : c.cve \in CVEs
    /\ syncs \in [Syncs -> SyncRows \cup {None}]
    /\ queue \subseteq Syncs
    /\ proc \in [Procs -> ProcStates]
    /\ clock \in Nat
    /\ gaps \subseteq CVEs \X TrackedFields
    /\ spent \in [BoundedEvents -> Nat]

\* What a writer in state q has to hand, with rows R.
Equipped(q, R) ==
    /\ q.pc \in {"get", "upsert", "commit", "source", "history", "products"} =>
         q.input \in Contributions /\ q.cve = q.input.cve
    /\ q.pc \in {"upsert", "commit", "source", "history", "guess", "settle",
                 "candidate"} => q.row # None
    /\ q.pc \in {"source", "history", "products", "guess", "settle",
                 "candidate"} => q.cve \in CVEs /\ R[q.cve] # None
    /\ q.pc = "settle" => q.base # None
    /\ q.pc = "commit" /\ q.base # None => R[q.cve] # None
    /\ q.todo \subseteq q.touched
    /\ \A v \in q.touched : R[v] # None

EquippedInv == \A p \in Procs : Equipped(proc[p], rows)

\* A worker that is at work has a sync and its source, and an import has none.
Employed(q, S) ==
    q.sync # None /\ q.source \in Sources /\ S[q.sync] # None

EmployedInv ==
    /\ \A w \in Workers : proc[w].pc \in Working => Employed(proc[w], syncs)
    /\ \A i \in Imports : proc[i].sync = None

Holds(H, v, f, x) == [cve |-> v, field |-> f, value |-> x] \in H

\* Every value of a row has been held, the ones that a writer has loaded too,
\* and those that its history entry is about.
HeldInv ==
    /\ \A v \in CVEs : rows[v] # None =>
         \A f \in TrackedFields : Holds(held, v, f, rows[v][f])
    /\ \A p \in Procs, f \in TrackedFields :
         /\ (proc[p].pc \in {"commit", "settle"} /\ proc[p].base # None) =>
              Holds(held, proc[p].cve, f, proc[p].base[f])
         /\ proc[p].pc \in {"source", "history"} =>
              Holds(held, proc[p].cve, f, proc[p].row[f])

\* The message of a sync is in one place, and with none before the request;
\* a worker that is about to acknowledge it has saved the result.
TokenInv ==
    /\ \A s \in queue : syncs[s] # None
    /\ \A w \in Workers, s \in Syncs : Carries(proc[w], s) =>
         /\ s \notin queue
         /\ \A o \in Workers \ {w} : ~Carries(proc[o], s)
         /\ proc[w].pc = "ack" => syncs[s].status \in Terminal

\* The row of v, or what is known of a CVE without one.
KnownIn(v, R) == IF R[v] = None THEN Blank ELSE R[v]

\* v has the domain and the rating that its row calls for.
RatedIn(v, R, C) ==
    /\ R[v].domain_guess = classify_domain(R[v]).domain
    /\ classify_domain(R[v]).support_status = "unsupported" \/
         {c \in C : c.cve = v /\ c.rating.domain = classify_domain(R[v]).domain}
           = {Rating(v, R[v])}

\* What a writer in state q has read is still so, with rows R, history H and
\* candidates C.
UpToDate(q, R, H, C, now) ==
    /\ q.pc \in {"upsert", "commit"} =>
         /\ q.row = merge(KnownIn(q.cve, R), q.input)
         /\ q.fields = Changes(KnownIn(q.cve, R), q.input)
    /\ q.pc \in {"commit", "settle"} => q.base = R[q.cve]
    /\ q.pc \in {"source", "history", "candidate"} => q.row = R[q.cve]
    /\ q.pc \in {"upsert", "commit", "source", "history"} =>
         q.at <= now /\ \A h \in H : h.observed_at < q.at
    /\ q.pc \in {"guess", "settle"} =>
         q.row = [R[q.cve] EXCEPT
                    !.domain_guess = classify_domain(R[q.cve]).domain]
    /\ q.pc = "candidate" => q.row.domain_guess = classify_domain(q.row).domain
    /\ q.pc \in {"rate", "guess", "settle", "candidate"} =>
         \A v \in q.touched \ q.todo :
             q.pc = "rate" \/ v # q.cve => RatedIn(v, R, C)

ActiveIn(P) == {p \in Procs : P[p].pc \in Working}

LoneIn(P, R, H, C, now) ==
    /\ \A h \in H : h.observed_at <= now
    /\ \A p \in ActiveIn(P) : /\ \A o \in ActiveIn(P) : o = p
                              /\ UpToDate(P[p], R, H, C, now)

LoneInv == Alone => LoneIn(proc, rows, history, candidates, clock)

\* Without overlap, the history gives every field the value it has, but for
\* the gaps and the fields that a writer is about to append.
ExplainIn(P, R, H, G) ==
    \A v \in CVEs, f \in TrackedFields :
        \/ <<v, f>> \in G
        \/ AsOfNow(H, v, f) = KnownIn(v, R)[f]
        \/ \E p \in ActiveIn(P) : /\ P[p].cve = v /\ f \in P[p].fields
                                  /\ P[p].pc \in {"source", "history"}

ExplainInv == Alone => ExplainIn(proc, rows, history, gaps)
=============================================================================
