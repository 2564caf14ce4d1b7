# ZeroShield in TLA+

This directory holds the formal model of ZeroShield's backend: TLA+ modules for
the parts that carry its logic, TLC configurations that check them on small
instances, and TLAPS proofs of all their safety properties for every size.
Paths below are relative to `src/src/zeroshield/` unless they start with
`apps/` or `tests/`.

ZeroShield executes defensive experiments on synthetic data. A researcher
writes an experiment in the Studio, a reviewer approves it, a run is queued, a
worker executes a baseline and a mitigated strategy on a dataset, stores
evidence, judges the mitigation and compares it with earlier validations of
the same control. Beside this, an intelligence worker merges vulnerability
feeds into one table and rates the CVEs by how worthwhile an experiment is, and
an analyst asks an external model about them and stores what it answers.

## 1. Inventory

| Part | State it keeps | Operations | What is hard about it |
|---|---|---|---|
| Run submission (`api/routes/experiments.py`, `api/messaging.py`) | job record, queue message, `runs` row, audit event | `submit_run`: four writes to four stores | a failure between any two of them |
| Run worker (`worker/`) | job record, evidence, `runs` row, audit, validation | consume, execute, record, acknowledge | at-least-once delivery, crashes, dropped connections, two workers on one message |
| Execution engine (`services/`, `orchestration/`, `runners/`) | nothing of its own | policy check, two modes, metrics, evidence | the definition and the dataset are read more than once |
| Safety policy (`policies/`) | none | `evaluate`, SAFE-001 to SAFE-004 | must be applied to what is executed |
| Evidence repository (`repositories/`) | run directories, `comparison.json` | save, load, zip | several files, no lock, two backends |
| Run events and stream (`api/routes/jobs.py`, `LiveRunView.tsx`) | `run_events`, the browser's view | record, poll, stream, show | stamps taken before commits; counts as cursors |
| Experiment Studio (`studio/`, `api/routes/studio.py`) | versions, approvals, dataset and experiment files | create, edit, five transitions, run | read-decide-write without locks; one file for all versions |
| Control assurance (`assurance/`, `api/routes/revalidation.py`) | controls, validations, candidates | record, compare, scan, decide | look-then-create in two transactions |
| Verdict and metrics (`verdict/`, `metrics/`) | none | `calculate_metrics`, `compare`, `compute_verdict` | empty groups, errors, thresholds |
| Intelligence sync (`intelligence/`, `worker/intelligence_main.py`) | CVE rows, source records, history, candidates, syncs | sync, import, merge, rate | several transactions per record, redelivery, two writers |
| Authentication (`auth/`, `api/routes/auth.py`) | users, sessions | login, lockout, logout, administration | counts read before a slow check and used after it |
| Connectors (`intelligence/connectors/`) | none | page through a source, try again after an error | page limits, offsets into a changing source |
| Strategies and generators (`strategies/`, `generators/`) | none | decide a request; make a dataset | the generator's idea of a limit and the mitigation's are two constants |
| Analyst (`ai/`, `api/routes/analyst.py`), correlation, effectiveness (`api/routes/controls.py`) | assessments and their reviews | gather context, ask, check, save, review | rows and validations change while the model thinks |
| Sandbox (`sandbox/`) | replaced process-wide functions | execute with guards and a timeout | overlapping calls restore each other's replacements |
| Assets, exports, command line, dashboard, web pages, observability, templates | rows written once, or none | presentation, pure functions, one-row writes | little or no shared state |

The parts meet in four places. The *queue* connects the API with the workers.
The *experiments directory* connects the Studio with discovery, in the API and
in the worker. The *evidence repository* connects the worker with the evidence
routes. *PostgreSQL* is shared by everything else; each repository method opens
a session of its own and commits it, so a handler that makes three calls makes
three transactions. The modules take a repository call as one atomic step, and
go inside it where that matters (the save of a Studio version, the insertion of
a `runs` row).

`PROJECT.json` lists every part with its status and, under `hazards`, the
lines at which something can go wrong that a test hardly reaches.

## 2. Modules

| Module | Models | Extends |
|---|---|---|
| `SafetyPolicy` | the four rules and `evaluate` | |
| `RunJobs` | submission, queue, workers, stores, faults | `SafetyPolicy` |
| `RunJobsProofs` | the theorems about `RunJobs` | `RunJobs`, `TLAPS` |
| `EvidenceStore` | the repository of one experiment, file by file | |
| `EvidenceLedger` | what the repository promises, abstractly | |
| `EvidenceStoreProofs` | the theorems about `EvidenceStore`, and that it implements `EvidenceLedger` | `EvidenceStore`, `TLAPS` |
| `JobEventStream` | one job's events, its stream and the live view | |
| `JobEventStreamProofs` | the theorems about `JobEventStream` | `JobEventStream`, `TLAPS` |
| `ExperimentStudio` | versions, approvals, files, runs of one experiment | |
| `ExperimentStudioProofs` | the theorems about `ExperimentStudio` | `ExperimentStudio`, `TLAPS` |
| `Regression` | verdict labels and `detect_regressions` | |
| `ControlAssurance` | validations and revalidation candidates of one control | `Regression` |
| `Correlation` | `correlate` and `rank_correlations` | |
| `ResearchAnalyst` | the analyst's requests beside the runs and scans of the control | `ControlAssurance`, `Correlation` |
| `ResearchAnalystProofs` | the theorems about `ResearchAnalyst` and `ControlAssurance` | `ResearchAnalyst`, `TLAPS` |
| `Verdict` | metrics, comparison, verdict, as operators | `Regression` |
| `Strategies` | the two baselines and the two mitigations | |
| `Generators` | the two dataset generators | `Strategies` |
| `ValidationRun` | the execution that calls them all | `Verdict`, `Generators` |
| `ValidationRunProofs` | the theorems about `ValidationRun` and the operators it calls | `ValidationRun`, `TLAPS` |
| `Dedup` | `merge` and the source priorities | |
| `Priority` | `classify_domain`, `score`, `label_for_score` | `Dedup` |
| `Normalisation` | which fields each source can fill | |
| `IntelligenceSync` | syncs and imports, transaction by transaction | `Priority`, `Normalisation` |
| `IntelligenceSyncProofs` | the theorems about `IntelligenceSync`, with the lemmas on `merge`, and about `SourceConnectors` | `IntelligenceSync`, `SourceConnectors`, `TLAPS` |
| `SourceConnectors` | one fetch of one source, page by page | |
| `Authentication` | users, sessions, logins and user administration | |
| `AuthenticationProofs` | the theorems about `Authentication` | `Authentication`, `TLAPS` |
| `MC...` | instances for TLC | the module in its name |

Common to all of them:

* **One step per store access.** A handler is a sequence of actions, one per
  write (and per read whose value is used later), with the local variables of
  the handler in a record or function. A trailing write belongs to the handler:
  no other step leads out of its state.
* **Data is abstracted to what the properties tell apart.** Bytes of an artefact
  are the execution they come from, a definition is the five fields the policy
  looks at, a text is the set of vocabularies it hits, a rate is an exact
  fraction, a time is a counter.
* **`Budgets`.** Faults, requests and other events that would make behaviours
  endless are counted, and an event is possible while the counts stay below
  *some* member of the constant `Budgets`. A budget is a combination of events
  that occur together ("a crash and a dropped connection"), so several
  combinations are explored in one run without exploring their product. The
  proofs are for every value of `Budgets`.
* **History variables** (`mishaps`, `requeues`, `endorsed`, `compared`, `lost` of
  `ControlAssurance`, `held`, `gaps`, `rejected`, `hadDomain`, `steady`, `ended`)
  record what happened for the properties; no guard reads them, but for a bound
  on what they count (`removed`, `inserted`).
* **Mutants.** A definition `Mut_X` before `X` is a plausible defect of the code
  behind `X`; `PROJECT.json` says which property refutes it. Nothing uses them.

## 3. The modules and the code

### SafetyPolicy and RunJobs

`submit_run` is `SubmitRun` (the QUEUED record), `PublishRunJob` or
`PublishFails`, `RecordQueuedEvent` (best effort) and `AuditSubmission` (not
guarded, so its failure refuses a request whose job is already queued). Nothing
confirms a publish, so the broker may lose the message of one that returned; and
one that raises may have raised in `close()`, after the message was out. The
broker hands messages over in `Deliver`. `process_run_job` is `RecordRunning`,
then the stages of `run_experiment` and `execute_and_generate_evidence`
(`Prepare`, `CheckSafety`, `RunBaseline`, `RunStage`, `SaveBaseline`,
`SaveMitigation`, `SaveComparison`), with the exits `ExperimentNotFound`,
`Refuse` and `ExecutionRaises`, then `RecordOutcome`, `EmitOutcome`,
`AuditOutcome`, `RecordValidation` and `Acknowledge`. `ProcessingRaises` is what
`process_run_job` does not catch: a job record write that raises, and
`find_experiment`, which stands before its `try`, when a file of the directory
vanishes before it is read or is no UTF-8. `handle_message_body` swallows the
exception and the message is acknowledged. The environment is `Crash`,
`Restart`, `LoseConnection` (the heartbeat is missed during a long execution;
the worker keeps working and its acknowledgement fails) and `ChangeCatalog` (an
experiment file is edited). The history variable `mishaps` has the jobs that met
one of the three events a job does not survive: a message lost by the broker, an
exception of `ProcessingRaises`, and a connection dropped while a worker had the
job.

The number of a delivery stands for the pair of run ids that this delivery
draws from the clock. Different jobs are different uuids.

### EvidenceStore and EvidenceLedger

`save_run_evidence` is `CheckRunDir` and, per artefact, `OpenArtefact` and
`WriteArtefact`; on MinIO a put is one step. `save_comparison` is
`OpenComparison` and `SaveComparison`. `load_latest_evidence` reads in the order
of `ReadOrder`; `download_evidence_bundle` loads the view, records the audit
event and zips what is on disk then, file by file (`ZipComparison`, `ZipRuns`).
`ReadFails` is a MinIO error other than "not found", which is raised again.
`Die` stops an execution anywhere. Stamps are given by the constant `Stamp`, and
executions may share one: the directory check refuses the later of two unless
both pass it before either has written. An execution is `Alone` while no other
one with its stamp has passed the check.

`EvidenceLedger` is the promise: executions become complete as a whole, and a
read returns as a whole the run that was latest when it began. A store whose
files are not replaced atomically (the local one) may in addition lose the
pointer to the latest run, and executions that collided in one directory drop out
of the ledger. The refinement mapping is in `EvidenceStore`.

### JobEventStream

`record_event` is `BeginEvent` (the stamp), `FindRow` (the look for the `runs`
row) and `CommitEvent` (which fails when the row has appeared in between) or
`LoseEvent` (the database fails, and the caller goes on). A delivery is
`StartJob`, the stages (`RecordStage`), `FinishJob` (the outcome in the job
record), `RecordFinal` (its event) and `Acknowledge`, or `Raise` at one of the
calls whose exception is swallowed. `Die` gives the message back; `LoseConnection`
does so too while the worker goes on, so that two of `Workers` stamp, commit and
write the job record side by side. The API records QUEUED in any order with them.
The stream is `ListEvents` (the slice `events[seen:]`) and `CheckStatus` (the job
record, the poll limit); `FetchJob` and `Reconnect` are the browser's.

### ExperimentStudio

Each route is a `Begin...` step (read, checks, the new record), the steps of
`_materialise_dataset` for a creation, `Load` and `Commit` of `save_version`,
`AppendDecision`, `OpenFile` and `WriteFile` for an approval, and `Audit`.
`save_version` loads the row again and SQLAlchemy writes only the columns that
differ from this load, under READ COMMITTED and without a lock; `Column` says
which value each column of the row ends with. A row whose `status` and
`approval_status` disagree fails validation at every read: `Readable`.
`Execute` is the worker's look for the experiment and the policy's answer;
`ScanRaises` is the look that raises, which leaves the job running.

### ControlAssurance

A completed run looks for the rows of the control and its version and inserts
them (`GetRow`, `InsertRow`), takes its time (`Stamp`), records
(`record_validation`), reads the last two validations of the version and compares
them (`Compare`), and looks for and creates a candidate (`FindRegression`,
`CreateRegression`). A scan goes through `ScanOrder` with `Look`, `Find` and
`Create`. `Raise` is a candidate by hand, and a decision is its check,
`update_candidate_status` and `AuditDecision`.

### ResearchAnalyst and Correlation

A request is `Ask` (the row of the vulnerability and what the route makes of it,
one operator per route) or `explain_regression` (the control's validations);
then, where the route has one, the read of the candidates of a correlation
(`ReadCandidates`) or of the last stored classification (`ReadPattern`); then
`Answer` or `NoAnswer`, and `save_assessment`. The model is external and may
name anything that fits the schema, known or invented; `Accepted` is the route's
check of the answer against what was supplied. Beside the requests, `Sync`
changes the domain of a row, and the actions of `ControlAssurance` record
validations. A review is `mark_assessment_reviewed` and `AuditReview`. The table
of text similarities is a constant, as difflib is a library.

### SourceConnectors

A fetch is a loop of `Fetch` steps: a page is received (`Arrive`; `received` has
the entries of all pages, `Yielded` the records of them that are handed on), an
attempt fails and a wait follows, or the fetch ends with the end of the listing,
the page limit, an answer without a total, or an error. Some errors are
`ConnectorFetchError` (the sync fails) and some are not, which leaves the sync
running: an answer that does not parse (`Unparsable`), and a total that is no
number (`BadTotal`), which is looked at after the page has been handed on. NVD
and EPSS ask for an offset, GitHub follows a cursor, CISA has one document, from
which the connector selects by date. Records appear and vanish between the
pages.

### Strategies, Generators, Verdict and ValidationRun

A strategy is a sequence of checks joined by "or", each of which passes, fails or
raises; a request is what the checks look at. A generator makes the sequence of
cases of a configuration; what it draws at random is a parameter.
`calculate_metrics`, `compare` and `compute_verdict` are operators over exact
fractions. `ValidationRun` has the two reads of the dataset file
(`load_test_set`, `RunnerLoad`), the cases one by one in both modes, `Analyse`
and `Judge`. A case with an input is decided by `process`, the strategy of its
mode; a dataset without inputs stands for any strategy, and its cases have any
outcome or an exception. Case ids are numbers, and results are matched with
expectations by id, as in `calculate_metrics`: what the runner read is scored
against what the orchestrator read, and a case that the first read did not have
fails the run. Python computes with floats: no group in a dataset without inputs
has more than three scored cases, and for such denominators none of the compared
values is near enough to a threshold for the difference to matter. It does matter
for larger datasets (see section 7).

### Dedup, Priority, Normalisation and IntelligenceSync

`merge` is an operator on a row and a contribution; fields that follow one rule
stand for one another. `run_sync` is, per record, `FetchRecord` (or
`FetchAdvisory`, `FetchMalformed`), `GetAndMerge`, `upsert_vulnerability` in its
two steps, `LoadRow` and `CommitRow`, `upsert_source_record`, `append_history`
and `UpsertProductsAndCount`; then `EndOfFeed` and, per touched CVE,
`ReadTouched`, `LoadRow` and `CommitRow` again for the domain,
`UpsertCandidate`; then `SaveFinal` and `Ack`. A commit has the columns in which
the merged row differs from the one just loaded (`Saved`), not those in which it
differs from the one that was merged. The other repository calls
(`upsert_source_record`, candidates, advisories, products) are one step each.
`Outage` is the early return on a source error, `Refuse` an unexpected error
that is swallowed, `Collide` the insertion of a row that another writer has
inserted since; after both the message is acknowledged. `Crash` gives it back,
and so does `LoseConnection`, after which the worker goes on and fails only at
its acknowledgement: `Workers` are several, and two may have the same sync.
`StartImport` is a workbook import, which merges in the same way and does not
rate. `Normalisation` says which fields a source can fill; the assumption on
`Contributions` rests on it.

### Authentication

A login is its look-up (`login`, with `LoginKind` for the early exits), `Load`
and `Commit` of `record_login_failure` or `record_login_success`, then
`delete_expired_sessions` and `create_session` for a success, and `Audit` (with
`AuditLock` for a lock). The look-up's failure count decides the lock
(`LockUntil`), which is counted from a moment between the look-up and the load;
the count stored is one more than the one loaded. Every other request is
authorised from its session (`Presentable`, `Admin`) in the step that begins it,
and goes on from there: `logout` with `delete_session`, `create_user` with
`InsertUser`, `update_user_role` and `set_user_active` with `Load` and `Commit`.
As in the Studio, an update has the columns that differ from the load. A
password is right or wrong; a token is its session; `create-admin` has run
before the API serves.

## 4. Runs

Twelve configurations, each a question of its own. TLC explores all of the
reachable states of each; times are of two workers on a small machine.

| Run | Question | Size |
|---|---|---|
| `RunJobsTwoJobs` | Two jobs (one per execution context), one worker, pairs of faults: is only what the policy allows executed, and is a published job lost only by a mishap of its own? | 2.6 M states, 2 min |
| `RunJobsTwoWorkers` | One job, two workers, a crash beside a dropped connection, a second crash or an exception: does everything that names a run have its evidence, are finished records left alone, does a job settle? | 0.90 M, 2 min |
| `RunJobsStranded` | Violation: a job can be left running with no message and no worker | 8 k |
| `Evidence` | Three executions, two of them with one stamp, and a reader, on local files or MinIO, dying anywhere: are run directories immutable, bundles of one run, and does the repository implement the ledger? | 0.23 M, 1 min |
| `EventStream` | One job and two workers, delivered again or raising, or with a dropped stream and a lost event: what can a viewer miss, does the final view tell the truth, does a stream end? | 2.4 M, 3 min |
| `Studio` | Sequential requests that fail, overlapping requests, two versions: is what runs what was approved? | 0.96 M, 1 min |
| `Assurance` | Three runs, two workers, a scan, outside events, decisions, and analyst requests beside syncs: are regressions real and none missed, does an assessment name what exists? | 0.46 M, 1 min |
| `Intelligence` | Two syncs or imports, on one worker or two, three records, every fault: do history, rows and ratings agree? | 0.67 M, 1.5 min |
| `IntelligencePriority` | Violation: the source with the higher priority does not decide | 5 k |
| `Connectors` | Four connectors, a source that changes between pages, errors and retries: what can a fetch miss or repeat, and does it end? | 0.24 M, 1.5 min |
| `Verdict` | All outcomes of five cases in two modes, a file that changes between its two reads, generated datasets and single requests: is the verdict monotone and grounded, and does the mitigation do what the generators expect? | 4.1 M, 2 min |
| `Authentication` | Two users, three requests at a time, logins that overlap, fail and expire, administration: do failures lock, do locks hold, does a deactivation bind? | 0.68 M, 2 min |

### What the properties say

* `EvidenceWasAllowed`: the policy holds of the definition that was *executed*,
  although the file is read when the worker starts, may have changed since the
  submission, and a message may be processed repeatedly.
* `CompletedHasEvidence`, `DownstreamBacked`: completed records and rows,
  comparison pointers, audit events and validations name runs with both bundles.
* `RewrittenOnlyAfterRequeue`: one delivery records at most one outcome.
* `PublishedNotLost`, `EventuallySettled`: crashes, failing database writes and what
  befalls other jobs cost repetitions or a failed run, never the job. A job that
  met a mishap of its own is left out, one by one: the message lost, the exception
  swallowed, the connection dropped. In each of them the promise is false, and the
  runs reach them all (for the last see `NoStrandedJob`).
* `EvidenceStays`: from the moment an execution that is alone in its directories
  has written a file, no execution passes their check any more, whatever stamp
  it draws, and the file stays. `BundleHasRuns`: a bundle zipped file by file
  holds both runs as a whole. `ImplementsLedger`: a read of several files
  behaves as one atomic read on both backends. The one condition of all three is
  that no two executions passed one check before either had written: then they
  do overwrite each other.
* `FewAreMissed`: a listed event was skipped only if another process stamped a
  later one before the next of its own; one at most while one worker records.
  `ClosedViewIsFinal`: a view closed by `job_terminal` shows the outcome, of a
  message that was delivered once: a second delivery records RUNNING over it.
  `StreamEnds`: with the outcome or by the time limit.
* `RunsAreEndorsed`: what the directory offers as approved, and what ran, was
  read word for word and approved by a reviewer who did not create it (or an
  admin), *however requests overlap*. `AuditIsBacked`: audit events claim only
  what happened. `RowsKeepLifecycle`: for requests that do not overlap, rows can
  be read, statuses follow the lifecycle and content past draft stays.
* `RegressionsAreReal`: whatever the order of workers, a regression candidate
  rests on two recorded validations of one version of which the later is worse.
  `EveryPairCompared`, `OnePending` for one worker; `ScanRaisesDue` for a scan
  among concurrent changes; `KnownControlKeepsValidation`: only a control's
  first runs can lose a validation to an insert conflict.
* `ExplainedIsRaised`: the analyst's and the worker's idea of the current version
  and of a regression agree: what one explains the other has raised.
  `NamesAreReal`: whatever changes while the model thinks, an assessment names
  templates, vulnerabilities and patterns that exist and fit its subject.
* `QuietReadIsExact`: a completed fetch of a source that stands still has
  yielded what the source lists on the pages that were asked for, once and in
  order, *however it ended*; it has asked for all of them unless the page limit
  stopped it or an answer by offset came without a total. So a fetch that is
  recorded as completed may be incomplete in these two cases, and in no other.
  `ChangesCostLittle`: a fetch by offset that came to the end misses at most one
  record per record that vanished and repeats at most one per record that
  appeared; one by cursor neither. `FetchEnds`.
* `HistoryWasTrue`: the history never claims a value the row did not have,
  whatever overlaps or crashes. `TrackedFieldsReplay`: replaying it gives the
  fields whose changes `merge` records, except those of a merge that stopped
  between the row and its history. The other fields (`vendor`, `published_at`,
  `last_modified_at`, `domain_guess`, `kev_known_ransomware`, the percentile and
  date of the EPSS score, the united sets) have no history at all, contrary to
  `intelligence/dedup.py:8`; no property can be stated of their replay.
  `RatingsAreCurrent` as its comment says. `NoneForgotten`: neither crashes nor
  dropped connections lose a sync. `OnlyReplacedIsLost`: what is known is lost
  only to what replaces it; the percentile goes with its score, though what
  replaces it may be nothing, and a domain with the text. All but
  `HistoryWasTrue` and `NoneForgotten` are for writers that do not overlap.
* `VerdictIsMonotone`: getting one more case right never costs a better verdict,
  and a weaker baseline never hurts. `FavourableHasEvidence`: a favourable
  verdict rests on a blocked malicious and an accepted valid case, so an empty
  group never counts as perfect. `ScoredAsExecuted`: what ran is among what the
  first read had, case by case, and all of it unless the file changed.
* `LabelsMatchMitigation`: a generated case expects what the mitigation does,
  except at a configured limit that is not the enforced one.
  `PerfectIsEffective`: so the platform's mitigation is judged effective on its
  own datasets, given enough cases of both kinds. `MitigationStopsMore`: what a
  baseline stops, for any reason, the mitigation stops.
* `LockIsNear`: as many wrong passwords in a row as are allowed, plus one for
  each request that began beside another, and the account is locked, with at
  most one such request from the last of them for the whole duration.
  `LockedOut`: a lock is neither lifted nor shortened and gives no session;
  `RevokedAtOnce`: administration is by whoever is an active admin at that
  moment. The last two for requests that do not overlap. The bound of
  `LockIsNear` counts all the overlaps there have been, so that it weakens over
  a long history; the promise is about a history with few of them.

### Bounds, and why they are enough

* **RunJobs.** Interference needs two workers on one message or two jobs on one
  worker; more workers add no new pair of steps. A job is executed again after
  each crash, and a second crash covers the redelivery of a redelivery. The
  definitions are an approved one, a draft and one the policy refuses in every
  context; the second job is in the context in which a draft is allowed.
* **EvidenceStore.** A reader can be overtaken twice with three executions, and one
  with half a run is among them. Two of the three draw one stamp: a third
  would collide with them as they collide with each other. Two executions in one
  directory are followed while one of them is within its first `MaxShared` = 2 files
  (the constraint `FewShared`): they write later files like the second one, no
  property speaks of what they share, and the third has a directory of its own.
  `Readers` do not write anything another reads.
* **JobEventStream.** `MaxPolls` is 2 instead of 300: a stream sees a history
  twice with a change in between and reaches its limit; a later poll depends on
  the previous ones only through `seen`. Without faults there are up to eight
  events, which is all six stages, the outcome and QUEUED; with a death, a dropped
  connection or an exception four, as the second worker repeats what the first did;
  with a lost event and a dropped stream five. Two workers, as three could only do
  what two of them do.
* **ExperimentStudio.** Budgets count creations, edits, other requests, overlaps
  and failures: (1,2,5,0,1), (1,1,5,1,0) and (2,0,5,1,0). Five transitions take
  a version through review, approval and retirement or back to draft; two
  request slots, as a stale write needs one reader and one writer. One person
  changes roles, one is an admin.
* **ControlAssurance.** Three grades, so that a control can regress twice. Budgets
  count runs, overlaps, scans, outside events, candidates by hand, decisions and
  failures: (3,0,0,0,0,1,0) with an explanation, (3,1,0,0,0,0,1), (1,0,1,2,0,1,0),
  (2,0,1,1,0,1,0), (2,0,1,1,1,0,0).
  `kev_state_change` stands for the four triggers that look at related CVEs:
  they differ in the table they look at, not in what follows.
* **ResearchAnalyst.** Budgets count requests, syncs and reviews: (2,1,0), (1,2,0),
  (1,0,2). Two requests, as the second may be handed the pattern of the first.
  Three vulnerabilities, of which two are listed (200 in the code) and one is
  ranked (10), so that both limits cut something off.
* **SourceConnectors.** Seven records, pages of two and at most three pages: a
  listing ends within a page, with a page or beyond the last one. Two changes
  are enough to shift an offset both ways; one retry is one more than none.
* **IntelligenceSync.** Two CVEs, ten contributions of five sources that fill,
  replace, omit and contradict fields, a workbook's EPSS score without percentile
  among them. Budgets count requests, overlaps (and collisions), records, malformed
  records, outages, refused calls, crashes and dropped connections:
  (2,0,3,1,0,0,0,0), (2,0,3,0,1,0,0,0), (2,0,2,0,0,1,0,0), (2,0,3,0,0,0,1,0) for one
  writer at a time, (2,1,2,0,0,0,1,0) for two at once, and (1,1,2,0,0,0,1,1) for one
  sync that two workers have. Priorities and weights have the values of the code.
* **ValidationRun.** Five cases are the minimum for a verdict, four the number
  below it. A strategy accepts, blocks or raises; a slow block of 500 ms makes
  one such case in five hit the bound of 100 ms exactly. The file may change to
  one with other ids, or one whose ids agree in part. Generated datasets have
  zero, one, two or three cases of a kind (the lists that are gone through have
  at most three words) and limits at, below and above the enforced ones, two
  draws (0 and 500), and one limit below the length of a path's prefix. Single
  requests take every combination of the values around each check, of missing
  fields and of fields that raise.
* **Authentication.** Two attempts are allowed instead of five, so that a lock, its
  expiry and the next lock fit into five logins; a lock lasts one tick and a
  session two, so that each can expire before the other. Budgets count logins,
  other requests, overlaps, failures and ticks: (5,0,2,0,1), (4,0,1,1,2),
  (2,3,0,1,2), (2,2,1,0,0). Two of the four roles, as only `admin` is told apart;
  two sessions, so that an older one outlives a newer login; three requests, as
  a lock that one of them leaves to another can be shortened by a third.

Deadlock is not checked (`CHECK_DEADLOCK FALSE`): when the budgets are used up
and every request is served, the system waits, which it may. That nothing waits
*wrongly* is what `PublishedNotLost`, `NoneForgotten` and the three liveness
properties say. Symmetry is used over values no definition tells apart, and in
no run with a liveness property.

### Fairness

`RunJobs!FairSpec`: a running worker goes on, because its consumer loop does
nothing else, and the broker delivers a waiting message to an idle consumer. A
restart is not assumed: the worker container has no restart policy. Instead
`EventuallySettled` has the hypothesis that some worker is up again and again.
`JobEventStream!FairSpec`: only the stream's coroutine is fair; the job may stall.
`SourceConnectors!FairFeedSpec`: the fetch goes on, as each request has a timeout and each
wait between attempts ends. The timeout of httpx is one per read
(`intelligence/connectors/http.py:26`), so that this takes for granted that a source
does not send its answer byte by byte for ever.

## 5. Proofs

Eight modules hold theorems. `RunJobsProofs` and its like are named for the
module they are about; the theorems about `ControlAssurance` are in
`ResearchAnalystProofs`, since they are proved of the composition, in which the
analyst works beside the workers and scans, and those about `SourceConnectors` are in
`IntelligenceSyncProofs`, as a fetch is what supplies a sync. Every theorem is for all values
of the constants that satisfy the assumptions of the module: any number of jobs,
workers, requests, versions, syncs or CVEs, and any budgets of faults. In the
runs the assumptions hold of the values in the configurations.

| Module | Theorem | Statement |
|---|---|---|
| `RunJobsProofs` | `TypeCorrect` | `Spec => []TypeOK` |
| | `GateHolds` | `Spec => []EvidenceWasAllowed` |
| | `CompletedBacked` | `Spec => []CompletedHasEvidence` |
| | `ReferencesBacked` | `Spec => []DownstreamBacked` |
| | `RewriteNeedsRequeue` | `Spec => RewrittenOnlyAfterRequeue` |
| | `NotLost` | `Spec => []PublishedNotLost` |
| `ExperimentStudioProofs` | `TypeCorrect` | `Spec => []TypeOK` |
| | `RunsEndorsed` | `Spec => []RunsAreEndorsed` |
| | `AuditBacked` | `Spec => []AuditIsBacked` |
| | `LifecycleKept` | `Spec => RowsKeepLifecycle` |
| `EvidenceStoreProofs` | `BundleWhole` | `Spec => []BundleHasRuns` |
| | `EvidenceKept` | `Spec => EvidenceStays` |
| | `ImplementsTheLedger` | `Spec => ImplementsLedger` |
| `JobEventStreamProofs` | `TypeCorrect` | `Spec => []TypeOK` |
| | `ClosedIsFinal` | `Spec => []ClosedViewIsFinal` |
| | `FewMissed` | `Spec => []FewAreMissed` |
| `AuthenticationProofs` | `TypeCorrect` | `Spec => []TypeOK` |
| | `LockNear` | `Spec => []LockIsNear` |
| | `Revoked` | `Spec => []RevokedAtOnce` |
| | `LockKept` | `Spec => LockedOut` |
| `IntelligenceSyncProofs` | `TypeCorrect` | `Spec => []TypeOK` |
| | `HistoryTrue` | `Spec => []HistoryWasTrue` |
| | `NoSyncForgotten` | `Spec => []NoneForgotten` |
| | `HistoryReplays` | `Spec => []TrackedFieldsReplay` |
| | `RatingsCurrent` | `Spec => []RatingsAreCurrent` |
| | `LostToReplacement` | `Spec => OnlyReplacedIsLost` |
| | `QuietReadExact` | `FeedSpec => []QuietReadIsExact` |
| | `ChangeCostLittle` | `FeedSpec => []ChangesCostLittle` |
| `ResearchAnalystProofs` | `TypeCorrect` | `AnalystSpec => []TypeOK` |
| | `KnownKept` | `AnalystSpec => []KnownControlKeepsValidation` |
| | `RegressionsReal` | `AnalystSpec => []RegressionsAreReal` |
| | `OneIsPending` | `AnalystSpec => []OnePending` |
| | `DueRaised` | `AnalystSpec => []ScanRaisesDue` |
| | `PairsCompared` | `AnalystSpec => []EveryPairCompared` |
| | `OnlyRealNames` | `AnalystSpec => []NamesAreReal` |
| | `ExplainedRaised` | `AnalystSpec => []ExplainedIsRaised` |
| `ValidationRunProofs` | `TypeCorrect` | `Spec => []TypeOK` |
| | `StopsMore` | `Spec => []MitigationStopsMore` |
| | `EvidenceForFavour` | `Spec => []FavourableHasEvidence` |
| | `ScoredExecuted` | `Spec => []ScoredAsExecuted` |
| | `MonotoneVerdict` | `Spec => []VerdictIsMonotone` |
| | `LabelsMatch` | `Spec => []LabelsMatchMitigation` |
| | `PerfectEffective` | `Spec => []PerfectIsEffective` |

Almost none of these properties is inductive as it stands. The parts of each
strengthening are defined at the end of the module they are about, where
TLC checks them on the instances of the runs too; each part has a lemma saying
that every step keeps it, with one step per action.

### RunJobs

* `WorkerInv` ties a worker's locals to its step: a busy worker has a job and a
  delivery number, from the policy check on its snapshot is an allowed one, and
  it has an outcome exactly where the code has one. Without it, a bundle could
  be saved from a snapshot nobody checked. It is proved together with the types,
  because the type of a bundle depends on the type of a snapshot.
* `SavedInv` says which bundles a worker has saved by the step it is at. Evidence
  only grows (`EvidenceGrows`), so that another worker cannot take it away;
  `CompletedHasEvidence` and `DownstreamBacked` follow step by step.
* `UnpublishedInv`: nothing happens to a job before it is published.
* `FirstDeliveryInv`: a message that was never taken back has one copy
  (`Exclusive`), and a terminal record means that this copy is past its record
  step. This is what makes `RewrittenOnlyAfterRequeue` true of the *next* step.
* `ConnectedInv` and `HandoverInv`: of a job without mishaps the copies stay
  exclusive across crashes, its workers are connected, and one past the record
  step has left a terminal record. `MishapsGrow` carries the condition backwards
  over a step, as a mishap is never forgotten.

`FrameStep` says once, for all actions, which step changes which variable; the
lemmas about evidence cite it instead of going through every action again.

### ExperimentStudio

* `RouteInv`: a request is at a step its route has, and a row once found exists
  for ever.
* `EndorsedInv`: an approved definition is endorsed *wherever it is*, in a row, in
  the file, in the record a request is about to save and in what ran. The last
  two are needed because `save_version` writes a record that was made from an
  earlier read. `Column` mixes three records; the proof rests on
  `approval_status` and the content being written by the same rule, so that a row
  that ends up approved has the content its approver read.
* `BackedInv`: a request about to audit has logged or queued what it will claim.
* `SequentialInv`, for `RowsKeepLifecycle`: without overlaps at most one request
  is under way, and what it read still holds.

### EvidenceStore and the ledger

* `StartedInv`: a mitigation directory is written after the baseline's, so that the
  check of the baseline directory keeps an execution out of both.
* `WriterInv`: a directory holds what its own execution has written so far, in
  order, as long as that execution is alone in it (`Alone`), whatever stamps are
  drawn. With `StartedInv` it stays alone from its first file on: whoever comes
  later finds that file and is refused. This is what `EvidenceStays` says, and
  what makes the invariant inductive.
* `PointerInv`: the comparison is of a complete execution, and whole on MinIO.
* `ReaderInv`: what a reader has so far are parts of one complete execution.
  `BundleInv`: a bundle has the first files of that execution, as many as were
  zipped.

`ImplementsTheLedger` is a step simulation: the initial states map to initial
states of `EvidenceLedger`, and each action maps to a step or a stutter (the
check that a second execution passes in one directory maps to `Collide`). The
read is atomic at its beginning, when the reader reads the pointer, although it
reads ten files after that; this is sound because directories of complete
executions do not change.

### JobEventStream

* `OwnerInv`: until a connection is dropped, only the worker that has the
  message works.
* `FinalInv`: the stream ends on an outcome, and until the message comes back
  nothing follows one.
* `StampInv`: stamps are unique, the API records one event, and each process commits
  its events in the order of its stamps; all workers together do so until a
  connection is dropped.
* `ListInv` and `MissedInv`: what a process committed since the last listing is
  newer than what that found of the process. When it is older than a listed
  event of another, the next one of the process is not; so a slice by count
  skips an event only if another process stamped a later one before the next of
  its own.
* `SingleInv` and `OneInv`: with one worker at a time the QUEUED event is the
  only one that can appear *before* others, and once a slice has skipped one of
  the worker's no further can follow.

### Authentication

* `StepInv`: which kinds of request come to a step, and what they hold there.
* `SequentialInv` gives `RevokedAtOnce` and `LockedOut`: without overlaps there is
  one request at a time, and what it has read is so.
* `LagInv` bounds how far the stored count lags behind the failures recorded. A
  pending request beside another may still cost one failure, so the bound is
  not the number of overlaps but what pending requests have left of it (`Slack`).
* `LateInv`: what a failure that is about to be recorded, and the lock that it
  read, say of the lock as it is.

An earlier form of `LockIsNear` promised the whole lock duration whatever the
overlaps. Its proof failed at a request that finds the lock it wants already
there, and does not write it, while a third one shortens it; TLC with three
request slots found the behaviour. The property now promises the whole
duration for at most one overlap, and the run has three slots.

### IntelligenceSync

* `EquippedInv` and `EmployedInv`: a sync or import has what its step needs.
  `HeldInv`: every value a row has, and every value of a loaded row that a
  commit may leave in place, was held, so that a history entry about to be
  written is of a row that was stored. They hold however writers overlap, and
  give `HistoryWasTrue`.
* `TokenInv`: the message of a sync is in one place, the queue or the one worker
  that can acknowledge it, and this one has its result before it does. A worker
  whose connection dropped does not carry it any more. It gives `NoneForgotten`.
* `LoneInv`: without overlaps, what the one writer holds is what the row is, so that
  the difference of columns is the merge itself, and the ratings of the CVEs it has
  been through are current. A worker that lost its connection counts as a writer
  still, and the redelivery beside it as an overlap.
* `ExplainInv`: without overlaps, the history gives every tracked field without
  a gap its value, but for those that the writer is about to append.

The lemmas on `merge` (each field is that of the row or that of the
contribution, and a known one is given up only for a value that replaces it, or with
the score it belongs to) and on `classify_domain` are proved
once, from the assumption on what a source can fill (`Normalised`).

### SourceConnectors

* `PlaceInv`: the cursor is at the last entry received, the offset is their number,
  and a fetch under way has pages left.
* `OffsetInv` is the argument for NVD and EPSS. A record's rank is the number of
  records listed before it. `Skipped` are the records that have been listed all
  the time and were not received although their rank is below the offset;
  `Ahead` are those that were received and have a rank beyond it again. A
  record that vanishes moves at most one record below the offset
  (`WithdrawSkips`), one that appears moves at most one beyond it
  (`PublishAhead`), and what a page repeats was ahead before (`OffsetPage`). So
  repeats and records ahead *together* stay below the number that appeared; the
  bound on the repeats alone is not inductive.
* `CursorInv`: a cursor goes through the records in their order, so that nothing at
  or below it is missed or comes again.
* `QuietInv` and `ReadInv`: what has been received of a source that stands still
  is the beginning of its listing.

`Listing` chooses, for each position, the record of that rank. That it exists
(`RankOnto`) is proved by counting: ranks are a one-to-one map of a finite set
into as many numbers.

### ControlAssurance and ResearchAnalyst

* `Aside`: a step of the analyst leaves the assurance record alone. Each lemma
  on `ControlAssurance` is proved for its own actions, and for `Aside` in one line.
* `RealInv`: what a worker is about to raise is a regression already. `KnownInv`:
  a run that completed when the rows were there never comes to an insertion.
* `AloneInv` turns the counters into what they mean (no overlap counted: one
  worker at a time); `PendingInv`: between the look for a pending candidate and
  its creation none appears. `DueInv`: what was due is due until the scan comes
  to it.
* `OrderInv`, `PairInv` and `RaisedInv`: one worker records validations in the
  order of their stamps (`StampInv`), so that only the newest can be waiting for
  its comparison, and a regression that was found is raised or about to be.
  Validations are a finite set ordered by stamps; that a version has a last but one
  is a lemma about finite sets, proved without induction over data.
* `SuppliedInv`: what a request is going to supply, the pattern it was handed and
  the names in its answer are real whatever becomes of the rows. It can be kept
  because the history variable `hadDomain` only grows (`Grown`).
* `ExplainedInv`: a pair that is or will be explained is a regression between
  consecutive validations.

Two assumptions are of the proof's making, both facts of the code: the value for
an unknown domain is none of the domains, and every domain pack has failure patterns
(`domain_packs/base.py:26`, `min_length=1`).

### ValidationRun

* `ReadInv`, `ProgressInv`: the two reads returned test sets of the experiment, and
  the results of a mode that is done are those of the cases that the runner read, id
  by id.
* `DecidedInv`: a result is the decision of the domain's strategy on the request.
  `VpnStops` and `TelecomStops` then compare the weak and the strict strategy
  check by check, for every request.
* `JudgedInv`: the verdict is the one on these results. Then `FavourableHasEvidence`
  is arithmetic: a rate that is above its threshold has a numerator.
* `MonotoneVerdict` compares two executions of `compare`. A rate is a number of
  hits in hits and misses (`RatesAre`), one more case right raises the hits and
  not the sum (`RatesFollow`), and fractions with different denominators are
  compared crosswise (`NoLess`, from `TimesMonotone` and `TimesCancel`). The mean
  latency is a sum over a function from case ids to latencies, so that it does not
  depend on which cases were right.
* `LabelsMatch` and `PerfectEffective` are for every configuration (`ConfigsOf`)
  and every draw of the generators: each piece of a generated sequence has cases
  that are decided as they expect (`VpnFits`, `TelecomFits`), and so have their
  concatenation and every order of it (`Fits`, `AllFit`). `GeneratedAssumption`
  ties a test set that names a configuration to what the generator makes of it.
  A mitigation that is right in every case then has rates of one and an
  improvement of at least the threshold (`SumOfZeros`: a sum of zeros is zero, by
  the least position at which it would not be).

### Left to TLC, and why

* Liveness (`EventuallySettled`, `StreamEnds`, `FetchEnds`): beyond this prover.
* `Correlation` and `Priority` beyond what the theorems above use: their sums over
  sequences would need induction over data.

## 6. Findings

* **A job can be stranded** (`RunJobsStranded`, `worker/processor.py:214`). A
  worker whose connection was dropped goes on; the message is delivered again
  and the second worker finishes and acknowledges; the first rewrites the
  finished record to running and dies. The record stays running, no message is
  left. `tests/integration/test_v2_release_acceptance.py:677` says that reprocessing
  a job id is safe.
* **The first source keeps a field** (`IntelligencePriority`,
  `intelligence/dedup.py:98`). `merge` takes NVD to own every shared field that
  has a value, so that no later source replaces it, not even NVD itself; the
  module's text says that the source with the higher priority decides.

## 7. Known limits of the code that the model shows

These are consequences of what the code does, met while stating the
properties; each is why a property has the condition it has.

* **Runs.** A finished record is rewritten when its message is delivered again.
  A run executes without a submission audit event when that write fails. A job
  record write that fails leaves the job as it was for ever, and so does the
  look for the experiment when a catalogue file vanishes before it is read or is
  no UTF-8 (`experiments/discovery.py:44`): it stands before the `try` of
  `process_run_job`, so that the record stays running, although
  `worker/main.py:120` says that every known failure leaves a terminal status. A
  message that the broker loses before it is stored leaves a job queued for
  ever; a `close()` that raises refuses a request whose job will run.
* **Evidence.** Two executions with one millisecond stamp that pass the
  directory check before either has written overwrite each other's artefacts,
  contrary to `repositories/evidence_repository.py:9`. An execution that dies
  while it writes `comparison.json` locally leaves an unreadable file until the
  next run. A bundle's `comparison.json` may be of a newer run than its
  directories. On MinIO the bundle is empty, as it is zipped from the local
  directory.
* **Stream.** The last events are cut off when the poll that finds the job ended
  is quick. A late QUEUED event can be skipped, and after a dropped connection,
  when two workers record side by side, several events can. A view that was
  closed with the outcome of a first delivery is not told of the second.
* **Studio.** Overlapping saves lose updates, or mix two records into a row that
  no read accepts. An edit that read the draft and is saved after the submission
  changes the content, and the status with it, although `studio/builder.py:14`
  says that anything past draft is immutable; it never reaches a run unapproved
  (`RunsAreEndorsed` holds with overlaps). Two creations can take one version
  number. All versions share a file, so a run may execute another approved
  version. A file or dataset half-written by a dead process stays; a dataset is
  then taken for complete. A file of the directory that is no UTF-8 leaves the
  runs that are started meanwhile running for ever.
* **Assurance.** Overlapping scans, or candidates by hand, give duplicates, and
  the look for a pending candidate then raises. Overlapping workers can leave a
  pair of validations uncompared. An insert conflict costs a first run its
  validation. Of two decisions on one candidate the later stays.
* **Analyst.** A classification of a vulnerability without a domain accepts any
  pattern. The latest classification is handed to later prompts whether or not it
  was reviewed, although `ai/provider.py:20` says that nothing is accepted as fact
  without review. A recommended template may be for a domain the vulnerability no
  longer has. An explanation does not say which validations it is about. Of two
  reviews the last reviewer is named. Only the 200 rows updated last are
  candidates of a correlation. difflib's ratio depends on the order of its
  arguments, so that `correlate` need not be symmetric.
* **Connectors.** A fetch that stopped at the page limit, or for want of a
  total, is recorded as completed. An answer whose content cannot be decoded,
  one of GitHub that is no JSON, or a total of NVD or EPSS that is no number,
  leaves the sync running, in the last case with the page merged. Timeouts are
  per read, so that a source that answers byte by byte holds the worker. A
  record that vanishes shifts the following ones across the offset, and one of
  them is missed.
* **Generators.** The limits of a generated dataset are free, those of the
  mitigation are constants, although `generators/vpn_generator.py:5` says that the
  expectations reflect the mitigation. A dataset without valid or without malicious
  cases makes a perfect mitigation ineffective.
* **Intelligence.** Two writers lose updates, or mix two records into a row that
  neither merged; of two that insert a CVE the second fails, and its sync stays
  running. A crash between row and history leaves a gap that a redelivery does not
  close. Changes of `vendor`, `published_at`, `last_modified_at`, `domain_guess`,
  `kev_known_ransomware`, `cvss_vector`, `cvss_version`, `epss_percentile`,
  `epss_date` and of the united sets leave no history entry, although
  `intelligence/dedup.py:8` says that every field-level change is recorded. A record
  with an EPSS score and no percentile or date, as a workbook has it, erases those
  that are known, although `intelligence/dedup.py:59` says that missing data never
  overwrites known data. After an outage, or a change of domain, old ratings stay.
  After an unexpected error the sync stays running. A worker that loses its
  connection goes on beside the one that gets the sync next.
  A total just below a threshold is shown rounded to it with the lower label.
* **Verdict.** Cases that raise are left out of the rates and counted in the
  minimum, so that one scored case can carry a verdict. The improvement is a
  difference of floats (`0.6 - 0.5 < 0.1`), so that a mitigation exactly at a
  threshold may be judged one grade lower. The label for a regression is never
  produced, as no caller passes an earlier comparison. The dataset is read twice.
* **Authentication.** A success whose look-up came first clears a lock recorded
  meanwhile. Of overlapping failures only one may be counted, at every overlap
  anew. A request authorised before a deactivation completes after it.
  Reactivation revives sessions that have not expired. The last admin can demote
  or deactivate himself. After a lock has expired, one failure locks again.

## 8. Not modelled

* The sandbox: no other code uses it. Its guards replace process-wide functions,
  so that only a model with overlapping calls would say something.
* The asset inventory writes one row per request; no rule relates two of them.
* Templates and domain packs are tables registered at import time; only what the
  analyst reads of them is modelled. Schemas and database models are shapes.
* The command line, the dashboard, the exports and the web pages (other than the
  live run view) present what the services return; observability is read by no
  decision.
* Parsing of feeds and workbooks is abstracted to the fields a source can fill,
  prompts and prose to the identifiers they name.

`PROJECT.json` has the list.

## 9. Plan

Done, in this order: the run pipeline, evidence, event stream,
Studio, assurance, intelligence, verdicts, authentication, strategies and
generators, connectors, correlation and the analyst; then the proofs, component by
component. Next:

1. **Proofs** about the operators `correlate` and `score`, as far as they go without
   induction over data.
2. **Sandbox**: overlapping calls and the restoring of replaced functions.
