------------------------------- MODULE RunJobs -------------------------------
(***************************************************************************)
(* The asynchronous run pipeline: the API handler that submits a run, the  *)
(* durable RabbitMQ queue, the worker processes that execute it, and the   *)
(* stores they write: the job records, the run row with its last event,    *)
(* the audit trail, the control validations, the evidence and the          *)
(* per-experiment comparison pointer.                                      *)
(*                                                                         *)
(* Every write to a store is a step of its own, because a worker may die,  *)
(* or lose its broker connection, between any two of them; the broker then *)
(* gives the unacknowledged message to the next consumer.                  *)
(*                                                                         *)
(* Job ids are uuids, so a job stands for one request: its experiment and  *)
(* execution context are the constant Request[j].  A delivery of a job's   *)
(* message is numbered; the number stands for the pair of run ids that the *)
(* execution of this delivery draws from the millisecond clock.            *)
(***************************************************************************)
EXTENDS Naturals, FiniteSets, SafetyPolicy

CONSTANTS
    Jobs,         \* job ids, one per POST /experiments/{id}/runs
    Workers,      \* worker processes (python -m zeroshield.worker)
    Experiments,  \* experiment ids
    Definitions,  \* the experiment definitions a file may hold
    Request,      \* Request[j]: the experiment and context of job j
    NoJob,        \* a worker with no message
    NoFile,       \* the experiments directory holds no valid file
    Budgets       \* the combinations of faults that a behaviour may have

\* The faults the code is written against, each bounded by Budgets.
FaultKinds ==
    {"crash",       \* a worker process dies
     "connection",  \* the broker drops a worker's connection mid-processing
     "publish",     \* a publish raises, or the broker loses the message
     "database",    \* one PostgreSQL write fails
     "store",       \* one JobStore write fails
     "catalog"}     \* the experiments directory changes under the system

ASSUME ConstantsAssumption ==
    /\ NoJob \notin Jobs
    /\ NoFile \notin Definitions
    /\ Definitions \subseteq ExperimentDefinitions
    /\ Request \in [Jobs -> [experiment_id : Experiments,
                             execution_context : ExecutionContexts]]
    /\ Budgets \subseteq [FaultKinds -> Nat]

VARIABLES
    catalog,      \* catalog[e]: what experiments/*.json says about e
    api,          \* api[j]: where the request handler of j is
    status,       \* status[j]: JobStore status of j
    result,       \* result[j]: the delivery whose run ids the record names; 0 if none
    ready,        \* jobs whose message is in the queue, deliverable
    deliveries,   \* deliveries[j]: deliveries of j so far
    requeues,     \* requeues[j]: times the broker took j's message back
    pc,           \* pc[w]: the step worker w is at
    cur,          \* cur[w]: the job w works on
    attempt,      \* attempt[w]: the number of that delivery
    snapshot,     \* snapshot[w]: the definition w read when it started
    outcome,      \* outcome[w]: how the execution ended
    connected,    \* connected[w]: the broker still counts w as a consumer
    evidence,     \* the evidence bundles saved so far
    comparison,   \* comparison[e]: the run comparison.json of e is about
    row,          \* row[j]: current_status of the runs table
    audit,        \* the audit trail
    validations,  \* the control validations recorded
    faults,       \* faults[k]: faults of kind k so far
    mishaps       \* history: the jobs that met one of the three mishaps below

apiVars    == <<api>>
brokerVars == <<ready, deliveries, requeues, connected>>
jobVars    == <<status, result>>
workVars   == <<pc, cur, attempt, snapshot, outcome>>
dataVars   == <<evidence, comparison>>
trailVars  == <<row, audit, validations>>
vars == <<catalog, apiVars, jobVars, brokerVars, workVars, dataVars,
          trailVars, faults, mishaps>>
-----------------------------------------------------------------------------
Terminal == {"completed", "denied", "failed"}
JobStatuses == {"none", "queued", "running"} \cup Terminal

\* The stages of an execution that emit a run event, in pipeline order.
Stages == {"preparing", "safety_check", "running_baseline",
           "running_mitigation", "analysing", "generating_evidence"}
RunEventTypes == {"queued"} \cup Stages \cup Terminal

ApiSteps == {"idle", "saved", "published", "recorded",
             "accepted",      \* 202 returned
             "unpublished",   \* 500: publish raised, nothing is queued
             "raised"}        \* 500: a later call raised, the job is queued
Published(j) == api[j] \in {"published", "recorded", "accepted", "raised"}

\* Worker steps at which process_run_job executes the experiment ...
Executing == Stages \cup {"baseline_saved", "mitigation_saved"}
\* ... at which the outcome of the delivery has yet to be recorded ...
Unrecorded == {"delivered", "running", "outcome"} \cup Executing
\* ... and at which it has been recorded, or could not be.
Recorded == {"recorded", "emitted", "audited", "handled"}
WorkerSteps == {"idle", "down"} \cup Unrecorded \cup Recorded

Outcomes == {"none", "completed", "denied", "failed", "not_found"}
\* Mutant: the internal reason is recorded as the job status.
Mut_StatusOf(o) == o

StatusOf(o) == IF o = "not_found" THEN "failed" ELSE o

RunRefs == [job : Jobs, attempt : Nat]
Bundles == [job : Jobs, attempt : Nat, mode : {"baseline", "mitigated"},
            definition : Definitions]
AuditEvents ==
    [action : {"run_submitted", "run_denied", "run_failed", "evidence_created"},
     job : Jobs, attempt : Nat]
NoRun == [job |-> NoJob, attempt |-> 0]

\* Worker w has a message that it has not acknowledged.
Busy(w) == pc[w] \in Unrecorded \cup Recorded
\* The broker still owes j's message an acknowledgement from w.
Holds(w, j) == Busy(w) /\ cur[w] = j /\ connected[w]
Experiment(w) == Request[cur[w]].experiment_id
Context(j) == Request[j].execution_context

\* Both bundles of one execution of j are in the evidence repository.
HasEvidence(j, a) ==
    \A m \in {"baseline", "mitigated"} :
        \E b \in evidence : b.job = j /\ b.attempt = a /\ b.mode = m
-----------------------------------------------------------------------------
Init ==
    /\ catalog \in [Experiments -> Definitions]
    /\ api = [j \in Jobs |-> "idle"]
    /\ status = [j \in Jobs |-> "none"]
    /\ result = [j \in Jobs |-> 0]
    /\ ready = {}
    /\ deliveries = [j \in Jobs |-> 0]
    /\ requeues = [j \in Jobs |-> 0]
    /\ pc = [w \in Workers |-> "idle"]
    /\ cur = [w \in Workers |-> NoJob]
    /\ attempt = [w \in Workers |-> 0]
    /\ snapshot = [w \in Workers |-> NoFile]
    /\ outcome = [w \in Workers |-> "none"]
    /\ connected = [w \in Workers |-> TRUE]
    /\ evidence = {}
    /\ comparison = [e \in Experiments |-> NoRun]
    /\ row = [j \in Jobs |-> "none"]
    /\ audit = {}
    /\ validations = {}
    /\ faults = [k \in FaultKinds |-> 0]
    /\ mishaps = {}

Spend(k) ==
    /\ faults' = [faults EXCEPT ![k] = @ + 1]
    /\ \E b \in Budgets : \A i \in FaultKinds : faults'[i] <= b[i]

\* RunRepository.record_event as every caller uses it: a failure is logged
\* and swallowed.  The runs row keeps the last event type as current_status.
Emit(j, event) ==
    \/ /\ row' = [row EXCEPT ![j] = event]
       /\ UNCHANGED faults
    \/ /\ Spend("database")
       /\ UNCHANGED row

\* JobStore.save: one file per job, replaced atomically.  A record written
\* without a result drops the result an earlier record held.
SaveRecord(j, s, a) ==
    /\ status' = [status EXCEPT ![j] = s]
    /\ result' = [result EXCEPT ![j] = a]

Goto(w, step) == pc' = [pc EXCEPT ![w] = step]

\* The message is dealt with, or its worker is gone: so are the locals.
Forget(w) ==
    /\ cur' = [cur EXCEPT ![w] = NoJob]
    /\ attempt' = [attempt EXCEPT ![w] = 0]
    /\ snapshot' = [snapshot EXCEPT ![w] = NoFile]
    /\ outcome' = [outcome EXCEPT ![w] = "none"]
-----------------------------------------------------------------------------
(***************************************************************************)
(* The API handler submit_run.                                             *)
(***************************************************************************)

\* The route exists only for an experiment that is found; a QUEUED record is
\* written before anything is published.
SubmitRun(j) ==
    /\ api[j] = "idle"
    /\ catalog[Request[j].experiment_id] # NoFile
    /\ SaveRecord(j, "queued", 0)
    /\ api' = [api EXCEPT ![j] = "saved"]
    /\ UNCHANGED <<catalog, brokerVars, workVars, dataVars, trailVars,
                   faults, mishaps>>

\* The channel confirms nothing: a message that the broker loses looks
\* published.
PublishRunJob(j) ==
    /\ api[j] = "saved"
    /\ \/ /\ ready' = ready \cup {j}
          /\ UNCHANGED <<faults, mishaps>>
       \/ /\ Spend("publish")
          /\ mishaps' = mishaps \cup {j}
          /\ UNCHANGED ready
    /\ api' = [api EXCEPT ![j] = "published"]
    /\ UNCHANGED <<catalog, jobVars, deliveries, requeues, connected, workVars,
                   dataVars, trailVars>>

\* publish_run_job raises, before the message is out or, when the connection
\* is closed, after: the request fails and the QUEUED record stays.
PublishFails(j) ==
    /\ api[j] = "saved"
    /\ Spend("publish")
    /\ \/ /\ api' = [api EXCEPT ![j] = "unpublished"]
          /\ UNCHANGED ready
       \/ /\ api' = [api EXCEPT ![j] = "raised"]
          /\ ready' = ready \cup {j}
    /\ UNCHANGED <<catalog, jobVars, deliveries, requeues, connected, workVars,
                   dataVars, trailVars, mishaps>>

\* The QUEUED run event is recorded after the publish: a worker may already
\* have recorded events of its own.
RecordQueuedEvent(j) ==
    /\ api[j] = "published"
    /\ Emit(j, "queued")
    /\ api' = [api EXCEPT ![j] = "recorded"]
    /\ UNCHANGED <<catalog, jobVars, brokerVars, workVars, dataVars, audit,
                   validations, mishaps>>

\* The RUN_SUBMITTED audit write is not guarded: it completes the request or
\* fails it, with the job in the queue either way.
AuditSubmission(j) ==
    /\ api[j] = "recorded"
    /\ \/ /\ audit' = audit \cup
                 {[action |-> "run_submitted", job |-> j, attempt |-> 0]}
          /\ api' = [api EXCEPT ![j] = "accepted"]
          /\ UNCHANGED faults
       \/ /\ Spend("database")
          /\ api' = [api EXCEPT ![j] = "raised"]
          /\ UNCHANGED audit
    /\ UNCHANGED <<catalog, jobVars, brokerVars, workVars, dataVars, row,
                   validations, mishaps>>
-----------------------------------------------------------------------------
(***************************************************************************)
(* The worker: one message at a time (prefetch_count = 1).                 *)
(***************************************************************************)

\* Mutant: a delivered message stays deliverable.
Mut_Deliver(w, j) ==
    /\ pc[w] = "idle"
    /\ connected[w]
    /\ j \in ready
    /\ deliveries' = [deliveries EXCEPT ![j] = @ + 1]
    /\ Goto(w, "delivered")
    /\ cur' = [cur EXCEPT ![w] = j]
    /\ attempt' = [attempt EXCEPT ![w] = deliveries[j] + 1]
    /\ UNCHANGED <<catalog, apiVars, jobVars, ready, requeues, connected,
                   snapshot, outcome, dataVars, trailVars, faults, mishaps>>

Deliver(w, j) ==
    /\ pc[w] = "idle"
    /\ connected[w]
    /\ j \in ready
    /\ ready' = ready \ {j}
    /\ deliveries' = [deliveries EXCEPT ![j] = @ + 1]
    /\ Goto(w, "delivered")
    /\ cur' = [cur EXCEPT ![w] = j]
    /\ attempt' = [attempt EXCEPT ![w] = deliveries[j] + 1]
    /\ UNCHANGED <<catalog, apiVars, jobVars, requeues, connected, snapshot,
                   outcome, dataVars, trailVars, faults, mishaps>>

\* RUNNING is recorded whatever the record says already.
RecordRunning(w) ==
    /\ pc[w] = "delivered"
    /\ SaveRecord(cur[w], "running", 0)
    /\ Goto(w, "running")
    /\ UNCHANGED <<catalog, apiVars, brokerVars, cur, attempt, snapshot,
                   outcome, dataVars, trailVars, faults, mishaps>>

\* process_run_job raises: at a JobStore call, or in find_experiment, when a
\* file of the directory vanishes before it is read or is no UTF-8.
\* handle_message_body swallows the exception and the message is acknowledged.
ProcessingRaises(w) ==
    /\ \/ pc[w] \in {"delivered", "outcome"} /\ Spend("store")
       \/ pc[w] = "running" /\ Spend("catalog")
    /\ mishaps' = mishaps \cup {cur[w]}
    /\ Goto(w, "handled")
    /\ UNCHANGED <<catalog, apiVars, jobVars, brokerVars, cur, attempt,
                   snapshot, outcome, dataVars, trailVars>>

Finish(w, o) ==
    /\ outcome' = [outcome EXCEPT ![w] = o]
    /\ Goto(w, "outcome")

\* find_experiment returns nothing: the file is gone, or does not parse.
ExperimentNotFound(w) ==
    /\ pc[w] = "running"
    /\ catalog[Experiment(w)] = NoFile
    /\ Finish(w, "not_found")
    /\ UNCHANGED <<catalog, apiVars, jobVars, brokerVars, cur, attempt,
                   snapshot, dataVars, trailVars, faults, mishaps>>

\* The definition that is found here is the one the whole run uses.
Prepare(w) ==
    /\ pc[w] = "running"
    /\ catalog[Experiment(w)] # NoFile
    /\ snapshot' = [snapshot EXCEPT ![w] = catalog[Experiment(w)]]
    /\ Emit(cur[w], "preparing")
    /\ Goto(w, "preparing")
    /\ UNCHANGED <<catalog, apiVars, jobVars, brokerVars, cur, attempt, outcome,
                   dataVars, audit, validations, mishaps>>

\* The dataset file and both strategies resolve, the dataset parses.
CheckSafety(w) ==
    /\ pc[w] = "preparing"
    /\ Emit(cur[w], "safety_check")
    /\ Goto(w, "safety_check")
    /\ UNCHANGED <<catalog, apiVars, jobVars, brokerVars, cur, attempt, snapshot,
                   outcome, dataVars, audit, validations, mishaps>>

Allowed(w) == evaluate(snapshot[w], Context(cur[w]))

\* Mutant: the refusal is handled without recording DENIED.
Mut_Refuse(w) ==
    /\ pc[w] = "safety_check"
    /\ ~Allowed(w)
    /\ Goto(w, "handled")
    /\ UNCHANGED <<catalog, apiVars, jobVars, brokerVars, cur, attempt,
                   snapshot, outcome, dataVars, trailVars, faults, mishaps>>

\* PolicyRefusalError.
Refuse(w) ==
    /\ pc[w] = "safety_check"
    /\ ~Allowed(w)
    /\ Finish(w, "denied")
    /\ UNCHANGED <<catalog, apiVars, jobVars, brokerVars, cur, attempt,
                   snapshot, dataVars, trailVars, faults, mishaps>>

\* Mutant: the decision is evaluated and not acted upon.
Mut_RunBaseline(w) ==
    /\ pc[w] = "safety_check"
    /\ Emit(cur[w], "running_baseline")
    /\ Goto(w, "running_baseline")
    /\ UNCHANGED <<catalog, apiVars, jobVars, brokerVars, cur, attempt, snapshot,
                   outcome, dataVars, audit, validations, mishaps>>

RunBaseline(w) ==
    /\ pc[w] = "safety_check"
    /\ Allowed(w)
    /\ Emit(cur[w], "running_baseline")
    /\ Goto(w, "running_baseline")
    /\ UNCHANGED <<catalog, apiVars, jobVars, brokerVars, cur, attempt, snapshot,
                   outcome, dataVars, audit, validations, mishaps>>

\* The stages between the first strategy run and the first evidence write.
NextStage == [running_baseline   |-> "running_mitigation",
              running_mitigation |-> "analysing",
              analysing          |-> "generating_evidence"]

RunStage(w) ==
    /\ pc[w] \in DOMAIN NextStage
    /\ Emit(cur[w], NextStage[pc[w]])
    /\ Goto(w, NextStage[pc[w]])
    /\ UNCHANGED <<catalog, apiVars, jobVars, brokerVars, cur, attempt, snapshot,
                   outcome, dataVars, audit, validations, mishaps>>

Bundle(w, m) == [job |-> cur[w], attempt |-> attempt[w], mode |-> m,
                 definition |-> snapshot[w]]

\* Mutant: the comparison is written with the first bundle.
Mut_SaveBaseline(w) ==
    /\ pc[w] = "generating_evidence"
    /\ evidence' = evidence \cup {Bundle(w, "baseline")}
    /\ comparison' = [comparison EXCEPT ![Experiment(w)] =
                         [job |-> cur[w], attempt |-> attempt[w]]]
    /\ Goto(w, "baseline_saved")
    /\ UNCHANGED <<catalog, apiVars, jobVars, brokerVars, cur, attempt, snapshot,
                   outcome, trailVars, faults, mishaps>>

SaveBaseline(w) ==
    /\ pc[w] = "generating_evidence"
    /\ evidence' = evidence \cup {Bundle(w, "baseline")}
    /\ Goto(w, "baseline_saved")
    /\ UNCHANGED <<catalog, apiVars, jobVars, brokerVars, cur, attempt, snapshot,
                   outcome, comparison, trailVars, faults, mishaps>>

SaveMitigation(w) ==
    /\ pc[w] = "baseline_saved"
    /\ evidence' = evidence \cup {Bundle(w, "mitigated")}
    /\ Goto(w, "mitigation_saved")
    /\ UNCHANGED <<catalog, apiVars, jobVars, brokerVars, cur, attempt, snapshot,
                   outcome, comparison, trailVars, faults, mishaps>>

SaveComparison(w) ==
    /\ pc[w] = "mitigation_saved"
    /\ comparison' = [comparison EXCEPT ![Experiment(w)] =
                         [job |-> cur[w], attempt |-> attempt[w]]]
    /\ Finish(w, "completed")
    /\ UNCHANGED <<catalog, apiVars, jobVars, brokerVars, cur, attempt, snapshot,
                   evidence, trailVars, faults, mishaps>>

\* Mutant: an exception while the evidence is written is taken for success.
Mut_ExecutionRaises(w) ==
    /\ pc[w] \in Executing
    /\ pc[w] = "safety_check" => Allowed(w)
    /\ Finish(w, IF pc[w] = "baseline_saved" THEN "completed" ELSE "failed")
    /\ UNCHANGED <<catalog, apiVars, jobVars, brokerVars, cur, attempt, snapshot,
                   dataVars, trailVars, faults, mishaps>>

\* Any exception but the refusal: a missing dataset, an unknown strategy, a
\* domain mismatch, an evidence write that is rejected or fails.
ExecutionRaises(w) ==
    /\ pc[w] \in Executing
    /\ pc[w] = "safety_check" => Allowed(w)
    /\ Finish(w, "failed")
    /\ UNCHANGED <<catalog, apiVars, jobVars, brokerVars, cur, attempt, snapshot,
                   dataVars, trailVars, faults, mishaps>>

RecordOutcome(w) ==
    /\ pc[w] = "outcome"
    /\ SaveRecord(cur[w], StatusOf(outcome[w]),
                  IF outcome[w] = "completed" THEN attempt[w] ELSE 0)
    /\ Goto(w, "recorded")
    /\ UNCHANGED <<catalog, apiVars, brokerVars, cur, attempt, snapshot, outcome,
                   dataVars, trailVars, faults, mishaps>>

\* The run whose experiment was not found has no audit event.
EmitOutcome(w) ==
    /\ pc[w] = "recorded"
    /\ Emit(cur[w], StatusOf(outcome[w]))
    /\ Goto(w, IF outcome[w] = "not_found" THEN "handled" ELSE "emitted")
    /\ UNCHANGED <<catalog, apiVars, jobVars, brokerVars, cur, attempt, snapshot,
                   outcome, dataVars, audit, validations, mishaps>>

AuditAction == [completed |-> "evidence_created", denied |-> "run_denied",
                failed |-> "run_failed"]

\* The worker's audit write is best effort, unlike the API's.
AuditOutcome(w) ==
    /\ pc[w] = "emitted"
    /\ \/ /\ audit' = audit \cup {[action |-> AuditAction[outcome[w]],
                                   job |-> cur[w], attempt |-> attempt[w]]}
          /\ UNCHANGED faults
       \/ /\ Spend("database")
          /\ UNCHANGED audit
    /\ Goto(w, IF outcome[w] = "completed" THEN "audited" ELSE "handled")
    /\ UNCHANGED <<catalog, apiVars, jobVars, brokerVars, cur, attempt, snapshot,
                   outcome, dataVars, row, validations, mishaps>>

\* _record_control_validation, best effort as well.
RecordValidation(w) ==
    /\ pc[w] = "audited"
    /\ \/ /\ validations' = validations \cup
                 {[job |-> cur[w], attempt |-> attempt[w]]}
          /\ UNCHANGED faults
       \/ /\ Spend("database")
          /\ UNCHANGED validations
    /\ Goto(w, "handled")
    /\ UNCHANGED <<catalog, apiVars, jobVars, brokerVars, cur, attempt, snapshot,
                   outcome, dataVars, row, audit, mishaps>>

\* basic_ack on a live connection; on a dropped one it raises, start_consuming
\* ends and the process exits.
Acknowledge(w) ==
    /\ pc[w] = "handled"
    /\ Goto(w, IF connected[w] THEN "idle" ELSE "down")
    /\ Forget(w)
    /\ UNCHANGED <<catalog, apiVars, jobVars, brokerVars, dataVars, trailVars,
                   faults, mishaps>>
-----------------------------------------------------------------------------
(***************************************************************************)
(* What the environment does to the system.                                *)
(***************************************************************************)

\* The broker puts the message w has not acknowledged back into the queue.
Requeue(w) ==
    /\ ready' = ready \cup {cur[w]}
    /\ requeues' = [requeues EXCEPT ![cur[w]] = @ + 1]

\* The connection is dropped while w is inside process_run_job, which does
\* not service heartbeats: w goes on and notices when it acknowledges.
LoseConnection(w) ==
    /\ Busy(w) /\ connected[w]
    /\ Spend("connection")
    /\ Requeue(w)
    /\ mishaps' = mishaps \cup {cur[w]}
    /\ connected' = [connected EXCEPT ![w] = FALSE]
    /\ UNCHANGED <<catalog, apiVars, jobVars, deliveries, workVars, dataVars,
                   trailVars>>

Crash(w) ==
    /\ pc[w] # "down"
    /\ Spend("crash")
    /\ IF Busy(w) /\ connected[w]
       THEN Requeue(w)
       ELSE UNCHANGED <<ready, requeues>>
    /\ Goto(w, "down")
    /\ Forget(w)
    /\ UNCHANGED <<catalog, apiVars, jobVars, deliveries, connected, dataVars,
                   trailVars, mishaps>>

\* A new process connects (connect_with_retry) and consumes.
Restart(w) ==
    /\ pc[w] = "down"
    /\ Goto(w, "idle")
    /\ connected' = [connected EXCEPT ![w] = TRUE]
    /\ UNCHANGED <<catalog, apiVars, jobVars, ready, deliveries, requeues, cur,
                   attempt, snapshot, outcome, dataVars, trailVars,
                   faults, mishaps>>

\* A definition file is rewritten, removed, or caught half written.
ChangeCatalog(e) ==
    /\ Spend("catalog")
    /\ \E d \in (Definitions \cup {NoFile}) \ {catalog[e]} :
           catalog' = [catalog EXCEPT ![e] = d]
    /\ UNCHANGED <<apiVars, jobVars, brokerVars, workVars, dataVars, trailVars,
                   mishaps>>
-----------------------------------------------------------------------------
Handler(j) ==
    \/ SubmitRun(j)
    \/ PublishRunJob(j)
    \/ PublishFails(j)
    \/ RecordQueuedEvent(j)
    \/ AuditSubmission(j)

Execute(w) ==
    \/ ExperimentNotFound(w)
    \/ Prepare(w)
    \/ CheckSafety(w)
    \/ Refuse(w)
    \/ RunBaseline(w)
    \/ RunStage(w)
    \/ SaveBaseline(w)
    \/ SaveMitigation(w)
    \/ SaveComparison(w)
    \/ ExecutionRaises(w)

\* What process_run_job and _on_message do with the message w was given.
Process(w) ==
    \/ RecordRunning(w)
    \/ ProcessingRaises(w)
    \/ Execute(w)
    \/ RecordOutcome(w)
    \/ EmitOutcome(w)
    \/ AuditOutcome(w)
    \/ RecordValidation(w)
    \/ Acknowledge(w)

Environment ==
    \/ \E w \in Workers : LoseConnection(w) \/ Crash(w) \/ Restart(w)
    \/ \E e \in Experiments : ChangeCatalog(e)

Next ==
    \/ \E j \in Jobs : Handler(j)
    \/ \E w \in Workers, j \in Jobs : Deliver(w, j)
    \/ \E w \in Workers : Process(w)
    \/ Environment

Spec == Init /\ [][Next]_vars

\* A worker that is running keeps running, and the broker hands a waiting
\* message to an idle consumer.  Nothing is assumed of clients, of faults, or
\* of the operator who restarts a worker.
FairSpec ==
    /\ Spec
    /\ \A w \in Workers : WF_vars(Process(w))
    /\ \A w \in Workers : WF_vars(\E j \in Jobs : Deliver(w, j))
-----------------------------------------------------------------------------
(***************************************************************************)
(* Properties.                                                             *)
(***************************************************************************)

\* Every variable keeps its type: the records the stores hold are the ones
\* the code can write.
TypeOK ==
    /\ catalog \in [Experiments -> Definitions \cup {NoFile}]
    /\ api \in [Jobs -> ApiSteps]
    /\ status \in [Jobs -> JobStatuses]
    /\ result \in [Jobs -> Nat]
    /\ ready \in SUBSET Jobs
    /\ deliveries \in [Jobs -> Nat]
    /\ requeues \in [Jobs -> Nat]
    /\ pc \in [Workers -> WorkerSteps]
    /\ cur \in [Workers -> Jobs \cup {NoJob}]
    /\ attempt \in [Workers -> Nat]
    /\ snapshot \in [Workers -> Definitions \cup {NoFile}]
    /\ outcome \in [Workers -> Outcomes]
    /\ connected \in [Workers -> BOOLEAN]
    /\ evidence \in SUBSET Bundles
    /\ comparison \in [Experiments -> RunRefs \cup {NoRun}]
    /\ row \in [Jobs -> RunEventTypes \cup {"none"}]
    /\ audit \in SUBSET AuditEvents
    /\ validations \in SUBSET RunRefs
    /\ faults \in [FaultKinds -> Nat]
    /\ mishaps \in SUBSET Jobs

\* The safety gate cannot be bypassed: every bundle in the evidence repository
\* was produced by executing a definition that SAFE-001..004 allow in the
\* context of its job, although the definition file may have changed since
\* and the message may have been processed several times.
EvidenceWasAllowed ==
    \A b \in evidence :
        /\ ~b.definition.external_targeting
        /\ ~b.definition.weaponised_payloads
        /\ b.definition.input_classification = "synthetic"
        /\ \/ b.definition.approval_status = "approved"
           \/ Context(b.job) = "local_unit_test"

\* A job a client polls as completed names an execution whose baseline and
\* mitigation evidence are both saved, and a runs row that says completed
\* belongs to a job that has such an execution, whatever crashed in between.
CompletedHasEvidence ==
    \A j \in Jobs :
        /\ status[j] = "completed" => HasEvidence(j, result[j])
        /\ row[j] = "completed" => \E a \in 1..deliveries[j] : HasEvidence(j, a)

\* Whatever refers to a run refers to one that has both bundles: the
\* comparison a verdict is computed from, an evidence_created audit event, a
\* control validation.
DownstreamBacked ==
    /\ \A e \in Experiments :
           comparison[e] # NoRun =>
               HasEvidence(comparison[e].job, comparison[e].attempt)
    /\ \A x \in audit :
           x.action = "evidence_created" => HasEvidence(x.job, x.attempt)
    /\ \A v \in validations : HasEvidence(v.job, v.attempt)

\* A job that was handed to the broker is in the queue, or held by a worker
\* the broker will take it back from, or has ended, however many workers crash
\* and restart and whatever else fails, unless this very job met one of three
\* mishaps: the broker lost its unconfirmed message; process_run_job raised and
\* the exception was swallowed; or the connection of the worker that had the
\* message was dropped and the worker went on (see NoStrandedJob).
PublishedNotLost ==
    \A j \in Jobs \ mishaps :
        Published(j) =>
            \/ j \in ready
            \/ \E w \in Workers : Holds(w, j)
            \/ status[j] \in Terminal

\* A worker only ever rewrites the record of a finished job because the broker
\* took the message back: one delivery records at most one outcome, and no
\* other step of the system touches a finished record.
RewrittenOnlyAfterRequeue ==
    [][\A j \in Jobs :
           (status[j] \in Terminal /\ <<status[j], result[j]>>' # <<status[j], result[j]>>)
               => requeues[j] > 0]_vars

\* Every job handed to the broker ends in a terminal status that stays, if some
\* worker is up again and again and the job never meets one of these mishaps:
\* crashes, failing database writes, changes of the catalogue and the mishaps
\* of other jobs cost repetitions or a failed run, never the job.
EventuallySettled ==
    \A j \in Jobs :
        ([](j \notin mishaps) /\ \E w \in Workers : []<>(pc[w] # "down"))
            => (Published(j) ~> [](status[j] \in Terminal))

\* A published job that no message is left for and that no worker works on has
\* a terminal status, whatever the faults of brokers and workers.
NoStrandedJob ==
    \A j \in Jobs :
        (Published(j) /\ j \notin ready /\ \A w \in Workers : cur[w] # j)
            => status[j] \in Terminal
-----------------------------------------------------------------------------
(***************************************************************************)
(* The inductive strengthening of the safety properties above.             *)
(***************************************************************************)

\* Steps at which the policy has allowed the snapshot.
Checked == {"running_baseline", "running_mitigation", "analysing",
            "generating_evidence", "baseline_saved", "mitigation_saved"}

HasBaseline(j, a) ==
    \E b \in evidence : b.job = j /\ b.attempt = a /\ b.mode = "baseline"

\* What a worker's local variables are at each step.
WorkerOK(w) ==
    /\ Busy(w) <=> cur[w] \in Jobs
    /\ Busy(w) => 1 <= attempt[w] /\ attempt[w] <= deliveries[cur[w]]
    /\ pc[w] \in Executing => snapshot[w] \in Definitions
    /\ pc[w] \in Checked => Allowed(w)
    /\ (pc[w] \notin {"outcome"} \cup Recorded) => outcome[w] = "none"
    /\ pc[w] \in {"outcome", "recorded", "emitted"} => outcome[w] # "none"
    /\ pc[w] = "emitted" => outcome[w] # "not_found"
    /\ pc[w] = "audited" => outcome[w] = "completed"

WorkerInv == \A w \in Workers : WorkerOK(w)

\* The evidence a worker has saved before the step it is at.
SavedOK(w) ==
    /\ pc[w] = "baseline_saved" => HasBaseline(cur[w], attempt[w])
    /\ pc[w] = "mitigation_saved" => HasEvidence(cur[w], attempt[w])
    /\ outcome[w] = "completed" => HasEvidence(cur[w], attempt[w])

SavedInv == \A w \in Workers : SavedOK(w)

\* Nothing happens to a job before it is published.
UnpublishedOK(j) ==
    ~Published(j) => /\ j \notin ready
                     /\ \A w \in Workers : cur[w] # j
                     /\ status[j] \notin Terminal

UnpublishedInv == \A j \in Jobs : UnpublishedOK(j)

\* At most one copy of j's message is under way.
Exclusive(j) ==
    /\ j \in ready => \A w \in Workers : cur[w] # j
    /\ \A w, v \in Workers : cur[w] = j /\ cur[v] = j => w = v

\* A message the broker never took back is processed once, and a terminal
\* record means that this processing has recorded its outcome.
FirstDeliveryOK(j) ==
    requeues[j] = 0 =>
        /\ Exclusive(j)
        /\ status[j] \in Terminal =>
               /\ j \notin ready
               /\ \A w \in Workers : cur[w] = j => pc[w] \in Recorded

FirstDeliveryInv == \A j \in Jobs : FirstDeliveryOK(j)

\* The copies of a job without mishaps stay exclusive across crashes, and a
\* worker past its record step has written the record.
HandoverOK(j) ==
    /\ Exclusive(j)
    /\ \A w \in Workers :
           (cur[w] = j /\ pc[w] \in Recorded) => status[j] \in Terminal
    /\ Published(j) =>
           \/ j \in ready
           \/ \E w \in Workers : Holds(w, j)
           \/ status[j] \in Terminal

\* The broker counts every worker in that works on a job without mishaps.
ConnectedInv ==
    \A w \in Workers : Busy(w) /\ cur[w] \notin mishaps => connected[w]

HandoverInv == \A j \in Jobs \ mishaps : HandoverOK(j)
=============================================================================
