---------------------------- MODULE RunJobsProofs ----------------------------
(***************************************************************************)
(* Proofs about RunJobs, for every set of jobs, workers, experiments and   *)
(* definitions, every assignment of requests and every fault budget.       *)
(***************************************************************************)
EXTENDS RunJobs, TLAPS

-----------------------------------------------------------------------------
(***************************************************************************)
(* Types, and the local variables of the workers.                          *)
(***************************************************************************)

\* A fault is counted once, the counters stay natural numbers.
LEMMA SpendType ==
    ASSUME TypeOK, NEW k \in FaultKinds, Spend(k)
    PROVE  faults' \in [FaultKinds -> Nat]
  BY DEF TypeOK, Spend

\* A best-effort event write leaves the runs table and the fault counters well
\* formed, whether it succeeds or not.
LEMMA EmitType ==
    ASSUME TypeOK, NEW j \in Jobs, NEW event \in RunEventTypes \cup {"none"},
           Emit(j, event)
    PROVE  /\ row' \in [Jobs -> RunEventTypes \cup {"none"}]
           /\ faults' \in [FaultKinds -> Nat]
<1>1. CASE row' = [row EXCEPT ![j] = event] /\ UNCHANGED faults
  BY <1>1 DEF TypeOK
<1>2. CASE Spend("database") /\ UNCHANGED row
  BY <1>2, SpendType DEF TypeOK, FaultKinds
<1> QED
  BY <1>1, <1>2 DEF Emit

\* A worker that is past the delivery of a message works on some job.
LEMMA BusyHasJob ==
    ASSUME WorkerInv, NEW w \in Workers, Busy(w)
    PROVE  cur[w] \in Jobs
  BY DEF WorkerInv, WorkerOK

\* Every step keeps every variable in its type.
LEMMA TypeStep == TypeOK /\ WorkerInv /\ [Next]_vars => TypeOK'
<1> SUFFICES ASSUME TypeOK, WorkerInv, [Next]_vars
             PROVE  TypeOK'
  OBVIOUS
<1> USE ConstantsAssumption
    DEF TypeOK, JobStatuses, Terminal, RunEventTypes, Stages, ApiSteps,
        WorkerSteps, Unrecorded, Recorded, Executing, Outcomes,
        RunRefs, NoRun, apiVars, brokerVars, jobVars, workVars, dataVars,
        trailVars
<1>1. ASSUME NEW j \in Jobs, SubmitRun(j) PROVE TypeOK'
  BY <1>1
     DEF SubmitRun, SaveRecord
<1>2. ASSUME NEW j \in Jobs, PublishRunJob(j) PROVE TypeOK'
  <2>1. faults' \in [FaultKinds -> Nat]
    BY <1>2, SpendType DEF PublishRunJob, FaultKinds
  <2>2. ready' \in SUBSET Jobs /\ mishaps' \in SUBSET Jobs
    BY <1>2 DEF PublishRunJob
  <2> QED
    BY <1>2, <2>1, <2>2 DEF PublishRunJob
<1>3. ASSUME NEW j \in Jobs, PublishFails(j) PROVE TypeOK'
  <2>1. faults' \in [FaultKinds -> Nat]
    BY <1>3, SpendType DEF PublishFails, FaultKinds
  <2>2. ready' \in SUBSET Jobs /\ api' \in [Jobs -> ApiSteps]
    BY <1>3 DEF PublishFails
  <2> QED
    BY <1>3, <2>1, <2>2 DEF PublishFails
<1>4. ASSUME NEW j \in Jobs, RecordQueuedEvent(j) PROVE TypeOK'
  <2>1. row' \in [Jobs -> RunEventTypes \cup {"none"}] /\ faults' \in [FaultKinds -> Nat]
    BY <1>4, EmitType DEF RecordQueuedEvent
  <2> QED
    BY <1>4, <2>1 DEF RecordQueuedEvent
<1>5. ASSUME NEW j \in Jobs, AuditSubmission(j) PROVE TypeOK'
  <2>1. faults' \in [FaultKinds -> Nat]
    BY <1>5, SpendType DEF AuditSubmission, FaultKinds
  <2>2. audit' \in SUBSET AuditEvents
    BY <1>5 DEF AuditSubmission, AuditEvents
  <2>3. \E s \in ApiSteps : api' = [api EXCEPT ![j] = s]
    BY <1>5 DEF AuditSubmission
  <2> QED
    BY <1>5, <2>1, <2>2, <2>3 DEF AuditSubmission
<1>6. ASSUME NEW w \in Workers, NEW j \in Jobs, Deliver(w, j) PROVE TypeOK'
  BY <1>6
     DEF Deliver, Goto
<1>7. ASSUME NEW w \in Workers, RecordRunning(w) PROVE TypeOK'
  BY <1>7
     DEF RecordRunning, SaveRecord, Goto, WorkerInv, WorkerOK, Busy
<1>8. ASSUME NEW w \in Workers, ProcessingRaises(w) PROVE TypeOK'
  <2>1. cur[w] \in Jobs
    BY <1>8, BusyHasJob DEF ProcessingRaises, Busy
  <2>2. faults' \in [FaultKinds -> Nat]
    BY <1>8, SpendType DEF ProcessingRaises, FaultKinds
  <2> QED
    BY <1>8, <2>1, <2>2 DEF ProcessingRaises, Goto
<1>9. ASSUME NEW w \in Workers, ExperimentNotFound(w) PROVE TypeOK'
  BY <1>9
     DEF ExperimentNotFound, Finish, Goto, Experiment, WorkerInv, WorkerOK,
         Busy
<1>10. ASSUME NEW w \in Workers, Prepare(w) PROVE TypeOK'
  <2>1. cur[w] \in Jobs
    BY <1>10, BusyHasJob DEF Prepare, Busy
  <2>2. row' \in [Jobs -> RunEventTypes \cup {"none"}] /\ faults' \in [FaultKinds -> Nat]
    BY <1>10, <2>1, EmitType DEF Prepare
  <2> QED
    BY <1>10, <2>1, <2>2 DEF Prepare, Goto, Experiment
<1>11. ASSUME NEW w \in Workers, CheckSafety(w) PROVE TypeOK'
  <2>1. cur[w] \in Jobs
    BY <1>11, BusyHasJob DEF CheckSafety, Busy
  <2>2. row' \in [Jobs -> RunEventTypes \cup {"none"}] /\ faults' \in [FaultKinds -> Nat]
    BY <1>11, <2>1, EmitType DEF CheckSafety
  <2> QED
    BY <1>11, <2>1, <2>2 DEF CheckSafety, Goto
<1>12. ASSUME NEW w \in Workers, Refuse(w) PROVE TypeOK'
  BY <1>12
     DEF Refuse, Finish, Goto, WorkerInv, WorkerOK, Busy
<1>13. ASSUME NEW w \in Workers, RunBaseline(w) PROVE TypeOK'
  <2>1. cur[w] \in Jobs
    BY <1>13, BusyHasJob DEF RunBaseline, Busy
  <2>2. row' \in [Jobs -> RunEventTypes \cup {"none"}] /\ faults' \in [FaultKinds -> Nat]
    BY <1>13, <2>1, EmitType DEF RunBaseline
  <2> QED
    BY <1>13, <2>1, <2>2 DEF RunBaseline, Goto
<1>14. ASSUME NEW w \in Workers, RunStage(w) PROVE TypeOK'
  <2>1. cur[w] \in Jobs
    BY <1>14, BusyHasJob DEF RunStage, Busy, NextStage
  <2>2. row' \in [Jobs -> RunEventTypes \cup {"none"}] /\ faults' \in [FaultKinds -> Nat]
    BY <1>14, <2>1, EmitType DEF RunStage, NextStage
  <2> QED
    BY <1>14, <2>1, <2>2 DEF RunStage, Goto, NextStage
<1>15. ASSUME NEW w \in Workers, SaveBaseline(w) PROVE TypeOK'
  BY <1>15
     DEF SaveBaseline, Goto, Bundle, WorkerInv, WorkerOK, Busy, Bundles
<1>16. ASSUME NEW w \in Workers, SaveMitigation(w) PROVE TypeOK'
  BY <1>16
     DEF SaveMitigation, Goto, Bundle, WorkerInv, WorkerOK, Busy, Bundles
<1>17. ASSUME NEW w \in Workers, SaveComparison(w) PROVE TypeOK'
  BY <1>17
     DEF SaveComparison, Finish, Goto, Experiment, WorkerInv, WorkerOK,
         Busy, Bundles
<1>18. ASSUME NEW w \in Workers, ExecutionRaises(w) PROVE TypeOK'
  BY <1>18
     DEF ExecutionRaises, Finish, Goto, WorkerInv, WorkerOK, Busy
<1>19. ASSUME NEW w \in Workers, RecordOutcome(w) PROVE TypeOK'
  BY <1>19
     DEF RecordOutcome, SaveRecord, Goto, StatusOf, WorkerInv, WorkerOK,
         Busy
<1>20. ASSUME NEW w \in Workers, EmitOutcome(w) PROVE TypeOK'
  <2>1. cur[w] \in Jobs
    BY <1>20, BusyHasJob DEF EmitOutcome, Busy
  <2>2. row' \in [Jobs -> RunEventTypes \cup {"none"}] /\ faults' \in [FaultKinds -> Nat]
    BY <1>20, <2>1, EmitType DEF EmitOutcome, StatusOf
  <2> QED
    BY <1>20, <2>1, <2>2 DEF EmitOutcome, Goto, StatusOf
<1>21. ASSUME NEW w \in Workers, AuditOutcome(w) PROVE TypeOK'
  <2>1. cur[w] \in Jobs /\ outcome[w] \in {"completed", "denied", "failed"}
    BY <1>21, BusyHasJob DEF AuditOutcome, Busy, WorkerInv, WorkerOK
  <2>2. faults' \in [FaultKinds -> Nat]
    BY <1>21, SpendType DEF AuditOutcome, FaultKinds
  <2>3. audit' \in SUBSET AuditEvents
    BY <1>21, <2>1 DEF AuditOutcome, AuditEvents, AuditAction
  <2> QED
    BY <1>21, <2>2, <2>3 DEF AuditOutcome, Goto
<1>22. ASSUME NEW w \in Workers, RecordValidation(w) PROVE TypeOK'
  <2>1. cur[w] \in Jobs
    BY <1>22, BusyHasJob DEF RecordValidation, Busy
  <2>2. faults' \in [FaultKinds -> Nat]
    BY <1>22, SpendType DEF RecordValidation, FaultKinds
  <2>3. validations' \in SUBSET RunRefs
    BY <1>22, <2>1 DEF RecordValidation
  <2> QED
    BY <1>22, <2>2, <2>3 DEF RecordValidation, Goto
<1>23. ASSUME NEW w \in Workers, Acknowledge(w) PROVE TypeOK'
  BY <1>23
     DEF Acknowledge, Goto, Forget, WorkerInv, WorkerOK, Busy
<1>24. ASSUME NEW w \in Workers, LoseConnection(w) PROVE TypeOK'
  BY <1>24
     DEF LoseConnection, Spend, Requeue, WorkerInv, WorkerOK, Busy,
         FaultKinds
<1>25. ASSUME NEW w \in Workers, Crash(w) PROVE TypeOK'
  <2>1. faults' \in [FaultKinds -> Nat]
    BY <1>25, SpendType DEF Crash, FaultKinds
  <2> QED
    BY <1>25, <2>1
       DEF Crash, Goto, Forget, Requeue, WorkerInv, WorkerOK, Busy
<1>26. ASSUME NEW w \in Workers, Restart(w) PROVE TypeOK'
  BY <1>26
     DEF Restart, Goto, WorkerInv, WorkerOK, Busy
<1>27. ASSUME NEW e \in Experiments, ChangeCatalog(e) PROVE TypeOK'
  BY <1>27
     DEF ChangeCatalog, Spend, FaultKinds
<1>28. CASE UNCHANGED vars
  BY <1>28
     DEF vars
<1> QED
  BY <1>1, <1>2, <1>3, <1>4, <1>5, <1>6, <1>7, <1>8, <1>9, <1>10,
     <1>11, <1>12, <1>13, <1>14, <1>15, <1>16, <1>17, <1>18, <1>19, <1>20,
     <1>21, <1>22, <1>23, <1>24, <1>25, <1>26, <1>27, <1>28
     DEF Next, Handler, Process, Execute, Environment

\* Every step keeps the local variables of every worker in step with where
\* the worker is.
LEMMA WorkerStep == TypeOK /\ TypeOK' /\ WorkerInv /\ [Next]_vars => WorkerInv'
<1> SUFFICES ASSUME TypeOK, TypeOK', WorkerInv, [Next]_vars, NEW v \in Workers
             PROVE  WorkerOK(v)'
  BY DEF WorkerInv
<1>0. WorkerOK(v)
  BY DEF WorkerInv
<1> USE <1>0, ConstantsAssumption
    DEF TypeOK, WorkerOK, Busy, Allowed, Executing, Checked,
        Unrecorded, Recorded, Stages, Outcomes, WorkerSteps, apiVars,
        brokerVars, jobVars, workVars
<1>1. ASSUME NEW j \in Jobs, SubmitRun(j) PROVE WorkerOK(v)'
  BY <1>1
     DEF SubmitRun
<1>2. ASSUME NEW j \in Jobs, PublishRunJob(j) PROVE WorkerOK(v)'
  BY <1>2
     DEF PublishRunJob
<1>3. ASSUME NEW j \in Jobs, PublishFails(j) PROVE WorkerOK(v)'
  BY <1>3
     DEF PublishFails
<1>4. ASSUME NEW j \in Jobs, RecordQueuedEvent(j) PROVE WorkerOK(v)'
  BY <1>4
     DEF RecordQueuedEvent
<1>5. ASSUME NEW j \in Jobs, AuditSubmission(j) PROVE WorkerOK(v)'
  BY <1>5
     DEF AuditSubmission
<1>6. ASSUME NEW w \in Workers, NEW j \in Jobs, Deliver(w, j) PROVE WorkerOK(v)'
  <2>1. CASE v # w
    BY <1>6, <2>1 DEF Deliver, Goto
  <2>2. CASE v = w
    BY <1>6, <2>2 DEF Deliver, Goto
  <2> QED
    BY <2>1, <2>2
<1>7. ASSUME NEW w \in Workers, RecordRunning(w) PROVE WorkerOK(v)'
  BY <1>7
     DEF RecordRunning, Goto
<1>8. ASSUME NEW w \in Workers, ProcessingRaises(w) PROVE WorkerOK(v)'
  BY <1>8
     DEF ProcessingRaises, Goto
<1>9. ASSUME NEW w \in Workers, ExperimentNotFound(w) PROVE WorkerOK(v)'
  <2>1. CASE v # w
    BY <1>9, <2>1 DEF ExperimentNotFound, Finish, Goto, Experiment
  <2>2. CASE v = w
    BY <1>9, <2>2 DEF ExperimentNotFound, Finish, Goto, Experiment
  <2> QED
    BY <2>1, <2>2
<1>10. ASSUME NEW w \in Workers, Prepare(w) PROVE WorkerOK(v)'
  BY <1>10
     DEF Prepare, Goto, Experiment
<1>11. ASSUME NEW w \in Workers, CheckSafety(w) PROVE WorkerOK(v)'
  BY <1>11
     DEF CheckSafety, Goto
<1>12. ASSUME NEW w \in Workers, Refuse(w) PROVE WorkerOK(v)'
  <2>1. CASE v # w
    BY <1>12, <2>1 DEF Refuse, Finish, Goto
  <2>2. CASE v = w
    BY <1>12, <2>2 DEF Refuse, Finish, Goto
  <2> QED
    BY <2>1, <2>2
<1>13. ASSUME NEW w \in Workers, RunBaseline(w) PROVE WorkerOK(v)'
  BY <1>13
     DEF RunBaseline, Goto
<1>14. ASSUME NEW w \in Workers, RunStage(w) PROVE WorkerOK(v)'
  BY <1>14
     DEF RunStage, Goto, NextStage
<1>15. ASSUME NEW w \in Workers, SaveBaseline(w) PROVE WorkerOK(v)'
  BY <1>15
     DEF SaveBaseline, Goto
<1>16. ASSUME NEW w \in Workers, SaveMitigation(w) PROVE WorkerOK(v)'
  BY <1>16
     DEF SaveMitigation, Goto
<1>17. ASSUME NEW w \in Workers, SaveComparison(w) PROVE WorkerOK(v)'
  <2>1. CASE v # w
    BY <1>17, <2>1 DEF SaveComparison, Finish, Goto, Experiment
  <2>2. CASE v = w
    BY <1>17, <2>2 DEF SaveComparison, Finish, Goto, Experiment
  <2> QED
    BY <2>1, <2>2
<1>18. ASSUME NEW w \in Workers, ExecutionRaises(w) PROVE WorkerOK(v)'
  <2>1. CASE v # w
    BY <1>18, <2>1 DEF ExecutionRaises, Finish, Goto
  <2>2. CASE v = w
    BY <1>18, <2>2 DEF ExecutionRaises, Finish, Goto
  <2> QED
    BY <2>1, <2>2
<1>19. ASSUME NEW w \in Workers, RecordOutcome(w) PROVE WorkerOK(v)'
  BY <1>19
     DEF RecordOutcome, Goto
<1>20. ASSUME NEW w \in Workers, EmitOutcome(w) PROVE WorkerOK(v)'
  BY <1>20
     DEF EmitOutcome, Goto
<1>21. ASSUME NEW w \in Workers, AuditOutcome(w) PROVE WorkerOK(v)'
  BY <1>21
     DEF AuditOutcome, Goto
<1>22. ASSUME NEW w \in Workers, RecordValidation(w) PROVE WorkerOK(v)'
  BY <1>22
     DEF RecordValidation, Goto
<1>23. ASSUME NEW w \in Workers, Acknowledge(w) PROVE WorkerOK(v)'
  BY <1>23
     DEF Acknowledge, Goto, Forget
<1>24. ASSUME NEW w \in Workers, LoseConnection(w) PROVE WorkerOK(v)'
  BY <1>24
     DEF LoseConnection
<1>25. ASSUME NEW w \in Workers, Crash(w) PROVE WorkerOK(v)'
  BY <1>25
     DEF Crash, Goto, Forget
<1>26. ASSUME NEW w \in Workers, Restart(w) PROVE WorkerOK(v)'
  BY <1>26
     DEF Restart, Goto
<1>27. ASSUME NEW e \in Experiments, ChangeCatalog(e) PROVE WorkerOK(v)'
  BY <1>27
     DEF ChangeCatalog
<1>28. CASE UNCHANGED vars
  BY <1>28
     DEF vars
<1> QED
  BY <1>1, <1>2, <1>3, <1>4, <1>5, <1>6, <1>7, <1>8, <1>9, <1>10,
     <1>11, <1>12, <1>13, <1>14, <1>15, <1>16, <1>17, <1>18, <1>19, <1>20,
     <1>21, <1>22, <1>23, <1>24, <1>25, <1>26, <1>27, <1>28
     DEF Next, Handler, Process, Execute, Environment

\* Types and worker locals hold together in every reachable state.
LEMMA Locals == Spec => [](TypeOK /\ WorkerInv)
<1>1. Init => TypeOK /\ WorkerInv
  <2>1. Init => TypeOK
    BY ConstantsAssumption
       DEF Init, TypeOK, JobStatuses, RunEventTypes, ApiSteps, WorkerSteps,
           Outcomes, NoRun
  <2>2. Init => WorkerInv
    BY ConstantsAssumption
       DEF Init, WorkerInv, WorkerOK, Busy, Unrecorded, Recorded, Executing,
           Stages, Checked
  <2> QED
    BY <2>1, <2>2
<1>2. TypeOK /\ WorkerInv /\ [Next]_vars => (TypeOK /\ WorkerInv)'
  BY TypeStep, WorkerStep
<1> QED
  BY <1>1, <1>2, PTL DEF Spec

\* Every variable keeps its type: whatever is redelivered, crashes or fails to
\* be written, the stores only ever hold records the code can write.
THEOREM TypeCorrect == Spec => []TypeOK
  BY Locals, PTL

-----------------------------------------------------------------------------
(***************************************************************************)
(* Which step changes what.                                                *)
(***************************************************************************)

\* Only the evidence writes of the orchestrator change the evidence
\* repository, only their last one the comparison, only the worker's trailing
\* calls the validations and the worker's audit events, and so on: the frame of
\* every store.
Frame ==
    /\ \/ evidence' = evidence
       \/ \E w \in Workers : SaveBaseline(w) \/ SaveMitigation(w)
    /\ comparison' = comparison \/ \E w \in Workers : SaveComparison(w)
    /\ validations' = validations \/ \E w \in Workers : RecordValidation(w)
    /\ \/ audit' = audit
       \/ \E j \in Jobs : AuditSubmission(j)
       \/ \E w \in Workers : AuditOutcome(w)
    /\ \/ status' = status /\ result' = result
       \/ \E j \in Jobs : SubmitRun(j)
       \/ \E w \in Workers : RecordRunning(w) \/ RecordOutcome(w)
    /\ \/ row' = row
       \/ \E j \in Jobs, s \in RunEventTypes \ Terminal : Emit(j, s)
       \/ \E w \in Workers : EmitOutcome(w)
    /\ deliveries' = deliveries \/ \E w \in Workers, j \in Jobs : Deliver(w, j)

\* Every step respects the frame.
LEMMA FrameStep == TypeOK /\ WorkerInv /\ [Next]_vars => Frame
<1> SUFFICES ASSUME TypeOK, WorkerInv, [Next]_vars
             PROVE  Frame
  OBVIOUS
<1> USE DEF Frame, apiVars, brokerVars, jobVars, dataVars, trailVars
<1>1. ASSUME NEW j \in Jobs, SubmitRun(j) PROVE Frame
  BY <1>1
     DEF SubmitRun
<1>2. ASSUME NEW j \in Jobs, PublishRunJob(j) PROVE Frame
  BY <1>2
     DEF PublishRunJob
<1>3. ASSUME NEW j \in Jobs, PublishFails(j) PROVE Frame
  BY <1>3
     DEF PublishFails
<1>4. ASSUME NEW j \in Jobs, RecordQueuedEvent(j) PROVE Frame
  <2>1. "queued" \in RunEventTypes \ Terminal
    BY DEF RunEventTypes, Stages, Terminal
  <2> QED
    BY <1>4, <2>1 DEF RecordQueuedEvent
<1>5. ASSUME NEW j \in Jobs, AuditSubmission(j) PROVE Frame
  BY <1>5
     DEF AuditSubmission
<1>6. ASSUME NEW w \in Workers, NEW j \in Jobs, Deliver(w, j) PROVE Frame
  BY <1>6
     DEF Deliver
<1>7. ASSUME NEW w \in Workers, RecordRunning(w) PROVE Frame
  BY <1>7
     DEF RecordRunning
<1>8. ASSUME NEW w \in Workers, ProcessingRaises(w) PROVE Frame
  BY <1>8
     DEF ProcessingRaises
<1>9. ASSUME NEW w \in Workers, ExperimentNotFound(w) PROVE Frame
  BY <1>9
     DEF ExperimentNotFound
<1>10. ASSUME NEW w \in Workers, Prepare(w) PROVE Frame
  <2>1. cur[w] \in Jobs
    BY <1>10, BusyHasJob
       DEF Prepare, Busy, Unrecorded, Executing, Stages, NextStage
  <2>2. "preparing" \in RunEventTypes \ Terminal
    BY <1>10 DEF Prepare, RunEventTypes, Stages, Terminal, NextStage
  <2> QED
    BY <1>10, <2>1, <2>2 DEF Prepare
<1>11. ASSUME NEW w \in Workers, CheckSafety(w) PROVE Frame
  <2>1. cur[w] \in Jobs
    BY <1>11, BusyHasJob
       DEF CheckSafety, Busy, Unrecorded, Executing, Stages, NextStage
  <2>2. "safety_check" \in RunEventTypes \ Terminal
    BY <1>11 DEF CheckSafety, RunEventTypes, Stages, Terminal, NextStage
  <2> QED
    BY <1>11, <2>1, <2>2 DEF CheckSafety
<1>12. ASSUME NEW w \in Workers, Refuse(w) PROVE Frame
  BY <1>12
     DEF Refuse
<1>13. ASSUME NEW w \in Workers, RunBaseline(w) PROVE Frame
  <2>1. cur[w] \in Jobs
    BY <1>13, BusyHasJob
       DEF RunBaseline, Busy, Unrecorded, Executing, Stages, NextStage
  <2>2. "running_baseline" \in RunEventTypes \ Terminal
    BY <1>13 DEF RunBaseline, RunEventTypes, Stages, Terminal, NextStage
  <2> QED
    BY <1>13, <2>1, <2>2 DEF RunBaseline
<1>14. ASSUME NEW w \in Workers, RunStage(w) PROVE Frame
  <2>1. cur[w] \in Jobs
    BY <1>14, BusyHasJob
       DEF RunStage, Busy, Unrecorded, Executing, Stages, NextStage
  <2>2. NextStage[pc[w]] \in RunEventTypes \ Terminal
    BY <1>14 DEF RunStage, RunEventTypes, Stages, Terminal, NextStage
  <2> QED
    BY <1>14, <2>1, <2>2 DEF RunStage
<1>15. ASSUME NEW w \in Workers, SaveBaseline(w) PROVE Frame
  BY <1>15
     DEF SaveBaseline
<1>16. ASSUME NEW w \in Workers, SaveMitigation(w) PROVE Frame
  BY <1>16
     DEF SaveMitigation
<1>17. ASSUME NEW w \in Workers, SaveComparison(w) PROVE Frame
  BY <1>17
     DEF SaveComparison
<1>18. ASSUME NEW w \in Workers, ExecutionRaises(w) PROVE Frame
  BY <1>18
     DEF ExecutionRaises
<1>19. ASSUME NEW w \in Workers, RecordOutcome(w) PROVE Frame
  BY <1>19
     DEF RecordOutcome
<1>20. ASSUME NEW w \in Workers, EmitOutcome(w) PROVE Frame
  BY <1>20
     DEF EmitOutcome
<1>21. ASSUME NEW w \in Workers, AuditOutcome(w) PROVE Frame
  BY <1>21
     DEF AuditOutcome
<1>22. ASSUME NEW w \in Workers, RecordValidation(w) PROVE Frame
  BY <1>22
     DEF RecordValidation
<1>23. ASSUME NEW w \in Workers, Acknowledge(w) PROVE Frame
  BY <1>23
     DEF Acknowledge
<1>24. ASSUME NEW w \in Workers, LoseConnection(w) PROVE Frame
  BY <1>24
     DEF LoseConnection
<1>25. ASSUME NEW w \in Workers, Crash(w) PROVE Frame
  BY <1>25
     DEF Crash
<1>26. ASSUME NEW w \in Workers, Restart(w) PROVE Frame
  BY <1>26
     DEF Restart
<1>27. ASSUME NEW e \in Experiments, ChangeCatalog(e) PROVE Frame
  BY <1>27
     DEF ChangeCatalog
<1>28. CASE UNCHANGED vars
  BY <1>28
     DEF vars
<1> QED
  BY <1>1, <1>2, <1>3, <1>4, <1>5, <1>6, <1>7, <1>8, <1>9, <1>10,
     <1>11, <1>12, <1>13, <1>14, <1>15, <1>16, <1>17, <1>18, <1>19, <1>20,
     <1>21, <1>22, <1>23, <1>24, <1>25, <1>26, <1>27, <1>28
     DEF Next, Handler, Process, Execute, Environment

\* Evidence is never removed.
LEMMA EvidenceGrows ==
    ASSUME TypeOK, WorkerInv, [Next]_vars
    PROVE  evidence \subseteq evidence'
  BY FrameStep DEF Frame, SaveBaseline, SaveMitigation

\* A run that has both bundles keeps them.
LEMMA HasEvidenceStable ==
    ASSUME TypeOK, WorkerInv, [Next]_vars, NEW j, NEW a
    PROVE  /\ HasEvidence(j, a) => HasEvidence(j, a)'
           /\ HasBaseline(j, a) => HasBaseline(j, a)'
  BY EvidenceGrows DEF HasEvidence, HasBaseline

-----------------------------------------------------------------------------
(***************************************************************************)
(* The safety gate.                                                        *)
(***************************************************************************)

\* What the four rules together guarantee of a definition.
LEMMA PolicyMeaning ==
    ASSUME NEW d \in Definitions, NEW ctx \in ExecutionContexts,
           evaluate(d, ctx)
    PROVE  /\ ~d.external_targeting
           /\ ~d.weaponised_payloads
           /\ d.input_classification = "synthetic"
           /\ d.approval_status = "approved" \/ ctx = "local_unit_test"
<1>1. d \in ExperimentDefinitions
  BY ConstantsAssumption
<1>2. d.safety_level = "SYNTHETIC_ONLY"
  BY <1>1 DEF ExperimentDefinitions, SafetyLevels
<1> QED
  BY <1>2 DEF evaluate, check_safe_001, check_safe_002, check_safe_003,
              check_safe_004

\* A worker that writes evidence writes it for a definition the policy allows.
LEMMA SavedIsAllowed ==
    ASSUME TypeOK, WorkerInv, NEW w \in Workers, pc[w] \in Checked, NEW m
    PROVE  LET b == Bundle(w, m)
           IN  /\ ~b.definition.external_targeting
               /\ ~b.definition.weaponised_payloads
               /\ b.definition.input_classification = "synthetic"
               /\ \/ b.definition.approval_status = "approved"
                  \/ Context(b.job) = "local_unit_test"
<1>1. WorkerOK(w)
  BY DEF WorkerInv
<1>2. cur[w] \in Jobs
  BY <1>1 DEF WorkerOK, Busy, Checked, Unrecorded, Executing, Stages
<1>3. snapshot[w] \in Definitions /\ Allowed(w)
  BY <1>1 DEF WorkerOK, Checked, Executing, Stages
<1>4. Context(cur[w]) \in ExecutionContexts
  BY <1>2, ConstantsAssumption DEF Context
<1> QED
  BY <1>3, <1>4, PolicyMeaning DEF Allowed, Bundle

\* The policy is evaluated on the very definition that is executed, before any
\* strategy runs and before any evidence is written, on every delivery.
THEOREM GateHolds == Spec => []EvidenceWasAllowed
<1>1. Init => EvidenceWasAllowed
  BY DEF Init, EvidenceWasAllowed
<1>2. TypeOK /\ WorkerInv /\ EvidenceWasAllowed /\ [Next]_vars
          => EvidenceWasAllowed'
  <2> SUFFICES ASSUME TypeOK, WorkerInv, EvidenceWasAllowed, [Next]_vars
               PROVE  EvidenceWasAllowed'
    OBVIOUS
  <2>1. CASE evidence' = evidence
    BY <2>1 DEF EvidenceWasAllowed, Context
  <2>2. ASSUME NEW w \in Workers, SaveBaseline(w) \/ SaveMitigation(w)
        PROVE  EvidenceWasAllowed'
    <3>1. PICK m : evidence' = evidence \cup {Bundle(w, m)}
      BY <2>2 DEF SaveBaseline, SaveMitigation
    <3>2. pc[w] \in Checked
      BY <2>2 DEF SaveBaseline, SaveMitigation, Checked
    <3> QED
      BY <3>1, <3>2, SavedIsAllowed DEF EvidenceWasAllowed, Context
  <2> QED
    BY <2>1, <2>2, FrameStep DEF Frame
<1> QED
  BY <1>1, <1>2, Locals, PTL DEF Spec

-----------------------------------------------------------------------------
(***************************************************************************)
(* Completed runs have evidence.                                           *)
(***************************************************************************)

\* Every step keeps what a worker has saved in step with where it is.
LEMMA SavedStep ==
    TypeOK /\ WorkerInv /\ SavedInv /\ [Next]_vars => SavedInv'
<1> SUFFICES ASSUME TypeOK, WorkerInv, SavedInv, [Next]_vars, NEW v \in Workers
             PROVE  SavedOK(v)'
  BY DEF SavedInv
<1>0. SavedOK(v) /\ WorkerOK(v)
  BY DEF SavedInv, WorkerInv
<1>00. \A j, a : /\ HasEvidence(j, a) => HasEvidence(j, a)'
                 /\ HasBaseline(j, a) => HasBaseline(j, a)'
  BY HasEvidenceStable
<1> USE <1>0, <1>00
    DEF TypeOK, SavedOK, apiVars, brokerVars, jobVars, workVars
<1>1. ASSUME NEW j \in Jobs, SubmitRun(j) PROVE SavedOK(v)'
  BY <1>1
     DEF SubmitRun
<1>2. ASSUME NEW j \in Jobs, PublishRunJob(j) PROVE SavedOK(v)'
  BY <1>2
     DEF PublishRunJob
<1>3. ASSUME NEW j \in Jobs, PublishFails(j) PROVE SavedOK(v)'
  BY <1>3
     DEF PublishFails
<1>4. ASSUME NEW j \in Jobs, RecordQueuedEvent(j) PROVE SavedOK(v)'
  BY <1>4
     DEF RecordQueuedEvent
<1>5. ASSUME NEW j \in Jobs, AuditSubmission(j) PROVE SavedOK(v)'
  BY <1>5
     DEF AuditSubmission
<1>6. ASSUME NEW w \in Workers, NEW j \in Jobs, Deliver(w, j) PROVE SavedOK(v)'
  BY <1>6
     DEF Deliver, Goto, WorkerOK, Recorded
<1>7. ASSUME NEW w \in Workers, RecordRunning(w) PROVE SavedOK(v)'
  BY <1>7
     DEF RecordRunning, Goto
<1>8. ASSUME NEW w \in Workers, ProcessingRaises(w) PROVE SavedOK(v)'
  BY <1>8
     DEF ProcessingRaises, Goto
<1>9. ASSUME NEW w \in Workers, ExperimentNotFound(w) PROVE SavedOK(v)'
  BY <1>9
     DEF ExperimentNotFound, Finish, Goto
<1>10. ASSUME NEW w \in Workers, Prepare(w) PROVE SavedOK(v)'
  BY <1>10
     DEF Prepare, Goto
<1>11. ASSUME NEW w \in Workers, CheckSafety(w) PROVE SavedOK(v)'
  BY <1>11
     DEF CheckSafety, Goto
<1>12. ASSUME NEW w \in Workers, Refuse(w) PROVE SavedOK(v)'
  BY <1>12
     DEF Refuse, Finish, Goto
<1>13. ASSUME NEW w \in Workers, RunBaseline(w) PROVE SavedOK(v)'
  BY <1>13
     DEF RunBaseline, Goto
<1>14. ASSUME NEW w \in Workers, RunStage(w) PROVE SavedOK(v)'
  BY <1>14
     DEF RunStage, Goto, NextStage
<1>15. ASSUME NEW w \in Workers, SaveBaseline(w) PROVE SavedOK(v)'
  <2>1. HasBaseline(cur[w], attempt[w])'
    BY <1>15 DEF SaveBaseline, Bundle, HasBaseline
  <2> QED
    BY <1>15, <2>1 DEF SaveBaseline, Goto
<1>16. ASSUME NEW w \in Workers, SaveMitigation(w) PROVE SavedOK(v)'
  <2>1. HasBaseline(cur[w], attempt[w])
    BY <1>16 DEF SavedInv, SavedOK, SaveMitigation
  <2>2. HasBaseline(cur[w], attempt[w])'
    BY <1>16, <2>1 DEF SaveMitigation, HasBaseline
  <2>3. Bundle(w, "mitigated") \in evidence' /\ UNCHANGED <<cur, attempt>>
    BY <1>16 DEF SaveMitigation
  <2>4. HasEvidence(cur[w], attempt[w])'
    BY <2>2, <2>3 DEF Bundle, HasEvidence, HasBaseline
  <2> QED
    BY <1>16, <2>4 DEF SaveMitigation, Goto
<1>17. ASSUME NEW w \in Workers, SaveComparison(w) PROVE SavedOK(v)'
  BY <1>17
     DEF SaveComparison, Finish, Goto
<1>18. ASSUME NEW w \in Workers, ExecutionRaises(w) PROVE SavedOK(v)'
  BY <1>18
     DEF ExecutionRaises, Finish, Goto
<1>19. ASSUME NEW w \in Workers, RecordOutcome(w) PROVE SavedOK(v)'
  BY <1>19
     DEF RecordOutcome, Goto, WorkerOK, Recorded
<1>20. ASSUME NEW w \in Workers, EmitOutcome(w) PROVE SavedOK(v)'
  BY <1>20
     DEF EmitOutcome, Goto
<1>21. ASSUME NEW w \in Workers, AuditOutcome(w) PROVE SavedOK(v)'
  BY <1>21
     DEF AuditOutcome, Goto
<1>22. ASSUME NEW w \in Workers, RecordValidation(w) PROVE SavedOK(v)'
  BY <1>22
     DEF RecordValidation, Goto
<1>23. ASSUME NEW w \in Workers, Acknowledge(w) PROVE SavedOK(v)'
  BY <1>23
     DEF Acknowledge, Goto, Forget
<1>24. ASSUME NEW w \in Workers, LoseConnection(w) PROVE SavedOK(v)'
  BY <1>24
     DEF LoseConnection
<1>25. ASSUME NEW w \in Workers, Crash(w) PROVE SavedOK(v)'
  BY <1>25
     DEF Crash, Goto, Forget
<1>26. ASSUME NEW w \in Workers, Restart(w) PROVE SavedOK(v)'
  BY <1>26
     DEF Restart, Goto
<1>27. ASSUME NEW e \in Experiments, ChangeCatalog(e) PROVE SavedOK(v)'
  BY <1>27
     DEF ChangeCatalog
<1>28. CASE UNCHANGED vars
  BY <1>28
     DEF vars
<1> QED
  BY <1>1, <1>2, <1>3, <1>4, <1>5, <1>6, <1>7, <1>8, <1>9, <1>10,
     <1>11, <1>12, <1>13, <1>14, <1>15, <1>16, <1>17, <1>18, <1>19, <1>20,
     <1>21, <1>22, <1>23, <1>24, <1>25, <1>26, <1>27, <1>28
     DEF Next, Handler, Process, Execute, Environment

\* The worker part of the invariant in every reachable state.
LEMMA Saved == Spec => []SavedInv
<1>1. Init => SavedInv
  BY DEF Init, SavedInv, SavedOK
<1> QED
  BY <1>1, SavedStep, Locals, PTL DEF Spec

\* A job polled as completed, or whose runs row says so, has the two evidence
\* bundles of the execution it names.
THEOREM CompletedBacked == Spec => []CompletedHasEvidence
<1>1. Init => CompletedHasEvidence
  BY DEF Init, CompletedHasEvidence
<1>2. TypeOK /\ TypeOK' /\ WorkerInv /\ SavedInv /\ CompletedHasEvidence
          /\ [Next]_vars => CompletedHasEvidence'
  <2> SUFFICES ASSUME TypeOK, TypeOK', WorkerInv, SavedInv,
                      CompletedHasEvidence, [Next]_vars, NEW i \in Jobs
               PROVE
          /\ status'[i] = "completed" => HasEvidence(i, result[i])'
          /\ row'[i] = "completed" =>
                 \E a \in 1..deliveries'[i] : HasEvidence(i, a)'
    BY DEF CompletedHasEvidence
  <2>1. /\ status[i] = "completed" => HasEvidence(i, result[i])
        /\ row[i] = "completed" => \E a \in 1..deliveries[i] : HasEvidence(i, a)
    BY DEF CompletedHasEvidence
  <2>2. \A j, a : HasEvidence(j, a) => HasEvidence(j, a)'
    BY HasEvidenceStable
  <2>3. Frame
    BY FrameStep
  <2>4. deliveries[i] \in Nat /\ deliveries'[i] \in Nat
    BY DEF TypeOK
  <2>5. deliveries[i] <= deliveries'[i]
    <3>1. CASE deliveries' = deliveries
      BY <3>1, <2>4
    <3>2. ASSUME NEW w \in Workers, NEW j \in Jobs, Deliver(w, j)
          PROVE  deliveries[i] <= deliveries'[i]
      BY <3>2, <2>4 DEF Deliver, TypeOK
    <3> QED
      BY <3>1, <3>2, <2>3 DEF Frame
  <2>6. ASSUME NEW w \in Workers, outcome[w] = "completed", pc[w] \in {"outcome", "recorded"}
        PROVE  /\ HasEvidence(cur[w], attempt[w])
               /\ cur[w] \in Jobs
               /\ attempt[w] \in 1..deliveries[cur[w]]
    <3>1. WorkerOK(w) /\ SavedOK(w)
      BY DEF WorkerInv, SavedInv
    <3>2. Busy(w)
      BY <2>6 DEF Busy, Unrecorded, Recorded
    <3> QED
      BY <2>6, <3>1, <3>2 DEF WorkerOK, SavedOK, TypeOK
  <2>7. status'[i] = "completed" => HasEvidence(i, result[i])'
    <3>1. CASE status' = status /\ result' = result
      BY <3>1, <2>1, <2>2 DEF HasEvidence
    <3>2. ASSUME NEW j \in Jobs, SubmitRun(j), status'[i] = "completed"
          PROVE  HasEvidence(i, result[i])'
      <4>1. status'[i] = status[i] /\ result'[i] = result[i]
        BY <3>2 DEF SubmitRun, SaveRecord, TypeOK
      <4> QED
        BY <4>1, <3>2, <2>1, <2>2 DEF HasEvidence
    <3>3. ASSUME NEW w \in Workers, RecordRunning(w), status'[i] = "completed"
          PROVE  HasEvidence(i, result[i])'
      <4>1. status'[i] = status[i] /\ result'[i] = result[i]
        BY <3>3 DEF RecordRunning, SaveRecord, TypeOK
      <4> QED
        BY <4>1, <3>3, <2>1, <2>2 DEF HasEvidence
    <3>4. ASSUME NEW w \in Workers, RecordOutcome(w), status'[i] = "completed"
          PROVE  HasEvidence(i, result[i])'
      <4>1. CASE cur[w] = i
        <5>1. outcome[w] = "completed" /\ result'[i] = attempt[w]
          BY <3>4, <4>1 DEF RecordOutcome, SaveRecord, StatusOf, TypeOK
        <5>2. HasEvidence(i, attempt[w])
          BY <5>1, <4>1, <3>4, <2>6 DEF RecordOutcome
        <5>3. evidence' = evidence
          BY <3>4 DEF RecordOutcome, dataVars
        <5> QED
          BY <5>1, <5>2, <5>3 DEF HasEvidence
      <4>2. CASE cur[w] # i
        <5>1. status'[i] = status[i] /\ result'[i] = result[i]
          BY <3>4, <4>2 DEF RecordOutcome, SaveRecord, TypeOK
        <5> QED
          BY <5>1, <3>4, <2>1, <2>2 DEF HasEvidence
      <4> QED
        BY <4>1, <4>2
    <3> QED
      BY <3>1, <3>2, <3>3, <3>4, <2>3 DEF Frame
  <2>8. row'[i] = "completed" =>
            \E a \in 1..deliveries'[i] : HasEvidence(i, a)'
    <3>1. ASSUME row'[i] = row[i], row'[i] = "completed"
          PROVE  \E a \in 1..deliveries'[i] : HasEvidence(i, a)'
      <4>1. PICK a \in 1..deliveries[i] : HasEvidence(i, a)
        BY <3>1, <2>1
      <4>2. a \in 1..deliveries'[i] /\ HasEvidence(i, a)'
        BY <4>1, <2>2, <2>4, <2>5
      <4> QED
        BY <4>2
    <3>2. ASSUME NEW j \in Jobs, NEW s \in RunEventTypes \ Terminal, Emit(j, s),
                 row'[i] = "completed"
          PROVE  row'[i] = row[i]
      BY <3>2 DEF Emit, TypeOK, Terminal
    <3>3. ASSUME NEW w \in Workers, EmitOutcome(w), row'[i] = "completed",
                 row'[i] # row[i]
          PROVE  \E a \in 1..deliveries'[i] : HasEvidence(i, a)'
      <4>1. cur[w] = i /\ outcome[w] = "completed"
        BY <3>3 DEF EmitOutcome, Emit, StatusOf, TypeOK
      <4>2. attempt[w] \in 1..deliveries[i] /\ HasEvidence(i, attempt[w])
        BY <4>1, <3>3, <2>6 DEF EmitOutcome
      <4>3. PICK a \in 1..deliveries[i] : HasEvidence(i, a)
        BY <4>2
      <4>4. a \in 1..deliveries'[i] /\ HasEvidence(i, a)'
        BY <4>3, <2>2, <2>4, <2>5
      <4> QED
        BY <4>4
    <3> QED
      BY <3>1, <3>2, <3>3, <2>3 DEF Frame
  <2> QED
    BY <2>7, <2>8
<1> QED
  BY <1>1, <1>2, Locals, Saved, PTL DEF Spec

\* What refers to a run refers to one whose two bundles were saved: the
\* comparison a verdict is read from, evidence_created audit events, control
\* validations.
THEOREM ReferencesBacked == Spec => []DownstreamBacked
<1>1. Init => DownstreamBacked
  BY DEF Init, DownstreamBacked
<1>2. TypeOK /\ WorkerInv /\ SavedInv /\ DownstreamBacked /\ [Next]_vars
          => DownstreamBacked'
  <2> SUFFICES ASSUME TypeOK, WorkerInv, SavedInv, DownstreamBacked, [Next]_vars
               PROVE  DownstreamBacked'
    OBVIOUS
  <2>1. \A j, a : HasEvidence(j, a) => HasEvidence(j, a)'
    BY HasEvidenceStable
  <2>2. Frame
    BY FrameStep
  <2>3. \A e \in Experiments :
            comparison'[e] # NoRun =>
                HasEvidence(comparison[e].job, comparison[e].attempt)'
    <3>1. CASE comparison' = comparison
      BY <3>1, <2>1 DEF DownstreamBacked, HasEvidence
    <3>2. ASSUME NEW w \in Workers, SaveComparison(w), NEW e \in Experiments,
                 comparison'[e] # NoRun
          PROVE  HasEvidence(comparison[e].job, comparison[e].attempt)'
      <4>1. HasEvidence(cur[w], attempt[w])
        BY <3>2 DEF SaveComparison, SavedInv, SavedOK
      <4>2. evidence' = evidence
        BY <3>2 DEF SaveComparison
      <4>3. \/ comparison'[e] = comparison[e]
            \/ comparison'[e] = [job |-> cur[w], attempt |-> attempt[w]]
        BY <3>2 DEF SaveComparison, TypeOK
      <4> QED
        BY <4>1, <4>2, <4>3, <3>2 DEF DownstreamBacked, HasEvidence
    <3> QED
      BY <3>1, <3>2, <2>2 DEF Frame
  <2>4. \A x \in audit' :
            x.action = "evidence_created" => HasEvidence(x.job, x.attempt)'
    <3>1. CASE audit' = audit
      BY <3>1, <2>1 DEF DownstreamBacked
    <3>2. ASSUME NEW j \in Jobs, AuditSubmission(j)
          PROVE  \A x \in audit' : x.action = "evidence_created" =>
                     HasEvidence(x.job, x.attempt)'
      BY <3>2, <2>1 DEF DownstreamBacked, AuditSubmission
    <3>3. ASSUME NEW w \in Workers, AuditOutcome(w)
          PROVE  \A x \in audit' : x.action = "evidence_created" =>
                     HasEvidence(x.job, x.attempt)'
      <4>1. outcome[w] \in {"completed", "denied", "failed"}
        BY <3>3 DEF AuditOutcome, WorkerInv, WorkerOK, TypeOK, Outcomes
      <4>2. AuditAction[outcome[w]] = "evidence_created" =>
                HasEvidence(cur[w], attempt[w])
        BY <4>1 DEF AuditAction, SavedInv, SavedOK
      <4> QED
        BY <3>3, <4>2, <2>1 DEF AuditOutcome, DownstreamBacked
    <3> QED
      BY <3>1, <3>2, <3>3, <2>2 DEF Frame
  <2>5. \A v \in validations' : HasEvidence(v.job, v.attempt)'
    <3>1. CASE validations' = validations
      BY <3>1, <2>1 DEF DownstreamBacked
    <3>2. ASSUME NEW w \in Workers, RecordValidation(w)
          PROVE  \A v \in validations' : HasEvidence(v.job, v.attempt)'
      <4>1. HasEvidence(cur[w], attempt[w])
        BY <3>2 DEF RecordValidation, WorkerInv, WorkerOK, SavedInv, SavedOK
      <4> QED
        BY <3>2, <4>1, <2>1 DEF RecordValidation, DownstreamBacked
    <3> QED
      BY <3>1, <3>2, <2>2 DEF Frame
  <2> QED
    BY <2>3, <2>4, <2>5 DEF DownstreamBacked
<1> QED
  BY <1>1, <1>2, Locals, Saved, PTL DEF Spec

-----------------------------------------------------------------------------
(***************************************************************************)
(* Delivery: a message is processed by one worker at a time and is not     *)
(* lost.                                                                   *)
(***************************************************************************)

\* A job the handler has not published yet stays out of the broker's and the
\* workers' hands.
LEMMA UnpublishedStep ==
    TypeOK /\ WorkerInv /\ UnpublishedInv /\ [Next]_vars => UnpublishedInv'
<1> SUFFICES ASSUME TypeOK, WorkerInv, UnpublishedInv, [Next]_vars,
                    NEW i \in Jobs
             PROVE  UnpublishedOK(i)'
  BY DEF UnpublishedInv
<1>0. UnpublishedOK(i)
  BY DEF UnpublishedInv
<1> USE <1>0, ConstantsAssumption
    DEF TypeOK, UnpublishedOK, Published, apiVars, brokerVars, jobVars,
        workVars, Terminal
<1>1. ASSUME NEW j \in Jobs, SubmitRun(j) PROVE UnpublishedOK(i)'
  BY <1>1
     DEF SubmitRun, SaveRecord
<1>2. ASSUME NEW j \in Jobs, PublishRunJob(j) PROVE UnpublishedOK(i)'
  BY <1>2
     DEF PublishRunJob
<1>3. ASSUME NEW j \in Jobs, PublishFails(j) PROVE UnpublishedOK(i)'
  BY <1>3
     DEF PublishFails
<1>4. ASSUME NEW j \in Jobs, RecordQueuedEvent(j) PROVE UnpublishedOK(i)'
  BY <1>4
     DEF RecordQueuedEvent
<1>5. ASSUME NEW j \in Jobs, AuditSubmission(j) PROVE UnpublishedOK(i)'
  BY <1>5
     DEF AuditSubmission
<1>6. ASSUME NEW w \in Workers, NEW j \in Jobs, Deliver(w, j) PROVE UnpublishedOK(i)'
  BY <1>6
     DEF Deliver, Goto
<1>7. ASSUME NEW w \in Workers, RecordRunning(w) PROVE UnpublishedOK(i)'
  BY <1>7
     DEF RecordRunning, SaveRecord, Goto
<1>8. ASSUME NEW w \in Workers, ProcessingRaises(w) PROVE UnpublishedOK(i)'
  BY <1>8
     DEF ProcessingRaises, Goto
<1>9. ASSUME NEW w \in Workers, ExperimentNotFound(w) PROVE UnpublishedOK(i)'
  BY <1>9
     DEF ExperimentNotFound, Goto
<1>10. ASSUME NEW w \in Workers, Prepare(w) PROVE UnpublishedOK(i)'
  BY <1>10
     DEF Prepare, Goto
<1>11. ASSUME NEW w \in Workers, CheckSafety(w) PROVE UnpublishedOK(i)'
  BY <1>11
     DEF CheckSafety, Goto
<1>12. ASSUME NEW w \in Workers, Refuse(w) PROVE UnpublishedOK(i)'
  BY <1>12
     DEF Refuse, Goto
<1>13. ASSUME NEW w \in Workers, RunBaseline(w) PROVE UnpublishedOK(i)'
  BY <1>13
     DEF RunBaseline, Goto
<1>14. ASSUME NEW w \in Workers, RunStage(w) PROVE UnpublishedOK(i)'
  BY <1>14
     DEF RunStage, Goto
<1>15. ASSUME NEW w \in Workers, SaveBaseline(w) PROVE UnpublishedOK(i)'
  BY <1>15
     DEF SaveBaseline, Goto
<1>16. ASSUME NEW w \in Workers, SaveMitigation(w) PROVE UnpublishedOK(i)'
  BY <1>16
     DEF SaveMitigation, Goto
<1>17. ASSUME NEW w \in Workers, SaveComparison(w) PROVE UnpublishedOK(i)'
  BY <1>17
     DEF SaveComparison, Goto
<1>18. ASSUME NEW w \in Workers, ExecutionRaises(w) PROVE UnpublishedOK(i)'
  BY <1>18
     DEF ExecutionRaises, Goto
<1>19. ASSUME NEW w \in Workers, RecordOutcome(w) PROVE UnpublishedOK(i)'
  BY <1>19
     DEF RecordOutcome, SaveRecord, Goto, StatusOf
<1>20. ASSUME NEW w \in Workers, EmitOutcome(w) PROVE UnpublishedOK(i)'
  BY <1>20
     DEF EmitOutcome, Goto, StatusOf
<1>21. ASSUME NEW w \in Workers, AuditOutcome(w) PROVE UnpublishedOK(i)'
  BY <1>21
     DEF AuditOutcome, Goto
<1>22. ASSUME NEW w \in Workers, RecordValidation(w) PROVE UnpublishedOK(i)'
  BY <1>22
     DEF RecordValidation, Goto
<1>23. ASSUME NEW w \in Workers, Acknowledge(w) PROVE UnpublishedOK(i)'
  BY <1>23
     DEF Acknowledge, Goto, Forget
<1>24. ASSUME NEW w \in Workers, LoseConnection(w) PROVE UnpublishedOK(i)'
  BY <1>24
     DEF LoseConnection, Requeue, Busy, WorkerInv, WorkerOK
<1>25. ASSUME NEW w \in Workers, Crash(w) PROVE UnpublishedOK(i)'
  BY <1>25
     DEF Crash, Goto, Forget, Requeue, Busy, WorkerInv, WorkerOK
<1>26. ASSUME NEW w \in Workers, Restart(w) PROVE UnpublishedOK(i)'
  BY <1>26
     DEF Restart, Goto
<1>27. ASSUME NEW e \in Experiments, ChangeCatalog(e) PROVE UnpublishedOK(i)'
  BY <1>27
     DEF ChangeCatalog
<1>28. CASE UNCHANGED vars
  BY <1>28
     DEF vars
<1> QED
  BY <1>1, <1>2, <1>3, <1>4, <1>5, <1>6, <1>7, <1>8, <1>9, <1>10,
     <1>11, <1>12, <1>13, <1>14, <1>15, <1>16, <1>17, <1>18, <1>19, <1>20,
     <1>21, <1>22, <1>23, <1>24, <1>25, <1>26, <1>27, <1>28
     DEF Next, Handler, Process, Execute, Environment

\* A worker that is inside process_run_job works on a published job.
LEMMA Unpublished == Spec => []UnpublishedInv
<1>1. Init => UnpublishedInv
  BY ConstantsAssumption DEF Init, UnpublishedInv, UnpublishedOK, Terminal
<1> QED
  BY <1>1, UnpublishedStep, Locals, PTL DEF Spec

\* A message that is never taken back has one copy, and no worker can record
\* RUNNING over the outcome of its only processing.
LEMMA FirstDeliveryStep ==
    TypeOK /\ TypeOK' /\ WorkerInv /\ UnpublishedInv /\ FirstDeliveryInv
        /\ [Next]_vars => FirstDeliveryInv'
<1> SUFFICES ASSUME TypeOK, TypeOK', WorkerInv, UnpublishedInv,
                    FirstDeliveryInv, [Next]_vars, NEW i \in Jobs
             PROVE  FirstDeliveryOK(i)'
  BY DEF FirstDeliveryInv
<1>0. FirstDeliveryOK(i) /\ UnpublishedOK(i)
  BY DEF FirstDeliveryInv, UnpublishedInv
<1>00. \A w \in Workers : Busy(w) <=> cur[w] \in Jobs
  BY DEF WorkerInv, WorkerOK
<1> USE <1>0, <1>00, ConstantsAssumption
    DEF TypeOK, FirstDeliveryOK, Exclusive, UnpublishedOK, Published, Busy,
        apiVars, brokerVars, jobVars, workVars, Recorded
<1>1. ASSUME NEW j \in Jobs, SubmitRun(j) PROVE FirstDeliveryOK(i)'
  BY <1>1
     DEF SubmitRun, SaveRecord, Terminal, Unrecorded, Executing, Stages
<1>2. ASSUME NEW j \in Jobs, PublishRunJob(j) PROVE FirstDeliveryOK(i)'
  BY <1>2
     DEF PublishRunJob, Unrecorded, Executing, Stages
<1>3. ASSUME NEW j \in Jobs, PublishFails(j) PROVE FirstDeliveryOK(i)'
  BY <1>3
     DEF PublishFails, Unrecorded, Executing, Stages
<1>4. ASSUME NEW j \in Jobs, RecordQueuedEvent(j) PROVE FirstDeliveryOK(i)'
  BY <1>4
     DEF RecordQueuedEvent, Unrecorded, Executing, Stages
<1>5. ASSUME NEW j \in Jobs, AuditSubmission(j) PROVE FirstDeliveryOK(i)'
  BY <1>5
     DEF AuditSubmission, Unrecorded, Executing, Stages
<1>6. ASSUME NEW w \in Workers, NEW j \in Jobs, Deliver(w, j) PROVE FirstDeliveryOK(i)'
  BY <1>6
     DEF Deliver, Goto, Terminal, Unrecorded, Executing, Stages
<1>7. ASSUME NEW w \in Workers, RecordRunning(w) PROVE FirstDeliveryOK(i)'
  BY <1>7
     DEF RecordRunning, SaveRecord, Goto, Terminal, Unrecorded, Executing,
         Stages
<1>8. ASSUME NEW w \in Workers, ProcessingRaises(w) PROVE FirstDeliveryOK(i)'
  BY <1>8
     DEF ProcessingRaises, Goto, Unrecorded, Executing, Stages
<1>9. ASSUME NEW w \in Workers, ExperimentNotFound(w) PROVE FirstDeliveryOK(i)'
  BY <1>9
     DEF ExperimentNotFound, Finish, Goto, Unrecorded, Executing, Stages
<1>10. ASSUME NEW w \in Workers, Prepare(w) PROVE FirstDeliveryOK(i)'
  BY <1>10
     DEF Prepare, Goto, Unrecorded, Executing, Stages
<1>11. ASSUME NEW w \in Workers, CheckSafety(w) PROVE FirstDeliveryOK(i)'
  BY <1>11
     DEF CheckSafety, Goto, Unrecorded, Executing, Stages
<1>12. ASSUME NEW w \in Workers, Refuse(w) PROVE FirstDeliveryOK(i)'
  BY <1>12
     DEF Refuse, Finish, Goto, Unrecorded, Executing, Stages
<1>13. ASSUME NEW w \in Workers, RunBaseline(w) PROVE FirstDeliveryOK(i)'
  BY <1>13
     DEF RunBaseline, Goto, Unrecorded, Executing, Stages
<1>14. ASSUME NEW w \in Workers, RunStage(w) PROVE FirstDeliveryOK(i)'
  BY <1>14
     DEF RunStage, Goto, NextStage, Unrecorded, Executing, Stages
<1>15. ASSUME NEW w \in Workers, SaveBaseline(w) PROVE FirstDeliveryOK(i)'
  BY <1>15
     DEF SaveBaseline, Goto, Unrecorded, Executing, Stages
<1>16. ASSUME NEW w \in Workers, SaveMitigation(w) PROVE FirstDeliveryOK(i)'
  BY <1>16
     DEF SaveMitigation, Goto, Unrecorded, Executing, Stages
<1>17. ASSUME NEW w \in Workers, SaveComparison(w) PROVE FirstDeliveryOK(i)'
  BY <1>17
     DEF SaveComparison, Finish, Goto, Unrecorded, Executing, Stages
<1>18. ASSUME NEW w \in Workers, ExecutionRaises(w) PROVE FirstDeliveryOK(i)'
  BY <1>18
     DEF ExecutionRaises, Finish, Goto, Unrecorded, Executing, Stages
<1>19. ASSUME NEW w \in Workers, RecordOutcome(w) PROVE FirstDeliveryOK(i)'
  BY <1>19
     DEF RecordOutcome, SaveRecord, Goto, Unrecorded, Executing, Stages
<1>20. ASSUME NEW w \in Workers, EmitOutcome(w) PROVE FirstDeliveryOK(i)'
  BY <1>20
     DEF EmitOutcome, Goto, Unrecorded, Executing, Stages
<1>21. ASSUME NEW w \in Workers, AuditOutcome(w) PROVE FirstDeliveryOK(i)'
  BY <1>21
     DEF AuditOutcome, Goto, Unrecorded, Executing, Stages
<1>22. ASSUME NEW w \in Workers, RecordValidation(w) PROVE FirstDeliveryOK(i)'
  BY <1>22
     DEF RecordValidation, Goto, Unrecorded, Executing, Stages
<1>23. ASSUME NEW w \in Workers, Acknowledge(w) PROVE FirstDeliveryOK(i)'
  BY <1>23
     DEF Acknowledge, Goto, Forget, Unrecorded, Executing, Stages
<1>24. ASSUME NEW w \in Workers, LoseConnection(w) PROVE FirstDeliveryOK(i)'
  BY <1>24
     DEF LoseConnection, Requeue, Unrecorded, Executing, Stages
<1>25. ASSUME NEW w \in Workers, Crash(w) PROVE FirstDeliveryOK(i)'
  BY <1>25
     DEF Crash, Goto, Forget, Requeue, Unrecorded, Executing, Stages
<1>26. ASSUME NEW w \in Workers, Restart(w) PROVE FirstDeliveryOK(i)'
  BY <1>26
     DEF Restart, Goto, Unrecorded, Executing, Stages
<1>27. ASSUME NEW e \in Experiments, ChangeCatalog(e) PROVE FirstDeliveryOK(i)'
  BY <1>27
     DEF ChangeCatalog, Unrecorded, Executing, Stages
<1>28. CASE UNCHANGED vars
  BY <1>28
     DEF vars, Unrecorded, Executing, Stages
<1> QED
  BY <1>1, <1>2, <1>3, <1>4, <1>5, <1>6, <1>7, <1>8, <1>9, <1>10,
     <1>11, <1>12, <1>13, <1>14, <1>15, <1>16, <1>17, <1>18, <1>19, <1>20,
     <1>21, <1>22, <1>23, <1>24, <1>25, <1>26, <1>27, <1>28
     DEF Next, Handler, Process, Execute, Environment

\* A finished record is rewritten only if the broker took the message back.
LEMMA FirstDelivery == Spec => []FirstDeliveryInv
<1>1. Init => FirstDeliveryInv
  BY ConstantsAssumption
     DEF Init, FirstDeliveryInv, FirstDeliveryOK, Exclusive, Terminal
<1> QED
  BY <1>1, FirstDeliveryStep, Unpublished, Locals, PTL DEF Spec

\* One delivery records one outcome: the record of a finished job changes only
\* after the broker has taken its message back.
THEOREM RewriteNeedsRequeue == Spec => RewrittenOnlyAfterRequeue
<1>1. TypeOK /\ WorkerInv /\ UnpublishedInv /\ FirstDeliveryInv /\ [Next]_vars
          => [\A j \in Jobs :
                 (status[j] \in Terminal
                     /\ <<status[j], result[j]>>' # <<status[j], result[j]>>)
                 => requeues[j] > 0]_vars
  <2> SUFFICES ASSUME TypeOK, WorkerInv, UnpublishedInv, FirstDeliveryInv,
                      [Next]_vars, NEW i \in Jobs, status[i] \in Terminal,
                      <<status[i], result[i]>>' # <<status[i], result[i]>>,
                      requeues[i] = 0
               PROVE  FALSE
    BY DEF TypeOK
  <2>0. FirstDeliveryOK(i) /\ UnpublishedOK(i)
    BY DEF FirstDeliveryInv, UnpublishedInv
  <2>1. CASE status' = status /\ result' = result
    BY <2>1
  <2>2. ASSUME NEW j \in Jobs, SubmitRun(j) PROVE FALSE
    BY <2>2, <2>0
       DEF SubmitRun, SaveRecord, TypeOK, UnpublishedOK, Published
  <2>3. ASSUME NEW w \in Workers, RecordRunning(w) \/ RecordOutcome(w)
        PROVE  FALSE
    <3>1. cur[w] = i
      BY <2>3 DEF RecordRunning, RecordOutcome, SaveRecord, TypeOK
    <3>2. pc[w] \in Recorded
      BY <2>0, <3>1 DEF FirstDeliveryOK
    <3> QED
      BY <2>3, <3>2 DEF RecordRunning, RecordOutcome, Recorded
  <2> QED
    BY <2>1, <2>2, <2>3, FrameStep DEF Frame
<1> QED
  BY <1>1, Locals, Unpublished, FirstDelivery, PTL
     DEF Spec, RewrittenOnlyAfterRequeue

\* A job never gets rid of its mishaps.
LEMMA MishapsGrow == [Next]_vars => mishaps \subseteq mishaps'
<1> SUFFICES ASSUME [Next]_vars
             PROVE  mishaps \subseteq mishaps'
  OBVIOUS
<1>1. ASSUME NEW j \in Jobs, SubmitRun(j) PROVE mishaps \subseteq mishaps'
  BY <1>1
     DEF SubmitRun
<1>2. ASSUME NEW j \in Jobs, PublishRunJob(j) PROVE mishaps \subseteq mishaps'
  BY <1>2
     DEF PublishRunJob
<1>3. ASSUME NEW j \in Jobs, PublishFails(j) PROVE mishaps \subseteq mishaps'
  BY <1>3
     DEF PublishFails
<1>4. ASSUME NEW j \in Jobs, RecordQueuedEvent(j) PROVE mishaps \subseteq mishaps'
  BY <1>4
     DEF RecordQueuedEvent, Emit
<1>5. ASSUME NEW j \in Jobs, AuditSubmission(j) PROVE mishaps \subseteq mishaps'
  BY <1>5
     DEF AuditSubmission
<1>6. ASSUME NEW w \in Workers, NEW j \in Jobs, Deliver(w, j) PROVE mishaps \subseteq mishaps'
  BY <1>6
     DEF Deliver
<1>7. ASSUME NEW w \in Workers, RecordRunning(w) PROVE mishaps \subseteq mishaps'
  BY <1>7
     DEF RecordRunning
<1>8. ASSUME NEW w \in Workers, ProcessingRaises(w) PROVE mishaps \subseteq mishaps'
  BY <1>8
     DEF ProcessingRaises
<1>9. ASSUME NEW w \in Workers, ExperimentNotFound(w) PROVE mishaps \subseteq mishaps'
  BY <1>9
     DEF ExperimentNotFound
<1>10. ASSUME NEW w \in Workers, Prepare(w) PROVE mishaps \subseteq mishaps'
  BY <1>10
     DEF Prepare, Emit
<1>11. ASSUME NEW w \in Workers, CheckSafety(w) PROVE mishaps \subseteq mishaps'
  BY <1>11
     DEF CheckSafety, Emit
<1>12. ASSUME NEW w \in Workers, Refuse(w) PROVE mishaps \subseteq mishaps'
  BY <1>12
     DEF Refuse
<1>13. ASSUME NEW w \in Workers, RunBaseline(w) PROVE mishaps \subseteq mishaps'
  BY <1>13
     DEF RunBaseline, Emit
<1>14. ASSUME NEW w \in Workers, RunStage(w) PROVE mishaps \subseteq mishaps'
  BY <1>14
     DEF RunStage, Emit
<1>15. ASSUME NEW w \in Workers, SaveBaseline(w) PROVE mishaps \subseteq mishaps'
  BY <1>15
     DEF SaveBaseline
<1>16. ASSUME NEW w \in Workers, SaveMitigation(w) PROVE mishaps \subseteq mishaps'
  BY <1>16
     DEF SaveMitigation
<1>17. ASSUME NEW w \in Workers, SaveComparison(w) PROVE mishaps \subseteq mishaps'
  BY <1>17
     DEF SaveComparison
<1>18. ASSUME NEW w \in Workers, ExecutionRaises(w) PROVE mishaps \subseteq mishaps'
  BY <1>18
     DEF ExecutionRaises
<1>19. ASSUME NEW w \in Workers, RecordOutcome(w) PROVE mishaps \subseteq mishaps'
  BY <1>19
     DEF RecordOutcome
<1>20. ASSUME NEW w \in Workers, EmitOutcome(w) PROVE mishaps \subseteq mishaps'
  BY <1>20
     DEF EmitOutcome
<1>21. ASSUME NEW w \in Workers, AuditOutcome(w) PROVE mishaps \subseteq mishaps'
  BY <1>21
     DEF AuditOutcome
<1>22. ASSUME NEW w \in Workers, RecordValidation(w) PROVE mishaps \subseteq mishaps'
  BY <1>22
     DEF RecordValidation
<1>23. ASSUME NEW w \in Workers, Acknowledge(w) PROVE mishaps \subseteq mishaps'
  BY <1>23
     DEF Acknowledge
<1>24. ASSUME NEW w \in Workers, LoseConnection(w) PROVE mishaps \subseteq mishaps'
  BY <1>24
     DEF LoseConnection
<1>25. ASSUME NEW w \in Workers, Crash(w) PROVE mishaps \subseteq mishaps'
  BY <1>25
     DEF Crash
<1>26. ASSUME NEW w \in Workers, Restart(w) PROVE mishaps \subseteq mishaps'
  BY <1>26
     DEF Restart
<1>27. ASSUME NEW e \in Experiments, ChangeCatalog(e) PROVE mishaps \subseteq mishaps'
  BY <1>27
     DEF ChangeCatalog
<1>28. CASE UNCHANGED vars
  BY <1>28
     DEF vars
<1> QED
  BY <1>1, <1>2, <1>3, <1>4, <1>5, <1>6, <1>7, <1>8, <1>9, <1>10,
     <1>11, <1>12, <1>13, <1>14, <1>15, <1>16, <1>17, <1>18, <1>19, <1>20,
     <1>21, <1>22, <1>23, <1>24, <1>25, <1>26, <1>27, <1>28
     DEF Next, Handler, Process, Execute, Environment

\* The broker counts in the workers of every job without mishaps: a worker
\* takes a message on a live connection, and a connection that is dropped
\* meanwhile is a mishap of the job.
LEMMA ConnectedStep ==
    TypeOK /\ WorkerInv /\ ConnectedInv /\ [Next]_vars => ConnectedInv'
<1> SUFFICES ASSUME TypeOK, WorkerInv, ConnectedInv, [Next]_vars,
                    NEW v \in Workers, Busy(v)', cur'[v] \notin mishaps'
             PROVE  connected'[v]
  BY DEF ConnectedInv
<1>0. Busy(v) /\ cur[v] \notin mishaps => connected[v]
  BY DEF ConnectedInv
<1>00. mishaps \subseteq mishaps'
  BY MishapsGrow
<1>000. \A w \in Workers : Busy(w) <=> cur[w] \in Jobs
  BY DEF WorkerInv, WorkerOK
<1> USE <1>0, <1>00, <1>000, ConstantsAssumption
    DEF TypeOK, brokerVars, workVars, Busy, Recorded, Unrecorded, Executing,
        Stages, Goto
<1>1. ASSUME NEW j \in Jobs, SubmitRun(j) PROVE connected'[v]
  BY <1>1
     DEF SubmitRun
<1>2. ASSUME NEW j \in Jobs, PublishRunJob(j) PROVE connected'[v]
  BY <1>2
     DEF PublishRunJob
<1>3. ASSUME NEW j \in Jobs, PublishFails(j) PROVE connected'[v]
  BY <1>3
     DEF PublishFails
<1>4. ASSUME NEW j \in Jobs, RecordQueuedEvent(j) PROVE connected'[v]
  BY <1>4
     DEF RecordQueuedEvent
<1>5. ASSUME NEW j \in Jobs, AuditSubmission(j) PROVE connected'[v]
  BY <1>5
     DEF AuditSubmission
<1>6. ASSUME NEW w \in Workers, NEW j \in Jobs, Deliver(w, j) PROVE connected'[v]
  BY <1>6
     DEF Deliver
<1>7. ASSUME NEW w \in Workers, RecordRunning(w) PROVE connected'[v]
  BY <1>7
     DEF RecordRunning
<1>8. ASSUME NEW w \in Workers, ProcessingRaises(w) PROVE connected'[v]
  BY <1>8
     DEF ProcessingRaises
<1>9. ASSUME NEW w \in Workers, ExperimentNotFound(w) PROVE connected'[v]
  BY <1>9
     DEF ExperimentNotFound, Finish
<1>10. ASSUME NEW w \in Workers, Prepare(w) PROVE connected'[v]
  BY <1>10
     DEF Prepare
<1>11. ASSUME NEW w \in Workers, CheckSafety(w) PROVE connected'[v]
  BY <1>11
     DEF CheckSafety
<1>12. ASSUME NEW w \in Workers, Refuse(w) PROVE connected'[v]
  BY <1>12
     DEF Refuse, Finish
<1>13. ASSUME NEW w \in Workers, RunBaseline(w) PROVE connected'[v]
  BY <1>13
     DEF RunBaseline
<1>14. ASSUME NEW w \in Workers, RunStage(w) PROVE connected'[v]
  BY <1>14
     DEF RunStage, NextStage
<1>15. ASSUME NEW w \in Workers, SaveBaseline(w) PROVE connected'[v]
  BY <1>15
     DEF SaveBaseline
<1>16. ASSUME NEW w \in Workers, SaveMitigation(w) PROVE connected'[v]
  BY <1>16
     DEF SaveMitigation
<1>17. ASSUME NEW w \in Workers, SaveComparison(w) PROVE connected'[v]
  BY <1>17
     DEF SaveComparison, Finish
<1>18. ASSUME NEW w \in Workers, ExecutionRaises(w) PROVE connected'[v]
  BY <1>18
     DEF ExecutionRaises, Finish
<1>19. ASSUME NEW w \in Workers, RecordOutcome(w) PROVE connected'[v]
  BY <1>19
     DEF RecordOutcome
<1>20. ASSUME NEW w \in Workers, EmitOutcome(w) PROVE connected'[v]
  BY <1>20
     DEF EmitOutcome
<1>21. ASSUME NEW w \in Workers, AuditOutcome(w) PROVE connected'[v]
  BY <1>21
     DEF AuditOutcome
<1>22. ASSUME NEW w \in Workers, RecordValidation(w) PROVE connected'[v]
  BY <1>22
     DEF RecordValidation
<1>23. ASSUME NEW w \in Workers, Acknowledge(w) PROVE connected'[v]
  BY <1>23
     DEF Acknowledge, Forget
<1>24. ASSUME NEW w \in Workers, LoseConnection(w) PROVE connected'[v]
  BY <1>24
     DEF LoseConnection
<1>25. ASSUME NEW w \in Workers, Crash(w) PROVE connected'[v]
  BY <1>25
     DEF Crash, Forget
<1>26. ASSUME NEW w \in Workers, Restart(w) PROVE connected'[v]
  BY <1>26
     DEF Restart
<1>27. ASSUME NEW e \in Experiments, ChangeCatalog(e) PROVE connected'[v]
  BY <1>27
     DEF ChangeCatalog
<1>28. CASE UNCHANGED vars
  BY <1>28
     DEF vars
<1> QED
  BY <1>1, <1>2, <1>3, <1>4, <1>5, <1>6, <1>7, <1>8, <1>9, <1>10,
     <1>11, <1>12, <1>13, <1>14, <1>15, <1>16, <1>17, <1>18, <1>19, <1>20,
     <1>21, <1>22, <1>23, <1>24, <1>25, <1>26, <1>27, <1>28
     DEF Next, Handler, Process, Execute, Environment

\* A published job without mishaps is always in exactly one place: the queue,
\* one worker, or its final record.
LEMMA HandoverStep ==
    TypeOK /\ TypeOK' /\ WorkerInv /\ UnpublishedInv /\ ConnectedInv
        /\ HandoverInv /\ [Next]_vars => HandoverInv'
<1> SUFFICES ASSUME TypeOK, TypeOK', WorkerInv, UnpublishedInv, ConnectedInv,
                    HandoverInv, [Next]_vars, NEW i \in Jobs, i \notin mishaps'
             PROVE  HandoverOK(i)'
  BY DEF HandoverInv
<1>0. i \notin mishaps /\ UnpublishedOK(i)
  BY MishapsGrow DEF UnpublishedInv
<1>00. /\ HandoverOK(i)
       /\ \A w \in Workers : Busy(w) /\ cur[w] = i => connected[w]
  BY <1>0 DEF HandoverInv, ConnectedInv
<1>000. \A w \in Workers : /\ Busy(w) <=> cur[w] \in Jobs
                           /\ pc[w] \in {"outcome", "recorded", "emitted"}
                                  => outcome[w] # "none"
  BY DEF WorkerInv, WorkerOK
<1> USE <1>0, <1>00, <1>000, ConstantsAssumption
    DEF TypeOK, HandoverOK, Exclusive, Holds, UnpublishedOK, Published, Busy,
        apiVars, brokerVars, jobVars, workVars, Recorded, Unrecorded,
        Executing, Stages
<1>1. ASSUME NEW j \in Jobs, SubmitRun(j) PROVE HandoverOK(i)'
  BY <1>1
     DEF SubmitRun, SaveRecord, Terminal
<1>2. ASSUME NEW j \in Jobs, PublishRunJob(j) PROVE HandoverOK(i)'
  BY <1>2
     DEF PublishRunJob
<1>3. ASSUME NEW j \in Jobs, PublishFails(j) PROVE HandoverOK(i)'
  BY <1>3
     DEF PublishFails
<1>4. ASSUME NEW j \in Jobs, RecordQueuedEvent(j) PROVE HandoverOK(i)'
  BY <1>4
     DEF RecordQueuedEvent
<1>5. ASSUME NEW j \in Jobs, AuditSubmission(j) PROVE HandoverOK(i)'
  BY <1>5
     DEF AuditSubmission
<1>6. ASSUME NEW w \in Workers, NEW j \in Jobs, Deliver(w, j) PROVE HandoverOK(i)'
  BY <1>6
     DEF Deliver, Goto, Terminal
<1>7. ASSUME NEW w \in Workers, RecordRunning(w) PROVE HandoverOK(i)'
  BY <1>7
     DEF RecordRunning, SaveRecord, Goto, Terminal
<1>8. ASSUME NEW w \in Workers, ProcessingRaises(w) PROVE HandoverOK(i)'
  BY <1>8
     DEF ProcessingRaises, Goto
<1>9. ASSUME NEW w \in Workers, ExperimentNotFound(w) PROVE HandoverOK(i)'
  BY <1>9
     DEF ExperimentNotFound, Finish, Goto
<1>10. ASSUME NEW w \in Workers, Prepare(w) PROVE HandoverOK(i)'
  BY <1>10
     DEF Prepare, Goto
<1>11. ASSUME NEW w \in Workers, CheckSafety(w) PROVE HandoverOK(i)'
  BY <1>11
     DEF CheckSafety, Goto
<1>12. ASSUME NEW w \in Workers, Refuse(w) PROVE HandoverOK(i)'
  BY <1>12
     DEF Refuse, Finish, Goto
<1>13. ASSUME NEW w \in Workers, RunBaseline(w) PROVE HandoverOK(i)'
  BY <1>13
     DEF RunBaseline, Goto
<1>14. ASSUME NEW w \in Workers, RunStage(w) PROVE HandoverOK(i)'
  BY <1>14
     DEF RunStage, Goto, NextStage
<1>15. ASSUME NEW w \in Workers, SaveBaseline(w) PROVE HandoverOK(i)'
  BY <1>15
     DEF SaveBaseline, Goto
<1>16. ASSUME NEW w \in Workers, SaveMitigation(w) PROVE HandoverOK(i)'
  BY <1>16
     DEF SaveMitigation, Goto
<1>17. ASSUME NEW w \in Workers, SaveComparison(w) PROVE HandoverOK(i)'
  BY <1>17
     DEF SaveComparison, Finish, Goto
<1>18. ASSUME NEW w \in Workers, ExecutionRaises(w) PROVE HandoverOK(i)'
  BY <1>18
     DEF ExecutionRaises, Finish, Goto
<1>19. ASSUME NEW w \in Workers, RecordOutcome(w) PROVE HandoverOK(i)'
  BY <1>19
     DEF RecordOutcome, SaveRecord, Goto, StatusOf, Terminal, Outcomes
<1>20. ASSUME NEW w \in Workers, EmitOutcome(w) PROVE HandoverOK(i)'
  BY <1>20
     DEF EmitOutcome, Goto, StatusOf
<1>21. ASSUME NEW w \in Workers, AuditOutcome(w) PROVE HandoverOK(i)'
  BY <1>21
     DEF AuditOutcome, Goto
<1>22. ASSUME NEW w \in Workers, RecordValidation(w) PROVE HandoverOK(i)'
  BY <1>22
     DEF RecordValidation, Goto
<1>23. ASSUME NEW w \in Workers, Acknowledge(w) PROVE HandoverOK(i)'
  BY <1>23
     DEF Acknowledge, Goto, Forget
<1>24. ASSUME NEW w \in Workers, LoseConnection(w) PROVE HandoverOK(i)'
  BY <1>24
     DEF LoseConnection, Requeue
<1>25. ASSUME NEW w \in Workers, Crash(w) PROVE HandoverOK(i)'
  BY <1>25
     DEF Crash, Goto, Forget, Requeue
<1>26. ASSUME NEW w \in Workers, Restart(w) PROVE HandoverOK(i)'
  BY <1>26
     DEF Restart, Goto
<1>27. ASSUME NEW e \in Experiments, ChangeCatalog(e) PROVE HandoverOK(i)'
  BY <1>27
     DEF ChangeCatalog
<1>28. CASE UNCHANGED vars
  BY <1>28
     DEF vars
<1> QED
  BY <1>1, <1>2, <1>3, <1>4, <1>5, <1>6, <1>7, <1>8, <1>9, <1>10,
     <1>11, <1>12, <1>13, <1>14, <1>15, <1>16, <1>17, <1>18, <1>19, <1>20,
     <1>21, <1>22, <1>23, <1>24, <1>25, <1>26, <1>27, <1>28
     DEF Next, Handler, Process, Execute, Environment

\* No job is lost, however often workers crash and restart, unless it met one of
\* the three mishaps itself.
THEOREM NotLost == Spec => []PublishedNotLost
<1>1. Init => ConnectedInv /\ HandoverInv
  BY ConstantsAssumption
     DEF Init, ConnectedInv, HandoverInv, HandoverOK, Exclusive, Published,
         Recorded, Busy, Unrecorded, Executing, Stages
<1>2. HandoverInv => PublishedNotLost
  BY DEF HandoverInv, HandoverOK, PublishedNotLost
<1> QED
  BY <1>1, <1>2, ConnectedStep, HandoverStep, Unpublished,
     Locals, PTL DEF Spec
=============================================================================
