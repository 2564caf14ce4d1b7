------------------------ MODULE ExperimentStudioProofs ------------------------
(***************************************************************************)
(* Proofs about ExperimentStudio, for every set of requests, people and    *)
(* contents, any number of versions and runs, and any budgets.             *)
(***************************************************************************)
EXTENDS ExperimentStudio, SequenceTheorems, TLAPS

-----------------------------------------------------------------------------
(***************************************************************************)
(* Types.                                                                  *)
(***************************************************************************)

\* The counters stay natural numbers.
LEMMA SpendType ==
    ASSUME TypeOK, NEW K, Spend(K)
    PROVE  spent' \in [BoundedEvents -> Nat]
  BY DEF TypeOK, Spend

\* A request that begins is what its route made of the row it read.
LEMMA BeginType ==
    ASSUME TypeOK, NEW r \in Requests, NEW q \in RequestRecords, Begin(r, q)
    PROVE  /\ req' \in [Requests -> RequestRecords \cup {Idle}]
           /\ spent' \in [BoundedEvents -> Nat]
           /\ req[r] = Idle /\ req'[r] = q
           /\ \A o \in Requests \ {r} : req'[o] = req[o]
<1>1. PICK K : Spend(K)
  BY DEF Begin
<1> QED
  BY <1>1, SpendType DEF Begin, TypeOK

\* The record of a new request.
LEMMA RequestType ==
    ASSUME NEW pc \in Steps, NEW kind \in Kinds, NEW a \in Actors,
           NEW n \in Numbers, NEW v \in Records
    PROVE  Request(pc, kind, a, n, v) \in RequestRecords
  BY DEF Request, RequestRecords, Names

\* What the routes and the save make of a row is a row.
LEMMA TransitionType ==
    ASSUME NEW v \in Records, NEW t \in Targets
    PROVE  transition(v, t) \in Records
  BY DEF transition, Records, Definitions, Targets

LEMMA EditType ==
    ASSUME NEW v \in Records, NEW c \in Contents
    PROVE  edit_draft(v, c) \in Records
  BY DEF edit_draft, Records, Definitions

LEMMA ColumnType ==
    ASSUME NEW q \in RequestRecords, NEW v \in Records,
           versions[q.version] = v, q.row \in Records
    PROVE  LET new == [f \in DOMAIN q.record |-> Column(q, f)]
           IN /\ new \in Records
              /\ \A f \in {"status", "definition", "created_by"} :
                   new[f] \in {q.record[f], v[f]}
  BY DEF Column, RequestRecords, Records

\* A row that was read is a row.
LEMMA ReadRow ==
    ASSUME TypeOK, NEW n \in Numbers, NEW v \in get_version(n)
    PROVE  v = versions[n] /\ v # NoVersion /\ v \in Records /\ Readable(v)
  BY DEF get_version, TypeOK

\* Slot r goes on to another step, with the same request.
LEMMA GotoType ==
    ASSUME TypeOK, NEW r \in Requests, req[r] # Idle, NEW pc \in Steps,
           Goto(r, pc)
    PROVE  /\ req' \in [Requests -> RequestRecords \cup {Idle}]
           /\ req'[r] # Idle /\ req'[r].pc = pc
           /\ \A f \in {"kind", "actor", "version", "record", "row"} :
                req'[r][f] = req[r][f]
           /\ \A o \in Requests \ {r} : req'[o] = req[o]
<1> DEFINE q == [req[r] EXCEPT !.pc = pc]
<1>1. req[r] \in RequestRecords
  BY DEF TypeOK
<1>2. /\ q \in RequestRecords /\ q.pc = pc
      /\ \A f \in {"kind", "actor", "version", "record", "row"} :
           q[f] = req[r][f]
  BY <1>1 DEF RequestRecords
<1>3. req' = [req EXCEPT ![r] = q]
  BY DEF Goto
<1> QED
  BY <1>2, <1>3, StudioAssumption DEF TypeOK

\* The first half of the save notes the row that is there.
LEMMA LoadType ==
    ASSUME TypeOK, NEW r \in Requests, Load(r)
    PROVE  /\ req' \in [Requests -> RequestRecords \cup {Idle}]
           /\ req'[r] # Idle /\ req'[r].pc = "commit"
           /\ req'[r].row = versions[req[r].version]
           /\ req'[r].kind = req[r].kind /\ req'[r].actor = req[r].actor
           /\ req'[r].version = req[r].version
           /\ req'[r].record = req[r].record
           /\ \A o \in Requests \ {r} : req'[o] = req[o]
<1> DEFINE row == versions[req[r].version]
           q == [req[r] EXCEPT !.pc = "commit", !.row = row]
<1>1. req[r] \in RequestRecords
  BY DEF Load, TypeOK
<1>2. row \in Records \cup {NoVersion}
  BY <1>1 DEF TypeOK, RequestRecords
<1>3. /\ q \in RequestRecords /\ q.pc = "commit" /\ q.row = row
      /\ q.kind = req[r].kind /\ q.actor = req[r].actor
      /\ q.version = req[r].version /\ q.record = req[r].record
  BY <1>1, <1>2 DEF RequestRecords, Steps
<1>4. req' = [req EXCEPT ![r] = q]
  BY DEF Load
<1> HIDE DEF q
<1> QED
  BY <1>3, <1>4, StudioAssumption DEF TypeOK

\* A creation begins with a draft that the creator owns.
LEMMA BeginCreateRecord ==
    ASSUME NEW r \in Requests, NEW a \in Actors, NEW c \in Contents,
           BeginCreate(r, a, c)
    PROVE  \E n \in Numbers, v \in Records :
             /\ v.status = "draft" /\ v.definition.approval_status = "draft"
             /\ versions[n] = NoVersion
             /\ Begin(r, Request("is_file", "create", a, n, v))
<1> USE StudioAssumption
<1>1. PICK m \in latest_version_number :
        /\ m < MaxVersion
        /\ LET draft == [status |-> "draft",
                         definition |-> [version |-> m + 1, content |-> c,
                                         approval_status |-> "draft"],
                         created_by |-> a.name]
           IN Begin(r, Request("is_file", "create", a, m + 1, draft))
  BY DEF BeginCreate
<1> DEFINE draft == [status |-> "draft",
                     definition |-> [version |-> m + 1, content |-> c,
                                     approval_status |-> "draft"],
                     created_by |-> a.name]
<1>2. m + 1 \in Numbers /\ versions[m + 1] = NoVersion
  BY <1>1 DEF latest_version_number, Numbers
<1>3. draft \in Records
  BY <1>2 DEF Records, Definitions, Statuses, Names
<1> QED
  BY <1>1, <1>2, <1>3

LEMMA TypeStep == TypeOK /\ RouteInv /\ [Next]_vars => TypeOK'
<1> SUFFICES ASSUME TypeOK, RouteInv, [Next]_vars
             PROVE  TypeOK'
  OBVIOUS
<1> USE StudioAssumption
<1>1. ASSUME NEW r \in Requests, NEW a \in Actors, NEW c \in Contents,
             BeginCreate(r, a, c)
      PROVE  TypeOK'
  <2>1. PICK n \in Numbers, v \in Records :
          Begin(r, Request("is_file", "create", a, n, v))
    BY <1>1, BeginCreateRecord
  <2>2. Request("is_file", "create", a, n, v) \in RequestRecords
    BY RequestType DEF Steps, Kinds
  <2> QED
    BY <1>1, <2>1, <2>2, BeginType DEF BeginCreate, TypeOK
<1>2. ASSUME NEW r \in Requests, NEW a \in Actors, NEW n \in Numbers,
             NEW c \in Contents, BeginEdit(r, a, n, c)
      PROVE  TypeOK'
  <2>1. PICK v \in get_version(n) :
          Begin(r, Request("load", "edit", a, n, edit_draft(v, c)))
    BY <1>2 DEF BeginEdit
  <2>2. Request("load", "edit", a, n, edit_draft(v, c)) \in RequestRecords
    BY ReadRow, EditType, RequestType DEF Steps, Kinds
  <2> QED
    BY <1>2, <2>1, <2>2, BeginType DEF BeginEdit, TypeOK
<1>3. ASSUME NEW r \in Requests, NEW a \in Actors, NEW n \in Numbers,
             NEW t \in Targets, BeginTransition(r, a, n, t)
      PROVE  TypeOK'
  <2>1. PICK v \in get_version(n) :
          /\ Begin(r, Request("load", t, a, n, transition(v, t)))
          /\ endorsed' = IF t = "approved"
                         THEN endorsed \cup
                              {[definition |-> transition(v, t).definition,
                                actor |-> a, created_by |-> v.created_by]}
                         ELSE endorsed
    BY <1>3 DEF BeginTransition
  <2>2. v \in Records /\ transition(v, t) \in Records
    BY ReadRow, TransitionType
  <2>3. Request("load", t, a, n, transition(v, t)) \in RequestRecords
    BY <2>2, RequestType DEF Steps, Kinds
  <2>4. endorsed' \subseteq [definition : Definitions, actor : Actors,
                             created_by : Names]
    BY <2>1, <2>2 DEF TypeOK, Records
  <2> QED
    BY <1>3, <2>1, <2>3, <2>4, BeginType DEF BeginTransition, TypeOK
<1>4. ASSUME NEW r \in Requests, NEW a \in Actors, NEW n \in Numbers,
             BlockSelfApproval(r, a, n)
      PROVE  TypeOK'
  <2>1. PICK v \in get_version(n) :
          Begin(r, Request("audit", "self_approval_blocked", a, n, v))
    BY <1>4 DEF BlockSelfApproval
  <2>2. Request("audit", "self_approval_blocked", a, n, v) \in RequestRecords
    BY ReadRow, RequestType DEF Steps, Kinds
  <2> QED
    BY <1>4, <2>1, <2>2, BeginType DEF BlockSelfApproval, TypeOK
<1>5. ASSUME NEW r \in Requests, NEW a \in Actors, NEW n \in Numbers,
             BeginRun(r, a, n)
      PROVE  TypeOK'
  <2>1. PICK v \in get_version(n) : Begin(r, Request("open", "run", a, n, v))
    BY <1>5 DEF BeginRun
  <2>2. Request("open", "run", a, n, v) \in RequestRecords
    BY ReadRow, RequestType DEF Steps, Kinds
  <2> QED
    BY <1>5, <2>1, <2>2, BeginType DEF BeginRun, TypeOK
<1>6. ASSUME NEW r \in Requests, FindDataset(r) PROVE TypeOK'
  BY <1>6, GotoType DEF FindDataset, TypeOK, Steps, history
<1>7. ASSUME NEW r \in Requests, OpenDataset(r) PROVE TypeOK'
  BY <1>7, GotoType DEF OpenDataset, TypeOK, Steps, history
<1>8. ASSUME NEW r \in Requests, WriteDataset(r) PROVE TypeOK'
  BY <1>8, GotoType DEF WriteDataset, TypeOK, Steps, history
<1>9. ASSUME NEW r \in Requests, Load(r) PROVE TypeOK'
  BY <1>9, LoadType DEF Load, TypeOK, history
<1>10. ASSUME NEW r \in Requests, Commit(r) PROVE TypeOK'
  <2> DEFINE q == req[r]
  <2>1. q \in RequestRecords /\ AfterSave(q) \in Steps
    BY <1>10 DEF Commit, TypeOK, AfterSave, Steps
  <2>2. CASE versions' = [versions EXCEPT ![q.version] = q.record]
               /\ Goto(r, AfterSave(q))
    BY <1>10, <2>1, <2>2, GotoType
       DEF Commit, TypeOK, history, RequestRecords
  <2>3. CASE req' = [req EXCEPT ![r] = Idle] /\ UNCHANGED versions
    BY <1>10, <2>3 DEF Commit, TypeOK, history
  <2>4. CASE /\ q.row # NoVersion
             /\ versions' = [versions EXCEPT ![q.version] =
                               [f \in DOMAIN q.record |-> Column(q, f)]]
             /\ Goto(r, AfterSave(q))
    <3>1. q.row \in Records /\ versions[q.version] \in Records
      BY <1>10, <2>1, <2>4 DEF Commit, RouteInv, TypeOK, RequestRecords
    <3>2. [f \in DOMAIN q.record |-> Column(q, f)] \in Records
      BY <2>1, <3>1, ColumnType
    <3> QED
      BY <1>10, <2>1, <2>4, <3>2, GotoType
         DEF Commit, TypeOK, history, RequestRecords
  <2> QED
    BY <1>10, <2>2, <2>3, <2>4 DEF Commit
<1>11. ASSUME NEW r \in Requests, AppendDecision(r) PROVE TypeOK'
  <2>1. approvals' \subseteq [version : Numbers, to : Targets, actor : Names]
    BY <1>11 DEF AppendDecision, RouteInv, TypeOK, RequestRecords
  <2>2. req' \in [Requests -> RequestRecords \cup {Idle}]
    BY <1>11, GotoType DEF AppendDecision, Steps
  <2> QED
    BY <1>11, <2>1, <2>2 DEF AppendDecision, TypeOK, history
<1>12. ASSUME NEW r \in Requests, OpenFile(r) PROVE TypeOK'
  BY <1>12, GotoType DEF OpenFile, TypeOK, Steps, history, Files
<1>13. ASSUME NEW r \in Requests, WriteFile(r) PROVE TypeOK'
  <2>1. file' \in Files
    BY <1>13 DEF WriteFile, TypeOK, RequestRecords, Records, Files
  <2>2. req' \in [Requests -> RequestRecords \cup {Idle}]
    BY <1>13, GotoType DEF WriteFile, Steps
  <2> QED
    BY <1>13, <2>1, <2>2 DEF WriteFile, TypeOK, history
<1>14. ASSUME NEW r \in Requests, PublishRun(r) PROVE TypeOK'
  <2>1. req' \in [Requests -> RequestRecords \cup {Idle}]
    BY <1>14, GotoType DEF PublishRun, Steps
  <2>2. req[r].version \in Numbers
    BY <1>14 DEF PublishRun, TypeOK, RequestRecords
  <2> QED
    BY <1>14, <2>1, <2>2 DEF PublishRun, TypeOK, history
<1>15. ASSUME NEW r \in Requests, Audit(r) PROVE TypeOK'
  BY <1>15 DEF Audit, TypeOK, RequestRecords, history
<1>16. ASSUME NEW r \in Requests, Fail(r) PROVE TypeOK'
  BY <1>16, SpendType DEF Fail, TypeOK
<1>17. ASSUME NEW j \in DOMAIN jobs, Execute(j) \/ ScanRaises(j) PROVE TypeOK'
  <2> DEFINE old == jobs[j]
             new == IF file \notin Definitions
                    THEN [old EXCEPT !.status = "not_found"]
                    ELSE IF file.approval_status # "approved"
                    THEN [old EXCEPT !.status = "denied"]
                    ELSE IF dataset # "whole"
                    THEN [old EXCEPT !.status = "failed"]
                    ELSE [old EXCEPT !.status = "completed", !.ran = file]
             Jobs == [version : Numbers, ran : Definitions \cup {Absent},
                      status : {"queued", "running", "not_found", "denied",
                                "failed", "completed"}]
  <2>1. jobs \in Seq(Jobs) /\ j \in 1..Len(jobs)
    BY DEF TypeOK
  <2>2. old \in Jobs
    BY <2>1, ElementOfSeq
  <2>3. new \in Jobs
    BY <2>2
  <2>4. CASE Execute(j)
    <3>1. jobs' = [jobs EXCEPT ![j] = new]
      BY <2>4 DEF Execute
    <3>2. jobs' \in Seq(Jobs)
      BY <2>1, <2>3, <3>1, ExceptSeq
    <3> QED
      BY <2>4, <3>2 DEF Execute, TypeOK, history
  <2>5. CASE ScanRaises(j)
    <3> DEFINE stuck == [old EXCEPT !.status = "running"]
    <3>1. stuck \in Jobs
      BY <2>2
    <3>2. jobs' = [jobs EXCEPT ![j] = stuck]
      BY <2>5 DEF ScanRaises
    <3>3. jobs' \in Seq(Jobs)
      BY <2>1, <3>1, <3>2, ExceptSeq
    <3> QED
      BY <2>5, <3>3 DEF ScanRaises, TypeOK, history
  <2> QED
    BY <1>17, <2>4, <2>5
<1>18. CASE UNCHANGED vars
  BY <1>18 DEF vars, history, TypeOK
<1> QED
  BY <1>1, <1>2, <1>3, <1>4, <1>5, <1>6, <1>7, <1>8, <1>9, <1>10, <1>11,
     <1>12, <1>13, <1>14, <1>15, <1>16, <1>17, <1>18
     DEF Next, Serve, Step
-----------------------------------------------------------------------------
(***************************************************************************)
(* Routes.                                                                 *)
(***************************************************************************)

\* A row is never taken away.
LEMMA RowsStay ==
    ASSUME TypeOK, RouteInv, Next, NEW n \in Numbers, versions[n] # NoVersion
    PROVE  versions'[n] # NoVersion
<1>1. ASSUME NEW r \in Requests, Commit(r)
      PROVE  versions'[n] # NoVersion
  <2> DEFINE q == req[r]
  <2>1. q \in RequestRecords
    BY <1>1 DEF Commit, TypeOK
  <2>2. CASE q.row = NoVersion
    BY <1>1, <2>1, <2>2, StudioAssumption DEF Commit, TypeOK, RequestRecords
  <2>3. CASE q.row # NoVersion
    <3>1. q.row \in Records /\ versions[q.version] \in Records
      BY <1>1, <2>1, <2>3 DEF Commit, RouteInv, TypeOK, RequestRecords
    <3>2. [f \in DOMAIN q.record |-> Column(q, f)] \in Records
      BY <2>1, <3>1, ColumnType
    <3> QED
      BY <1>1, <2>1, <2>3, <3>2, StudioAssumption
         DEF Commit, TypeOK, RequestRecords
  <2> QED
    BY <2>2, <2>3
<1>2. UNCHANGED versions \/ \E r \in Requests : Commit(r)
  BY DEF Next, Serve, Step, BeginCreate, BeginEdit, BeginTransition,
         BlockSelfApproval, BeginRun, FindDataset, OpenDataset, WriteDataset,
         Load, AppendDecision, OpenFile, WriteFile, PublishRun, Audit, Fail,
         Execute, ScanRaises
<1> QED
  BY <1>1, <1>2

\* A request that begins on a route of its own.
LEMMA RouteBegins ==
    ASSUME TypeOK, RouteInv, NEW r \in Requests, NEW pc \in Steps,
           NEW kind \in Kinds, NEW a \in Actors, NEW n \in Numbers,
           NEW v \in Records, Begin(r, Request(pc, kind, a, n, v)),
           UNCHANGED versions,
           pc \in {"is_file"} => kind = "create",
           pc \in {"load"} => kind \in Targets \cup {"edit"},
           pc \in {"open"} => kind = "run",
           pc \in {"is_file", "load", "open", "audit"}
    PROVE  RouteInv'
<1>1. Request(pc, kind, a, n, v) \in RequestRecords
  BY RequestType
<1>2. req'[r] = Request(pc, kind, a, n, v)
      /\ \A o \in Requests \ {r} : req'[o] = req[o]
  BY <1>1, BeginType
<1>3. /\ req'[r].pc = pc /\ req'[r].kind = kind /\ req'[r].row = NoVersion
  BY <1>2 DEF Request
<1> QED
  BY <1>2, <1>3 DEF RouteInv

\* A request that goes on where its route leads.
LEMMA RouteGoesOn ==
    ASSUME TypeOK, RouteInv, Next, NEW r \in Requests, req[r] # Idle,
           NEW pc \in Steps, Goto(r, pc),
           pc \in {"is_file", "open_dataset", "write_dataset"} =>
             req[r].kind = "create",
           pc \in {"load", "commit"} =>
             req[r].kind \in Targets \cup {"create", "edit"},
           pc = "append" => req[r].kind \in Targets,
           pc \in {"open", "write"} => req[r].kind \in {"approved", "run"},
           pc = "publish" => req[r].kind = "run"
    PROVE  RouteInv'
<1>1. /\ req'[r] # Idle /\ req'[r].pc = pc
      /\ \A f \in {"kind", "actor", "version", "record", "row"} :
           req'[r][f] = req[r][f]
      /\ \A o \in Requests \ {r} : req'[o] = req[o]
  BY GotoType
<1>2. \A n \in Numbers : versions[n] # NoVersion => versions'[n] # NoVersion
  BY RowsStay
<1>3. \A o \in Requests : req[o] # Idle => req[o].version \in Numbers
  BY DEF TypeOK, RequestRecords
<1>4. /\ req'[r].kind = req[r].kind /\ req'[r].version = req[r].version
      /\ req'[r].row = req[r].row
  BY <1>1
<1> QED
  BY <1>1, <1>2, <1>3, <1>4 DEF RouteInv

\* A request that ends leaves the others where they were.
LEMMA RouteEnds ==
    ASSUME TypeOK, RouteInv, Next, NEW r \in Requests,
           req' = [req EXCEPT ![r] = Idle]
    PROVE  RouteInv'
<1>1. \A n \in Numbers : versions[n] # NoVersion => versions'[n] # NoVersion
  BY RowsStay
<1>2. \A o \in Requests : req[o] # Idle => req[o].version \in Numbers
  BY DEF TypeOK, RequestRecords
<1> QED
  BY <1>1, <1>2 DEF RouteInv, TypeOK

LEMMA RouteStep == TypeOK /\ RouteInv /\ [Next]_vars => RouteInv'
<1> SUFFICES ASSUME TypeOK, RouteInv, Next
             PROVE  RouteInv'
  <2>1. UNCHANGED vars => (RouteInv => RouteInv')
    BY DEF vars, RouteInv
  <2> QED
    BY <2>1
<1>1. ASSUME NEW r \in Requests, NEW a \in Actors, NEW c \in Contents,
             BeginCreate(r, a, c)
      PROVE  RouteInv'
  <2>1. PICK n \in Numbers, v \in Records :
          Begin(r, Request("is_file", "create", a, n, v))
    BY <1>1, BeginCreateRecord
  <2> QED
    BY <1>1, <2>1, RouteBegins DEF BeginCreate, Steps, Kinds
<1>2. ASSUME NEW r \in Requests, NEW a \in Actors, NEW n \in Numbers,
             NEW c \in Contents, BeginEdit(r, a, n, c)
      PROVE  RouteInv'
  <2>1. PICK v \in get_version(n) :
          Begin(r, Request("load", "edit", a, n, edit_draft(v, c)))
    BY <1>2 DEF BeginEdit
  <2>2. edit_draft(v, c) \in Records
    BY ReadRow, EditType
  <2> QED
    BY <1>2, <2>1, <2>2, RouteBegins DEF BeginEdit, Steps, Kinds
<1>3. ASSUME NEW r \in Requests, NEW a \in Actors, NEW n \in Numbers,
             NEW t \in Targets, BeginTransition(r, a, n, t)
      PROVE  RouteInv'
  <2>1. PICK v \in get_version(n) :
          Begin(r, Request("load", t, a, n, transition(v, t)))
    BY <1>3 DEF BeginTransition
  <2>2. transition(v, t) \in Records
    BY ReadRow, TransitionType
  <2> QED
    BY <1>3, <2>1, <2>2, RouteBegins DEF BeginTransition, Steps, Kinds
<1>4. ASSUME NEW r \in Requests, NEW a \in Actors, NEW n \in Numbers,
             BlockSelfApproval(r, a, n)
      PROVE  RouteInv'
  <2>1. PICK v \in get_version(n) :
          Begin(r, Request("audit", "self_approval_blocked", a, n, v))
    BY <1>4 DEF BlockSelfApproval
  <2> QED
    BY <1>4, <2>1, ReadRow, RouteBegins DEF BlockSelfApproval, Steps, Kinds
<1>5. ASSUME NEW r \in Requests, NEW a \in Actors, NEW n \in Numbers,
             BeginRun(r, a, n)
      PROVE  RouteInv'
  <2>1. PICK v \in get_version(n) : Begin(r, Request("open", "run", a, n, v))
    BY <1>5 DEF BeginRun
  <2> QED
    BY <1>5, <2>1, ReadRow, RouteBegins DEF BeginRun, Steps, Kinds
<1>6. ASSUME NEW r \in Requests, FindDataset(r) PROVE RouteInv'
  BY <1>6, RouteGoesOn DEF FindDataset, RouteInv, Steps
<1>7. ASSUME NEW r \in Requests, OpenDataset(r) PROVE RouteInv'
  BY <1>7, RouteGoesOn DEF OpenDataset, RouteInv, Steps
<1>8. ASSUME NEW r \in Requests, WriteDataset(r) PROVE RouteInv'
  BY <1>8, RouteGoesOn DEF WriteDataset, RouteInv, Steps
<1>9. ASSUME NEW r \in Requests, Load(r) PROVE RouteInv'
  <2>1. UNCHANGED versions /\ req[r] # Idle /\ req[r].pc = "load"
    BY <1>9 DEF Load
  <2> QED
    BY <1>9, <2>1, LoadType DEF RouteInv
<1>10. ASSUME NEW r \in Requests, Commit(r) PROVE RouteInv'
  <2>1. req[r] # Idle /\ AfterSave(req[r]) \in Steps
    BY <1>10 DEF Commit, AfterSave, Steps
  <2>2. CASE Goto(r, AfterSave(req[r]))
    BY <1>10, <2>1, <2>2, RouteGoesOn DEF Commit, RouteInv, AfterSave
  <2> QED
    BY <1>10, <2>2, RouteEnds DEF Commit
<1>11. ASSUME NEW r \in Requests, AppendDecision(r) PROVE RouteInv'
  BY <1>11, RouteGoesOn DEF AppendDecision, RouteInv, Steps
<1>12. ASSUME NEW r \in Requests, OpenFile(r) PROVE RouteInv'
  BY <1>12, RouteGoesOn DEF OpenFile, RouteInv, Steps
<1>13. ASSUME NEW r \in Requests, WriteFile(r) PROVE RouteInv'
  BY <1>13, RouteGoesOn DEF WriteFile, RouteInv, Steps
<1>14. ASSUME NEW r \in Requests, PublishRun(r) PROVE RouteInv'
  BY <1>14, RouteGoesOn DEF PublishRun, RouteInv, Steps
<1>15. ASSUME NEW r \in Requests, Audit(r) PROVE RouteInv'
  BY <1>15, RouteEnds DEF Audit
<1>16. ASSUME NEW r \in Requests, Fail(r) PROVE RouteInv'
  BY <1>16, RouteEnds DEF Fail
<1>17. ASSUME NEW j \in DOMAIN jobs, Execute(j) \/ ScanRaises(j) PROVE RouteInv'
  BY <1>17 DEF Execute, ScanRaises, RouteInv
<1> QED
  BY <1>1, <1>2, <1>3, <1>4, <1>5, <1>6, <1>7, <1>8, <1>9, <1>10, <1>11,
     <1>12, <1>13, <1>14, <1>15, <1>16, <1>17 DEF Next, Serve, Step
-----------------------------------------------------------------------------
(***************************************************************************)
(* What a definition offered as approved has behind it.                    *)
(***************************************************************************)

\* A step begins a request, or takes the requests there are further.
LEMMA BeginsOrGoesOn ==
    ASSUME TypeOK, RouteInv, Next
    PROVE  \/ \E r \in Requests, a \in Actors :
                \/ \E c \in Contents : BeginCreate(r, a, c)
                \/ \E n \in Numbers :
                     \/ \E c \in Contents : BeginEdit(r, a, n, c)
                     \/ \E t \in Targets : BeginTransition(r, a, n, t)
                     \/ BlockSelfApproval(r, a, n)
                     \/ BeginRun(r, a, n)
           \/ /\ \A r \in Requests : req'[r] # Idle =>
                   /\ req[r] # Idle
                   /\ req'[r].kind = req[r].kind
                   /\ req'[r].version = req[r].version
                   /\ req'[r].record = req[r].record
              /\ UNCHANGED endorsed
<1> DEFINE GoesOn == /\ \A r \in Requests : req'[r] # Idle =>
                          /\ req[r] # Idle
                          /\ req'[r].kind = req[r].kind
                          /\ req'[r].version = req[r].version
                          /\ req'[r].record = req[r].record
                     /\ UNCHANGED endorsed
<1>1. ASSUME NEW r \in Requests, Step(r) PROVE GoesOn
  <2>1. UNCHANGED endorsed
    BY <1>1 DEF Step, FindDataset, OpenDataset, WriteDataset, Load, Commit,
                AppendDecision, OpenFile, WriteFile, PublishRun, Audit, Fail,
                history
  <2>2. CASE \E pc \in Steps : Goto(r, pc) /\ req[r] # Idle
    <3>1. PICK pc \in Steps : Goto(r, pc) /\ req[r] # Idle
      BY <2>2
    <3>2. /\ \A f \in {"kind", "actor", "version", "record", "row"} :
               req'[r][f] = req[r][f]
          /\ \A o \in Requests \ {r} : req'[o] = req[o]
      BY <3>1, GotoType
    <3>3. /\ req'[r].kind = req[r].kind /\ req'[r].version = req[r].version
          /\ req'[r].record = req[r].record
      BY <3>2
    <3> QED
      BY <2>1, <3>1, <3>2, <3>3
  <2>3. CASE req' = [req EXCEPT ![r] = Idle]
    BY <2>1, <2>3 DEF TypeOK
  <2>4. CASE Load(r)
    BY <2>1, <2>4, LoadType DEF Load
  <2> QED
    BY <1>1, <2>2, <2>3, <2>4
       DEF Step, FindDataset, OpenDataset, WriteDataset, Commit, AfterSave,
           AppendDecision, OpenFile, WriteFile, PublishRun, Audit, Fail, Steps
<1>2. ASSUME NEW j \in DOMAIN jobs, Execute(j) \/ ScanRaises(j) PROVE GoesOn
  BY <1>2 DEF Execute, ScanRaises, history
<1> HIDE DEF GoesOn
<1>3. GoesOn \/ \E r \in Requests : Serve(r)
  BY <1>1, <1>2 DEF Next
<1> QED
  BY <1>3 DEF Serve, GoesOn

\* The definitions that are endorsed if they say that they are approved.
Backed(E) ==
    {d \in Definitions : d.approval_status = "approved" =>
       \E e \in E : /\ e.definition = d
                    /\ e.actor.role \in {"reviewer", "admin"}
                    /\ e.actor.name # e.created_by \/ e.actor.role = "admin"}

LEMMA EndorsedIsBacked ==
    ASSUME TypeOK
    PROVE  EndorsedInv <=>
             /\ \A n \in Numbers : versions[n] # NoVersion =>
                  versions[n].definition \in Backed(endorsed)
             /\ \A r \in Requests : req[r] # Idle =>
                  req[r].record.definition \in Backed(endorsed)
  BY DEF EndorsedInv, EndorsedWhenApproved, Endorsed, Backed, TypeOK,
         RequestRecords, Records

\* Endorsements are never withdrawn.
LEMMA BackedGrows ==
    ASSUME NEW E, NEW F, E \subseteq F
    PROVE  Backed(E) \subseteq Backed(F)
  BY DEF Backed

\* The record a transition is about to save is endorsed by the request.
LEMMA TransitionBacked ==
    ASSUME TypeOK, NEW r \in Requests, NEW a \in Actors, NEW n \in Numbers,
           NEW t \in Targets, BeginTransition(r, a, n, t)
    PROVE  /\ req'[r].record.definition \in Backed(endorsed')
           /\ \A o \in Requests \ {r} : req'[o] = req[o]
           /\ endorsed \subseteq endorsed'
<1>1. PICK v \in get_version(n) :
        /\ a.role \in RequiredRoles[t]
        /\ ~self_approval(v, a, t)
        /\ Begin(r, Request("load", t, a, n, transition(v, t)))
        /\ endorsed' = IF t = "approved"
                       THEN endorsed \cup
                            {[definition |-> transition(v, t).definition,
                              actor |-> a, created_by |-> v.created_by]}
                       ELSE endorsed
  BY DEF BeginTransition
<1> DEFINE new == transition(v, t)
<1>2. v \in Records /\ new \in Records
  BY ReadRow, TransitionType
<1>3. req'[r] = Request("load", t, a, n, new)
      /\ \A o \in Requests \ {r} : req'[o] = req[o]
  BY <1>1, <1>2, RequestType, BeginType DEF Steps, Kinds
<1>4. req'[r].record.definition = new.definition
  BY <1>3 DEF Request
<1>5. new.definition \in Definitions
      /\ (t # "approved" => new.definition.approval_status # "approved")
  BY <1>2 DEF transition, Records, Definitions
<1>6. CASE t = "approved"
  <2> DEFINE e == [definition |-> new.definition, actor |-> a,
                   created_by |-> v.created_by]
  <2>1. e \in endorsed'
    BY <1>1, <1>6
  <2>2. a.role \in {"reviewer", "admin"}
    BY <1>1, <1>6 DEF RequiredRoles
  <2>3. a.name # v.created_by \/ a.role = "admin"
    BY <1>1, <1>6 DEF self_approval
  <2>4. /\ e.definition = new.definition
        /\ e.actor.role \in {"reviewer", "admin"}
        /\ e.actor.name # e.created_by \/ e.actor.role = "admin"
    BY <2>2, <2>3
  <2> HIDE DEF new, e
  <2>5. new.definition \in Backed(endorsed')
    BY <1>5, <2>1, <2>4 DEF Backed
  <2> QED
    BY <1>1, <1>3, <1>4, <1>6, <2>5
<1>7. CASE t # "approved"
  BY <1>1, <1>3, <1>4, <1>5, <1>7 DEF Backed
<1> QED
  BY <1>6, <1>7

\* What a request has in its hands stays endorsed.
LEMMA RequestsBacked ==
    ASSUME TypeOK, RouteInv, EndorsedInv, Next
    PROVE  /\ \A o \in Requests : req'[o] # Idle =>
                req'[o].record.definition \in Backed(endorsed')
           /\ endorsed \subseteq endorsed'
<1>0. /\ \A n \in Numbers : versions[n] # NoVersion =>
           versions[n].definition \in Backed(endorsed)
      /\ \A r \in Requests : req[r] # Idle =>
           req[r].record.definition \in Backed(endorsed)
  BY EndorsedIsBacked
<1>1. ASSUME NEW r \in Requests, NEW a \in Actors, NEW c \in Contents,
             BeginCreate(r, a, c)
      PROVE  req'[r].record.definition \in Backed(endorsed)
             /\ UNCHANGED endorsed /\ \A o \in Requests \ {r} : req'[o] = req[o]
  <2>1. PICK n \in Numbers, v \in Records :
          /\ v.definition.approval_status = "draft"
          /\ Begin(r, Request("is_file", "create", a, n, v))
    BY <1>1, BeginCreateRecord
  <2>2. req'[r] = Request("is_file", "create", a, n, v)
        /\ \A o \in Requests \ {r} : req'[o] = req[o]
    BY <2>1, RequestType, BeginType DEF Steps, Kinds
  <2> QED
    BY <1>1, <2>1, <2>2 DEF BeginCreate, Request, Backed, Records
<1>2. ASSUME NEW r \in Requests, NEW a \in Actors, NEW n \in Numbers,
             NEW c \in Contents, BeginEdit(r, a, n, c)
      PROVE  req'[r].record.definition \in Backed(endorsed)
             /\ UNCHANGED endorsed /\ \A o \in Requests \ {r} : req'[o] = req[o]
  <2>1. PICK v \in get_version(n) :
          editable(v) /\ Begin(r, Request("load", "edit", a, n, edit_draft(v, c)))
    BY <1>2 DEF BeginEdit
  <2>2. v \in Records /\ Readable(v) /\ edit_draft(v, c) \in Records
    BY ReadRow, EditType
  <2>3. req'[r] = Request("load", "edit", a, n, edit_draft(v, c))
        /\ \A o \in Requests \ {r} : req'[o] = req[o]
    BY <2>1, <2>2, RequestType, BeginType DEF Steps, Kinds
  <2>4. v.definition.approval_status = "draft"
    BY <2>1, <2>2 DEF Readable, editable, Records, Definitions
  <2>5. edit_draft(v, c).definition.approval_status = "draft"
    BY <2>2, <2>4 DEF edit_draft, Records, Definitions
  <2> QED
    BY <1>2, <2>2, <2>3, <2>5 DEF BeginEdit, Request, Backed, Records
<1>3. ASSUME NEW r \in Requests, NEW a \in Actors, NEW n \in Numbers,
             BlockSelfApproval(r, a, n) \/ BeginRun(r, a, n)
      PROVE  req'[r].record.definition \in Backed(endorsed)
             /\ UNCHANGED endorsed /\ \A o \in Requests \ {r} : req'[o] = req[o]
  <2>1. PICK v \in get_version(n) :
          \/ Begin(r, Request("audit", "self_approval_blocked", a, n, v))
          \/ Begin(r, Request("open", "run", a, n, v))
    BY <1>3 DEF BlockSelfApproval, BeginRun
  <2>2. v \in Records /\ v.definition \in Backed(endorsed)
    BY <1>0, ReadRow
  <2>3. /\ \/ req'[r] = Request("audit", "self_approval_blocked", a, n, v)
           \/ req'[r] = Request("open", "run", a, n, v)
        /\ \A o \in Requests \ {r} : req'[o] = req[o]
    BY <2>1, <2>2, RequestType, BeginType DEF Steps, Kinds
  <2> QED
    BY <1>3, <2>2, <2>3 DEF BlockSelfApproval, BeginRun, Request
<1>4. CASE /\ \A r \in Requests : req'[r] # Idle =>
                /\ req[r] # Idle
                /\ req'[r].kind = req[r].kind
                /\ req'[r].version = req[r].version
                /\ req'[r].record = req[r].record
           /\ UNCHANGED endorsed
  BY <1>0, <1>4
<1>5. ASSUME NEW r \in Requests, NEW a \in Actors, NEW n \in Numbers,
             NEW t \in Targets, BeginTransition(r, a, n, t)
      PROVE  /\ \A o \in Requests : req'[o] # Idle =>
                  req'[o].record.definition \in Backed(endorsed')
             /\ endorsed \subseteq endorsed'
  BY <1>0, <1>5, TransitionBacked, BackedGrows
<1> QED
  BY <1>0, <1>1, <1>2, <1>3, <1>4, <1>5, BeginsOrGoesOn

LEMMA EndorsedStep ==
    ASSUME TypeOK, TypeOK', RouteInv, EndorsedInv, Next
    PROVE  EndorsedInv'
<1>1. /\ \A n \in Numbers : versions[n] # NoVersion =>
           versions[n].definition \in Backed(endorsed)
      /\ \A r \in Requests : req[r] # Idle =>
           req[r].record.definition \in Backed(endorsed)
  BY EndorsedIsBacked
<1>2. /\ \A o \in Requests : req'[o] # Idle =>
           req'[o].record.definition \in Backed(endorsed')
      /\ Backed(endorsed) \subseteq Backed(endorsed')
  BY RequestsBacked, BackedGrows
<1>3. \A n \in Numbers : versions'[n] # NoVersion =>
        versions'[n].definition \in Backed(endorsed)
  <2>1. ASSUME NEW r \in Requests, Commit(r), NEW n \in Numbers,
               versions'[n] # NoVersion
        PROVE  versions'[n].definition \in Backed(endorsed)
    <3> DEFINE q == req[r]
               new == [f \in DOMAIN q.record |-> Column(q, f)]
    <3>1. q \in RequestRecords /\ q # Idle
      BY <2>1 DEF Commit, TypeOK
    <3>2. q.record \in Records /\ q.record.definition \in Backed(endorsed)
          /\ q.version \in Numbers
      BY <1>1, <3>1 DEF RequestRecords
    <3>3. CASE q.row = NoVersion
      BY <1>1, <2>1, <3>2, <3>3 DEF Commit, TypeOK
    <3>4. CASE q.row # NoVersion
      <4>1. q.row \in Records /\ versions[q.version] \in Records
            /\ versions[q.version] # NoVersion
        BY <3>1, <3>2, <3>4 DEF RouteInv, TypeOK, RequestRecords
      <4>2. new["definition"] \in {q.record["definition"],
                                   versions[q.version]["definition"]}
        BY <3>1, <4>1, ColumnType
      <4>3. new.definition \in Backed(endorsed)
        BY <1>1, <3>2, <4>1, <4>2
      <4>4. versions' = [versions EXCEPT ![q.version] = new]
        BY <2>1, <3>4 DEF Commit
      <4> HIDE DEF new
      <4> QED
        BY <1>1, <2>1, <3>2, <4>3, <4>4 DEF TypeOK
    <3> QED
      BY <3>3, <3>4
  <2>2. UNCHANGED versions \/ \E r \in Requests : Commit(r)
    BY DEF Next, Serve, Step, BeginCreate, BeginEdit, BeginTransition,
           BlockSelfApproval, BeginRun, FindDataset, OpenDataset, WriteDataset,
           Load, AppendDecision, OpenFile, WriteFile, PublishRun, Audit, Fail,
           Execute, ScanRaises
  <2> QED
    BY <1>1, <2>1, <2>2
<1> QED
  BY <1>2, <1>3, EndorsedIsBacked
     DEF EndorsedInv, EndorsedWhenApproved, Endorsed, Backed, TypeOK,
         RequestRecords, Records

\* What a worker makes of a job: it completes with the file it found.
LEMMA ExecuteJob ==
    ASSUME TypeOK, NEW j \in DOMAIN jobs, Execute(j) \/ ScanRaises(j)
    PROVE  /\ DOMAIN jobs' = DOMAIN jobs
           /\ \A i \in DOMAIN jobs : i # j => jobs'[i] = jobs[i]
           /\ jobs'[j].version = jobs[j].version
           /\ jobs'[j].status = "completed" =>
                /\ jobs'[j].ran = file /\ file \in Definitions
                /\ file.approval_status = "approved"
<1> DEFINE old == jobs[j]
           new == IF file \notin Definitions
                  THEN [old EXCEPT !.status = "not_found"]
                  ELSE IF file.approval_status # "approved"
                  THEN [old EXCEPT !.status = "denied"]
                  ELSE IF dataset # "whole"
                  THEN [old EXCEPT !.status = "failed"]
                  ELSE [old EXCEPT !.status = "completed", !.ran = file]
           Jobs == [version : Numbers, ran : Definitions \cup {Absent},
                    status : {"queued", "running", "not_found", "denied",
                              "failed", "completed"}]
<1>1. jobs \in Seq(Jobs) /\ j \in 1..Len(jobs)
  BY DEF TypeOK
<1>2. old \in Jobs
  BY <1>1, ElementOfSeq
<1> DEFINE stuck == [old EXCEPT !.status = "running"]
<1>3. /\ new.version = old.version
      /\ new.status = "completed" =>
           /\ new.ran = file /\ file \in Definitions
           /\ file.approval_status = "approved"
      /\ stuck.version = old.version /\ stuck.status # "completed"
  BY <1>2
<1>4. jobs' = [jobs EXCEPT ![j] = new] \/ jobs' = [jobs EXCEPT ![j] = stuck]
  BY DEF Execute, ScanRaises
<1> HIDE DEF new, stuck, old, Jobs
<1>5. /\ DOMAIN jobs' = DOMAIN jobs /\ jobs'[j] \in {new, stuck}
      /\ \A i \in DOMAIN jobs : i # j => jobs'[i] = jobs[i]
  BY <1>1, <1>4
<1> QED
  BY <1>3, <1>5 DEF old

\* A submitted run joins the queue behind the others.
LEMMA PublishJob ==
    ASSUME TypeOK, NEW r \in Requests, PublishRun(r)
    PROVE  /\ DOMAIN jobs' = DOMAIN jobs \cup {Len(jobs) + 1}
           /\ \A i \in DOMAIN jobs : jobs'[i] = jobs[i]
           /\ jobs'[Len(jobs) + 1].status = "queued"
           /\ jobs'[Len(jobs) + 1].version = req[r].version
<1> DEFINE job == [version |-> req[r].version, status |-> "queued",
                   ran |-> Absent]
           Jobs == [version : Numbers, ran : Definitions \cup {Absent},
                    status : {"queued", "running", "not_found", "denied",
                              "failed", "completed"}]
<1>1. jobs \in Seq(Jobs) /\ job \in Jobs
  BY DEF PublishRun, TypeOK, RequestRecords
<1>2. jobs' = Append(jobs, job)
  BY DEF PublishRun
<1>3. job.status = "queued" /\ job.version = req[r].version
  OBVIOUS
<1> HIDE DEF job, Jobs
<1>4. /\ Len(jobs') = Len(jobs) + 1
      /\ \A i \in 1..Len(jobs) : jobs'[i] = jobs[i]
      /\ jobs'[Len(jobs) + 1] = job
      /\ jobs' \in Seq(Jobs)
  BY <1>1, <1>2, AppendProperties
<1>5. Len(jobs) \in Nat /\ DOMAIN jobs = 1..Len(jobs)
      /\ DOMAIN jobs' = 1..(Len(jobs) + 1)
  BY <1>1, <1>4
<1> QED
  BY <1>3, <1>4, <1>5

LEMMA RunsStep ==
    ASSUME TypeOK, RouteInv, EndorsedInv, RunsAreEndorsed, Next
    PROVE  RunsAreEndorsed'
<1>1. endorsed \subseteq endorsed'
  BY RequestsBacked
<1>2. file' \in Definitions /\ file'.approval_status = "approved" =>
        \E e \in endorsed :
          /\ e.definition = file'
          /\ e.actor.role \in {"reviewer", "admin"}
          /\ e.actor.name # e.created_by \/ e.actor.role = "admin"
  <2>1. ASSUME NEW r \in Requests, OpenFile(r) PROVE file' \notin Definitions
    BY <2>1, StudioAssumption DEF OpenFile
  <2>2. ASSUME NEW r \in Requests, WriteFile(r)
        PROVE  file' \in Backed(endorsed) \/ file' \notin Definitions
    <3>1. req[r].record.definition \in Backed(endorsed)
      BY <2>2, EndorsedIsBacked DEF WriteFile
    <3> QED
      BY <2>2, <3>1, StudioAssumption DEF WriteFile
  <2>3. CASE UNCHANGED file
    BY <2>3 DEF RunsAreEndorsed, Endorsed
  <2> QED
    BY <2>1, <2>2, <2>3
       DEF Backed, Next, Serve, Step, BeginCreate, BeginEdit, BeginTransition,
           BlockSelfApproval, BeginRun, FindDataset, OpenDataset, WriteDataset,
           Load, Commit, AppendDecision, PublishRun, Audit, Fail, Execute, ScanRaises
<1>3. \A i \in DOMAIN jobs' : jobs'[i].status = "completed" =>
        \E e \in endorsed :
          /\ e.definition = jobs'[i].ran
          /\ e.actor.role \in {"reviewer", "admin"}
          /\ e.actor.name # e.created_by \/ e.actor.role = "admin"
  <2>1. ASSUME NEW j \in DOMAIN jobs, Execute(j) \/ ScanRaises(j),
               NEW i \in DOMAIN jobs', jobs'[i].status = "completed"
        PROVE  \E e \in endorsed :
                 /\ e.definition = jobs'[i].ran
                 /\ e.actor.role \in {"reviewer", "admin"}
                 /\ e.actor.name # e.created_by \/ e.actor.role = "admin"
    BY <2>1, ExecuteJob DEF RunsAreEndorsed, Endorsed
  <2>2. ASSUME NEW r \in Requests, PublishRun(r),
               NEW i \in DOMAIN jobs', jobs'[i].status = "completed"
        PROVE  \E e \in endorsed :
                 /\ e.definition = jobs'[i].ran
                 /\ e.actor.role \in {"reviewer", "admin"}
                 /\ e.actor.name # e.created_by \/ e.actor.role = "admin"
    BY <2>2, PublishJob DEF RunsAreEndorsed, Endorsed
  <2>3. CASE UNCHANGED jobs
    BY <2>3 DEF RunsAreEndorsed, Endorsed
  <2>4. \/ \E j \in DOMAIN jobs : Execute(j) \/ ScanRaises(j)
        \/ \E r \in Requests : PublishRun(r)
        \/ UNCHANGED jobs
    BY DEF Next, Serve, Step, BeginCreate, BeginEdit, BeginTransition,
           BlockSelfApproval, BeginRun, FindDataset, OpenDataset, WriteDataset,
           Load, Commit, AppendDecision, OpenFile, WriteFile, Audit, Fail
  <2> QED
    BY <2>1, <2>2, <2>3, <2>4
<1> QED
  BY <1>1, <1>2, <1>3 DEF RunsAreEndorsed, Endorsed
-----------------------------------------------------------------------------
(***************************************************************************)
(* What an audit event has behind it.                                      *)
(***************************************************************************)

\* The decisions logged and the versions that have a run.
Decisions == {<<d.version, d.to>> : d \in approvals}
Submitted == {jobs[j].version : j \in DOMAIN jobs}

\* Neither loses anything.
LEMMA LogsGrow ==
    ASSUME TypeOK, Next
    PROVE  Decisions \subseteq Decisions' /\ Submitted \subseteq Submitted'
<1>1. approvals \subseteq approvals'
  BY DEF Next, Serve, Step, BeginCreate, BeginEdit, BeginTransition,
         BlockSelfApproval, BeginRun, FindDataset, OpenDataset, WriteDataset,
         Load, Commit, AppendDecision, OpenFile, WriteFile, PublishRun, Audit,
         Fail, Execute, ScanRaises
<1>2. \/ \E j \in DOMAIN jobs : Execute(j) \/ ScanRaises(j)
      \/ \E r \in Requests : PublishRun(r)
      \/ UNCHANGED jobs
  BY DEF Next, Serve, Step, BeginCreate, BeginEdit, BeginTransition,
         BlockSelfApproval, BeginRun, FindDataset, OpenDataset, WriteDataset,
         Load, Commit, AppendDecision, OpenFile, WriteFile, Audit, Fail
<1>3. \A j \in DOMAIN jobs :
        j \in DOMAIN jobs' /\ jobs'[j].version = jobs[j].version
  BY <1>2, ExecuteJob, PublishJob
<1> QED
  BY <1>1, <1>3 DEF Decisions, Submitted

\* A request that is due to audit has its decision or its run.
Due(q, D, S) ==
    /\ (q.kind \in Targets /\ q.pc \in {"open", "write", "audit"}) =>
         <<q.version, q.kind>> \in D
    /\ (q.kind = "run" /\ q.pc = "audit") => q.version \in S

LEMMA BackedIsDue ==
    BackedInv <=> \A r \in Requests : req[r] # Idle =>
                    Due(req[r], Decisions, Submitted)
  BY DEF BackedInv, Due, Decisions, Submitted

\* The request of slot r is the one that moves.
LEMMA DueMoves ==
    ASSUME TypeOK, BackedInv, Next, NEW r \in Requests,
           \A o \in Requests \ {r} : req'[o] = req[o],
           req'[r] # Idle => Due(req'[r], Decisions', Submitted')
    PROVE  BackedInv'
<1>1. \A o \in Requests : req'[o] # Idle =>
        Due(req'[o], Decisions', Submitted')
  BY LogsGrow, BackedIsDue DEF Due
<1> QED
  BY <1>1 DEF BackedInv, Due, Decisions, Submitted

LEMMA BackedStep ==
    ASSUME TypeOK, RouteInv, BackedInv, Next
    PROVE  BackedInv'
<1>1. ASSUME NEW r \in Requests, NEW q \in RequestRecords, Begin(r, q),
             Due(q, {}, {})
      PROVE  BackedInv'
  <2>1. req'[r] = q /\ \A o \in Requests \ {r} : req'[o] = req[o]
    BY <1>1, BeginType
  <2> QED
    BY <1>1, <2>1, DueMoves DEF Due
<1>2. ASSUME NEW r \in Requests, NEW a \in Actors,
             \/ \E c \in Contents : BeginCreate(r, a, c)
             \/ \E n \in Numbers :
                  \/ \E c \in Contents : BeginEdit(r, a, n, c)
                  \/ \E t \in Targets : BeginTransition(r, a, n, t)
                  \/ BlockSelfApproval(r, a, n)
                  \/ BeginRun(r, a, n)
      PROVE  BackedInv'
  <2> DEFINE Undue(q) == q \in RequestRecords /\ Due(q, {}, {})
  <2>1. ASSUME NEW c \in Contents, BeginCreate(r, a, c) PROVE BackedInv'
    <3>1. PICK n \in Numbers, v \in Records :
            Begin(r, Request("is_file", "create", a, n, v))
      BY <2>1, BeginCreateRecord
    <3>2. Undue(Request("is_file", "create", a, n, v))
      BY RequestType DEF Steps, Kinds, Due, Request, Targets, Statuses
    <3> QED
      BY <1>1, <3>1, <3>2
  <2>2. ASSUME NEW n \in Numbers, NEW c \in Contents, BeginEdit(r, a, n, c)
        PROVE  BackedInv'
    <3>1. PICK v \in get_version(n) :
            Begin(r, Request("load", "edit", a, n, edit_draft(v, c)))
      BY <2>2 DEF BeginEdit
    <3>2. edit_draft(v, c) \in Records
      BY ReadRow, EditType
    <3>3. Undue(Request("load", "edit", a, n, edit_draft(v, c)))
      BY <3>2, RequestType DEF Steps, Kinds, Due, Request, Targets, Statuses
    <3> QED
      BY <1>1, <3>1, <3>3
  <2>3. ASSUME NEW n \in Numbers, NEW t \in Targets, BeginTransition(r, a, n, t)
        PROVE  BackedInv'
    <3>1. PICK v \in get_version(n) :
            Begin(r, Request("load", t, a, n, transition(v, t)))
      BY <2>3 DEF BeginTransition
    <3>2. transition(v, t) \in Records
      BY ReadRow, TransitionType
    <3>3. Undue(Request("load", t, a, n, transition(v, t)))
      BY <3>2, RequestType DEF Steps, Kinds, Due, Request
    <3> QED
      BY <1>1, <3>1, <3>3
  <2>4. ASSUME NEW n \in Numbers, BlockSelfApproval(r, a, n) \/ BeginRun(r, a, n)
        PROVE  BackedInv'
    <3>1. PICK v \in get_version(n) :
            \/ Begin(r, Request("audit", "self_approval_blocked", a, n, v))
            \/ Begin(r, Request("open", "run", a, n, v))
      BY <2>4 DEF BlockSelfApproval, BeginRun
    <3>2. v \in Records
      BY ReadRow
    <3>3. /\ Undue(Request("audit", "self_approval_blocked", a, n, v))
          /\ Undue(Request("open", "run", a, n, v))
      BY <3>2, RequestType DEF Steps, Kinds, Due, Request, Targets, Statuses
    <3> QED
      BY <1>1, <3>1, <3>3
  <2> QED
    BY <1>2, <2>1, <2>2, <2>3, <2>4
<1>3. ASSUME NEW r \in Requests, NEW pc \in Steps, req[r] # Idle, Goto(r, pc),
             (req[r].kind \in Targets /\ pc \in {"open", "write", "audit"}) =>
                <<req[r].version, req[r].kind>> \in Decisions',
             (req[r].kind = "run" /\ pc = "audit") =>
                req[r].version \in Submitted'
      PROVE  BackedInv'
  <2>1. /\ req'[r].pc = pc
        /\ \A f \in {"kind", "actor", "version", "record", "row"} :
             req'[r][f] = req[r][f]
        /\ \A o \in Requests \ {r} : req'[o] = req[o]
    BY <1>3, GotoType
  <2>2. req'[r].kind = req[r].kind /\ req'[r].version = req[r].version
    BY <2>1
  <2> QED
    BY <1>3, <2>1, <2>2, DueMoves DEF Due
<1>4. ASSUME NEW r \in Requests,
             FindDataset(r) \/ OpenDataset(r) \/ WriteDataset(r)
      PROVE  BackedInv'
  BY <1>3, <1>4 DEF FindDataset, OpenDataset, WriteDataset, Steps
<1>5. ASSUME NEW r \in Requests, Load(r) PROVE BackedInv'
  BY <1>5, LoadType, DueMoves DEF Due
<1>6. ASSUME NEW r \in Requests, Commit(r) PROVE BackedInv'
  <2>1. CASE Goto(r, AfterSave(req[r]))
    <3>1. /\ AfterSave(req[r]) \in {"audit", "append"}
          /\ AfterSave(req[r]) = "audit" =>
               req[r].kind \notin Targets \cup {"run"}
      BY DEF AfterSave, Targets, Statuses
    <3> QED
      BY <1>3, <1>6, <2>1, <3>1 DEF Commit, Steps
  <2>2. CASE req' = [req EXCEPT ![r] = Idle]
    BY <2>2, DueMoves DEF TypeOK
  <2> QED
    BY <1>6, <2>1, <2>2 DEF Commit
<1>7. ASSUME NEW r \in Requests, AppendDecision(r) PROVE BackedInv'
  <2> DEFINE d == [version |-> req[r].version, to |-> req[r].kind,
                   actor |-> req[r].actor]
  <2>0. d \in approvals' /\ d.version = req[r].version /\ d.to = req[r].kind
    BY <1>7 DEF AppendDecision
  <2>1. <<req[r].version, req[r].kind>> \in Decisions'
    BY <2>0 DEF Decisions
  <2>2. req[r].kind \in Targets
    BY <1>7 DEF AppendDecision, RouteInv
  <2> QED
    BY <1>3, <1>7, <2>1, <2>2 DEF AppendDecision, Steps, Targets, Statuses
<1>8. ASSUME NEW r \in Requests, OpenFile(r) \/ WriteFile(r) PROVE BackedInv'
  BY <1>3, <1>8, LogsGrow, BackedIsDue DEF OpenFile, WriteFile, Steps, Due
<1>9. ASSUME NEW r \in Requests, PublishRun(r) PROVE BackedInv'
  <2>1. req[r].version \in Submitted'
    BY <1>9, PublishJob DEF Submitted
  <2>2. req[r].kind = "run"
    BY <1>9 DEF PublishRun, RouteInv
  <2> QED
    BY <1>3, <1>9, <2>1, <2>2 DEF PublishRun, Steps, Targets, Statuses
<1>10. ASSUME NEW r \in Requests, Audit(r) \/ Fail(r) PROVE BackedInv'
  BY <1>10, DueMoves DEF Audit, Fail, TypeOK
<1>11. ASSUME NEW j \in DOMAIN jobs, Execute(j) \/ ScanRaises(j) PROVE BackedInv'
  <2>1. \A o \in Requests : req'[o] # Idle =>
          Due(req'[o], Decisions', Submitted')
    BY <1>11, LogsGrow, BackedIsDue DEF Due, Execute, ScanRaises
  <2> QED
    BY <2>1 DEF BackedInv, Due, Decisions, Submitted
<1> QED
  BY <1>2, <1>4, <1>5, <1>6, <1>7, <1>8, <1>9, <1>10, <1>11
     DEF Next, Serve, Step

LEMMA AuditStep ==
    ASSUME TypeOK, BackedInv, AuditIsBacked, Next
    PROVE  AuditIsBacked'
<1>1. \A e \in audit :
        /\ e.action \in Targets => <<e.version, e.action>> \in Decisions
        /\ e.action = "run" => e.version \in Submitted
  BY DEF AuditIsBacked, Decisions, Submitted
<1>2. \A e \in audit' :
        /\ e.action \in Targets => <<e.version, e.action>> \in Decisions'
        /\ e.action = "run" => e.version \in Submitted'
  <2>1. ASSUME NEW r \in Requests, Audit(r), NEW e \in audit' \ audit
        PROVE  /\ e.action \in Targets => <<e.version, e.action>> \in Decisions'
               /\ e.action = "run" => e.version \in Submitted'
    BY <2>1, LogsGrow, BackedIsDue DEF Audit, Due
  <2>2. UNCHANGED audit \/ \E r \in Requests : Audit(r)
    BY DEF Next, Serve, Step, BeginCreate, BeginEdit, BeginTransition,
           BlockSelfApproval, BeginRun, FindDataset, OpenDataset, WriteDataset,
           Load, Commit, AppendDecision, OpenFile, WriteFile, PublishRun,
           Fail, Execute, ScanRaises
  <2> QED
    BY <1>1, <2>1, <2>2, LogsGrow
<1> QED
  BY <1>2 DEF AuditIsBacked, Decisions, Submitted
-----------------------------------------------------------------------------
(***************************************************************************)
(* Requests that do not overlap.                                           *)
(***************************************************************************)

\* An overlap that has been is never forgotten.
LEMMA SequentialBefore ==
    ASSUME TypeOK, Next, Sequential'
    PROVE  Sequential
<1>1. ASSUME NEW K, Spend(K) PROVE Sequential
  BY <1>1 DEF Spend, TypeOK, Sequential, BoundedEvents
<1>2. ASSUME NEW r \in Requests, NEW q, Begin(r, q) PROVE Sequential
  BY <1>1, <1>2 DEF Begin
<1>3. ASSUME NEW r \in Requests, Serve(r) PROVE Sequential
  <2>1. ASSUME NEW a \in Actors, NEW c \in Contents, BeginCreate(r, a, c)
        PROVE  Sequential
    BY <1>2, <2>1 DEF BeginCreate
  <2>2. ASSUME NEW a \in Actors, NEW n \in Numbers,
               \/ \E c \in Contents : BeginEdit(r, a, n, c)
               \/ \E t \in Targets : BeginTransition(r, a, n, t)
               \/ BlockSelfApproval(r, a, n)
               \/ BeginRun(r, a, n)
        PROVE  Sequential
    BY <1>2, <2>2 DEF BeginEdit, BeginTransition, BlockSelfApproval, BeginRun
  <2> QED
    BY <1>3, <2>1, <2>2 DEF Serve
<1>4. ASSUME NEW r \in Requests, Fail(r) PROVE Sequential
  BY <1>1, <1>4 DEF Fail
<1>5. CASE UNCHANGED spent
  BY <1>5 DEF Sequential
<1>6. \/ UNCHANGED spent
      \/ \E r \in Requests : Serve(r) \/ Fail(r)
  BY DEF Next, Step, FindDataset, OpenDataset, WriteDataset, Load, Commit,
         AppendDecision, OpenFile, WriteFile, PublishRun, Audit, Execute, ScanRaises, history
<1> QED
  BY <1>3, <1>4, <1>5, <1>6

\* A request that does not overlap begins when no other is served.
LEMMA BeginsAlone ==
    ASSUME TypeOK, NEW r \in Requests, NEW q, Begin(r, q), Sequential'
    PROVE  \A o \in Requests : req[o] = Idle
<1>1. ASSUME Busy PROVE FALSE
  <2>1. PICK K : Spend(K \cup {"overlap"})
    BY <1>1 DEF Begin
  <2> QED
    BY <2>1 DEF Spend, TypeOK, Sequential, BoundedEvents
<1> QED
  BY <1>1 DEF Busy

\* With what it read still there, a save writes the record it was given.
LEMMA CommitSequential ==
    ASSUME TypeOK, RouteInv, SequentialInv, Sequential,
           NEW r \in Requests, Commit(r)
    PROVE  /\ Derived(req[r], versions[req[r].version])
           /\ versions' = [versions EXCEPT ![req[r].version] = req[r].record]
           /\ Goto(r, AfterSave(req[r]))
<1> DEFINE q == req[r]
<1>1. q \in RequestRecords /\ q # Idle /\ q.pc = "commit"
  BY DEF Commit, TypeOK
<1>2. q.row = versions[q.version] /\ Derived(q, versions[q.version])
  BY <1>1 DEF SequentialInv
<1>3. CASE q.row = NoVersion
  BY <1>2, <1>3 DEF Commit
<1>4. CASE q.row # NoVersion
  <2>1. q.record \in Records
    BY <1>1 DEF RequestRecords
  <2>2. [f \in DOMAIN q.record |-> Column(q, f)]
          = [f \in DOMAIN q.record |-> q.record[f]]
    BY <1>2 DEF Column
  <2>3. [f \in DOMAIN q.record |-> q.record[f]] = q.record
    BY <2>1 DEF Records
  <2> QED
    BY <1>2, <1>4, <2>2, <2>3 DEF Commit
<1> QED
  BY <1>2, <1>3, <1>4

\* What a request makes of a row that validates validates, moves along the
\* lifecycle and keeps the creator and, past draft, the content.
LEMMA DerivedKeeps ==
    ASSUME NEW q \in RequestRecords, NEW row \in Records \cup {NoVersion},
           Derived(q, row), row # NoVersion => Readable(row)
    PROVE  /\ Readable(q.record)
           /\ row # NoVersion =>
                /\ q.record.status \in {row.status}
                                       \cup AllowedTransitions[row.status]
                /\ q.record.created_by = row.created_by
                /\ row.status # "draft" =>
                     q.record.definition.content = row.definition.content
<1>1. CASE row = NoVersion
  BY <1>1 DEF Derived
<1>2. CASE row # NoVersion /\ q.kind = "edit"
  <2>1. PICK c \in Contents : q.record = edit_draft(row, c)
    BY <1>2 DEF Derived, Targets, Statuses
  <2>2. row \in Records /\ row.status = "draft"
    BY <1>2 DEF Derived, Targets, Statuses
  <2> QED
    BY <1>2, <2>1, <2>2 DEF edit_draft, Records, Definitions, Readable
<1>3. CASE row # NoVersion /\ q.kind \in Targets
  <2>1. q.record = transition(row, q.kind) /\ row \in Records
        /\ q.kind \in AllowedTransitions[row.status]
    BY <1>3 DEF Derived, Targets, Statuses, check_transition
  <2> QED
    BY <1>3, <2>1 DEF transition, Records, Definitions, Readable, Targets
<1> QED
  BY <1>1, <1>2, <1>3 DEF Derived

\* Only a save changes a row.
LEMMA LifecycleStep ==
    ASSUME TypeOK, RouteInv, SequentialInv, Next, Sequential,
           NEW n \in Numbers
    PROVE  LET old == versions[n]
               new == versions'[n]
           IN /\ new # NoVersion => Readable(new)
              /\ old # NoVersion =>
                   /\ new.status \in {old.status}
                                     \cup AllowedTransitions[old.status]
                   /\ new.created_by = old.created_by
                   /\ old.status # "draft" =>
                        new.definition.content = old.definition.content
<1>1. versions[n] # NoVersion => Readable(versions[n])
  BY DEF SequentialInv
<1>2. CASE versions'[n] = versions[n]
  BY <1>1, <1>2
<1>3. ASSUME NEW r \in Requests, Commit(r), n = req[r].version
      PROVE  /\ req[r] \in RequestRecords
             /\ versions[n] \in Records \cup {NoVersion}
             /\ Derived(req[r], versions[n])
             /\ versions'[n] = req[r].record
  BY <1>3, CommitSequential DEF TypeOK, Commit
<1>4. ASSUME NEW r \in Requests, Commit(r), n # req[r].version
      PROVE  versions'[n] = versions[n]
  BY <1>4, CommitSequential DEF TypeOK
<1>5. UNCHANGED versions \/ \E r \in Requests : Commit(r)
  BY DEF Next, Serve, Step, BeginCreate, BeginEdit, BeginTransition,
         BlockSelfApproval, BeginRun, FindDataset, OpenDataset, WriteDataset,
         Load, AppendDecision, OpenFile, WriteFile, PublishRun, Audit, Fail,
         Execute, ScanRaises
<1> QED
  BY <1>1, <1>2, <1>3, <1>4, <1>5, DerivedKeeps

\* The steps of a request that depend on the row it read.
Reading == {"is_file", "open_dataset", "write_dataset", "load", "commit"}

\* A request that begins alone reads a row that nobody else will change.
LEMMA SequentialBegins ==
    ASSUME TypeOK, SequentialInv, Sequential, Sequential', UNCHANGED versions,
           NEW r \in Requests, NEW q \in RequestRecords, Begin(r, q),
           q.pc # "commit",
           q.pc \in Reading => Derived(q, versions[q.version])
    PROVE  SequentialInv'
<1>1. /\ \A o \in Requests : req[o] = Idle
      /\ req'[r] = q /\ \A o \in Requests \ {r} : req'[o] = req[o]
  BY BeginsAlone, BeginType
<1> QED
  BY <1>1 DEF SequentialInv, Reading, Derived

LEMMA SequentialStep ==
    ASSUME TypeOK, RouteInv, SequentialInv, Next
    PROVE  SequentialInv'
<1> SUFFICES ASSUME Sequential'
             PROVE  SequentialInv'
  BY DEF SequentialInv
<1>0. Sequential
  BY SequentialBefore
<1>a. \A r, o \in Requests : req[r] # Idle /\ req[o] # Idle => r = o
  BY <1>0 DEF SequentialInv
<1>b. \A n \in Numbers : versions'[n] # NoVersion => Readable(versions'[n])
  BY <1>0, LifecycleStep
<1>1. ASSUME NEW r \in Requests, NEW a \in Actors, NEW c \in Contents,
             BeginCreate(r, a, c)
      PROVE  SequentialInv'
  <2>1. PICK n \in Numbers, v \in Records :
          /\ v.status = "draft" /\ v.definition.approval_status = "draft"
          /\ versions[n] = NoVersion
          /\ Begin(r, Request("is_file", "create", a, n, v))
    BY <1>1, BeginCreateRecord
  <2> DEFINE q == Request("is_file", "create", a, n, v)
  <2>2. q \in RequestRecords
    BY RequestType DEF Steps, Kinds
  <2>3. q.pc # "commit" /\ Derived(q, versions[q.version])
    BY <2>1 DEF Request, Derived, Readable
  <2> QED
    BY <1>0, <1>1, <2>1, <2>2, <2>3, SequentialBegins DEF BeginCreate
<1>2. ASSUME NEW r \in Requests, NEW a \in Actors, NEW n \in Numbers,
             NEW c \in Contents, BeginEdit(r, a, n, c)
      PROVE  SequentialInv'
  <2>1. PICK v \in get_version(n) :
          editable(v) /\ Begin(r, Request("load", "edit", a, n, edit_draft(v, c)))
    BY <1>2 DEF BeginEdit
  <2> DEFINE q == Request("load", "edit", a, n, edit_draft(v, c))
  <2>2. v = versions[n] /\ v # NoVersion /\ edit_draft(v, c) \in Records
    BY ReadRow, EditType
  <2>3. q \in RequestRecords
    BY <2>2, RequestType DEF Steps, Kinds
  <2>4. q.pc # "commit" /\ Derived(q, versions[q.version])
    BY <2>1, <2>2 DEF Request, Derived, editable
  <2> QED
    BY <1>0, <1>2, <2>1, <2>3, <2>4, SequentialBegins DEF BeginEdit
<1>3. ASSUME NEW r \in Requests, NEW a \in Actors, NEW n \in Numbers,
             NEW t \in Targets, BeginTransition(r, a, n, t)
      PROVE  SequentialInv'
  <2>1. PICK v \in get_version(n) :
          /\ check_transition(v.status, t)
          /\ Begin(r, Request("load", t, a, n, transition(v, t)))
    BY <1>3 DEF BeginTransition
  <2> DEFINE q == Request("load", t, a, n, transition(v, t))
  <2>2. v = versions[n] /\ v # NoVersion /\ transition(v, t) \in Records
    BY ReadRow, TransitionType
  <2>3. q \in RequestRecords
    BY <2>2, RequestType DEF Steps, Kinds
  <2>4. q.pc # "commit" /\ Derived(q, versions[q.version])
    BY <2>1, <2>2 DEF Request, Derived
  <2> QED
    BY <1>0, <1>3, <2>1, <2>3, <2>4, SequentialBegins DEF BeginTransition
<1>4. ASSUME NEW r \in Requests, NEW a \in Actors, NEW n \in Numbers,
             BlockSelfApproval(r, a, n) \/ BeginRun(r, a, n)
      PROVE  SequentialInv'
  <2>1. PICK v \in get_version(n) :
          \/ Begin(r, Request("audit", "self_approval_blocked", a, n, v))
          \/ Begin(r, Request("open", "run", a, n, v))
    BY <1>4 DEF BlockSelfApproval, BeginRun
  <2> DEFINE p == Request("audit", "self_approval_blocked", a, n, v)
             q == Request("open", "run", a, n, v)
  <2>2. v \in Records
    BY ReadRow
  <2>3. p \in RequestRecords /\ q \in RequestRecords
    BY <2>2, RequestType DEF Steps, Kinds
  <2>4. p.pc \notin Reading /\ q.pc \notin Reading
    BY DEF Request, Reading
  <2>5. UNCHANGED versions
    BY <1>4 DEF BlockSelfApproval, BeginRun
  <2> HIDE DEF p, q
  <2>6. CASE Begin(r, p)
    BY <1>0, <2>3, <2>4, <2>5, <2>6, SequentialBegins DEF Reading
  <2>7. CASE Begin(r, q)
    BY <1>0, <2>3, <2>4, <2>5, <2>7, SequentialBegins DEF Reading
  <2> QED
    BY <2>1, <2>6, <2>7 DEF p, q
<1>5. ASSUME NEW r \in Requests, NEW pc \in Steps, req[r] # Idle, Goto(r, pc),
             \/ pc \notin Reading
             \/ /\ req[r].pc \in Reading /\ pc # "commit"
                /\ UNCHANGED versions
      PROVE  SequentialInv'
  <2>1. /\ req'[r].pc = pc
        /\ \A f \in {"kind", "actor", "version", "record", "row"} :
             req'[r][f] = req[r][f]
        /\ \A o \in Requests \ {r} : req'[o] = req[o]
    BY <1>5, GotoType
  <2>2. req'[r].kind = req[r].kind /\ req'[r].version = req[r].version
        /\ req'[r].record = req[r].record
    BY <2>1
  <2>3. \A o \in Requests \ {r} : req'[o] = Idle
    BY <1>5, <1>a, <2>1
  <2>4. req'[r].pc \in Reading => Derived(req'[r], versions'[req'[r].version])
    BY <1>0, <1>5, <2>1, <2>2 DEF SequentialInv, Derived, Reading
  <2>5. req'[r].pc # "commit"
    BY <1>5, <2>1 DEF Reading
  <2> QED
    BY <1>b, <2>3, <2>4, <2>5 DEF SequentialInv, Derived, Reading
<1>6. ASSUME NEW r \in Requests, Load(r) PROVE SequentialInv'
  <2>1. /\ req'[r].row = versions[req[r].version]
        /\ req'[r].kind = req[r].kind /\ req'[r].version = req[r].version
        /\ req'[r].record = req[r].record
        /\ \A o \in Requests \ {r} : req'[o] = req[o]
    BY <1>6, LoadType
  <2>2. UNCHANGED versions /\ req[r] # Idle /\ req[r].pc = "load"
    BY <1>6 DEF Load
  <2>3. Derived(req'[r], versions'[req'[r].version])
        /\ req'[r].row = versions'[req'[r].version]
    BY <1>0, <2>1, <2>2 DEF SequentialInv, Derived
  <2>4. \A o \in Requests \ {r} : req'[o] = Idle
    BY <1>a, <2>1, <2>2
  <2> QED
    BY <1>b, <2>3, <2>4 DEF SequentialInv, Derived
<1>7. ASSUME NEW r \in Requests,
             FindDataset(r) \/ OpenDataset(r) \/ WriteDataset(r)
      PROVE  SequentialInv'
  BY <1>5, <1>7
     DEF FindDataset, OpenDataset, WriteDataset, Steps, Reading
<1>8. ASSUME NEW r \in Requests, Commit(r) PROVE SequentialInv'
  <2>1. Goto(r, AfterSave(req[r])) /\ req[r] # Idle
    BY <1>0, <1>8, CommitSequential DEF Commit
  <2>2. AfterSave(req[r]) \in Steps \ Reading
    BY DEF AfterSave, Steps, Reading
  <2> QED
    BY <1>5, <2>1, <2>2
<1>9. ASSUME NEW r \in Requests,
             \/ AppendDecision(r) \/ OpenFile(r) \/ WriteFile(r)
             \/ PublishRun(r)
      PROVE  SequentialInv'
  <2>1. PICK pc \in Steps \ Reading : Goto(r, pc)
    BY <1>9 DEF AppendDecision, OpenFile, WriteFile, PublishRun, Steps, Reading
  <2>2. req[r] # Idle
    BY <1>9 DEF AppendDecision, OpenFile, WriteFile, PublishRun
  <2> QED
    BY <1>5, <2>1, <2>2
<1>10. ASSUME NEW r \in Requests, Audit(r) \/ Fail(r) PROVE SequentialInv'
  <2>1. req[r] # Idle /\ req' = [req EXCEPT ![r] = Idle]
    BY <1>10 DEF Audit, Fail
  <2>2. \A o \in Requests : req'[o] = Idle
    BY <1>a, <2>1 DEF TypeOK
  <2> QED
    BY <1>b, <2>2 DEF SequentialInv
<1>11. ASSUME NEW j \in DOMAIN jobs, Execute(j) \/ ScanRaises(j) PROVE SequentialInv'
  BY <1>0, <1>11 DEF Execute, ScanRaises, SequentialInv, Derived
<1> QED
  BY <1>1, <1>2, <1>3, <1>4, <1>6, <1>7, <1>8, <1>9, <1>10, <1>11
     DEF Next, Serve, Step
-----------------------------------------------------------------------------
(***************************************************************************)
(* The theorems.                                                           *)
(***************************************************************************)

IInv ==
    /\ TypeOK /\ RouteInv
    /\ EndorsedInv /\ RunsAreEndorsed
    /\ BackedInv /\ AuditIsBacked
    /\ SequentialInv

\* IInv is an inductive invariant of the specification.
THEOREM Invariance == Spec => []IInv
<1>1. Init => IInv
  <2> SUFFICES ASSUME Init PROVE IInv
    OBVIOUS
  <2>1. TypeOK
    <3>1. jobs \in Seq([version : Numbers, ran : Definitions \cup {Absent},
                        status : {"queued", "running", "not_found", "denied",
                                  "failed", "completed"}])
      BY EmptySeq DEF Init
    <3> QED
      BY <3>1 DEF Init, TypeOK, Files
  <2>2. RouteInv /\ EndorsedInv /\ BackedInv /\ SequentialInv
    BY DEF Init, RouteInv, EndorsedInv, BackedInv, SequentialInv
  <2>3. RunsAreEndorsed /\ AuditIsBacked
    BY StudioAssumption DEF Init, RunsAreEndorsed, AuditIsBacked
  <2> QED
    BY <2>1, <2>2, <2>3 DEF IInv
<1>2. IInv /\ [Next]_vars => IInv'
  <2>1. IInv /\ Next => IInv'
    BY TypeStep, RouteStep, EndorsedStep, RunsStep, BackedStep, AuditStep,
       SequentialStep DEF IInv
  <2>2. IInv /\ UNCHANGED vars => IInv'
    <3> SUFFICES ASSUME IInv, UNCHANGED vars PROVE IInv'
      OBVIOUS
    <3>1. TypeOK' /\ RouteInv'
      BY TypeStep, RouteStep DEF IInv
    <3>2. EndorsedInv' /\ RunsAreEndorsed'
      BY DEF IInv, vars, history, EndorsedInv, EndorsedWhenApproved, Endorsed,
             RunsAreEndorsed
    <3>3. BackedInv' /\ AuditIsBacked'
      BY DEF IInv, vars, history, BackedInv, AuditIsBacked
    <3>4. SequentialInv'
      BY DEF IInv, vars, history, SequentialInv, Sequential, Derived
    <3> QED
      BY <3>1, <3>2, <3>3, <3>4 DEF IInv
  <2> QED
    BY <2>1, <2>2
<1> QED
  BY <1>1, <1>2, PTL DEF Spec

\* Every row, request, job and audit event has its type in every state.
THEOREM TypeCorrect == Spec => []TypeOK
<1>1. IInv => TypeOK
  BY DEF IInv
<1> QED
  BY <1>1, Invariance, PTL

\* Whatever is offered or was run as approved was read, undecided, by somebody
\* entitled to approve it, however many requests interleave and fail.
THEOREM RunsEndorsed == Spec => []RunsAreEndorsed
<1>1. IInv => RunsAreEndorsed
  BY DEF IInv
<1> QED
  BY <1>1, Invariance, PTL

\* No audit event speaks of a decision that is not logged or of a run that was
\* not submitted, wherever the requests fail.
THEOREM AuditBacked == Spec => []AuditIsBacked
<1>1. IInv => AuditIsBacked
  BY DEF IInv
<1> QED
  BY <1>1, Invariance, PTL

\* Requests that do not overlap keep the lifecycle of every version, its
\* creator and the content of what has left draft.
THEOREM LifecycleKept == Spec => RowsKeepLifecycle
<1> DEFINE Keeps ==
      Sequential =>
        \A n \in Numbers :
          LET old == versions[n]
              new == versions'[n]
          IN /\ new # NoVersion => Readable(new)
             /\ old # NoVersion =>
                  /\ new.status \in {old.status}
                                    \cup AllowedTransitions[old.status]
                  /\ new.created_by = old.created_by
                  /\ old.status # "draft" =>
                       new.definition.content = old.definition.content
<1>1. IInv /\ [Next]_vars => [Keeps]_vars
  BY LifecycleStep DEF IInv
<1>2. Spec => [][Keeps]_vars
  BY <1>1, Invariance, PTL DEF Spec
<1> QED
  BY <1>2 DEF RowsKeepLifecycle
=============================================================================
