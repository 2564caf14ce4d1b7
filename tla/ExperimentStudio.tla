--------------------------- MODULE ExperimentStudio ---------------------------
(***************************************************************************)
(* Experiment Studio: the numbered versions of one experiment, their       *)
(* review, the experiments directory an approved version is written to and *)
(* the runs submitted from it.                                             *)
(*                                                                         *)
(* A request reads a version, decides on what it read and saves the whole  *)
(* record back.  The save loads the row again and updates the columns that *)
(* differ from that second read, in a READ COMMITTED transaction without a *)
(* lock, so another save may commit between either read and the commit.    *)
(* The file of the experiment is truncated and then written.  A request    *)
(* may fail (its process die, a store refuse) before any of its steps.     *)
(*                                                                         *)
(* The row of a job and the broker are one queue here; RunJobs has them    *)
(* write by write.                                                         *)
(***************************************************************************)
EXTENDS Naturals, Sequences

CONSTANTS
    Requests,   \* requests the API serves at the same time
    Actors,     \* [name, role] pairs that log in; an admin may change a role
    Contents,   \* what a researcher can write into a definition
    MaxVersion, \* bound on the version number
    MaxJobs,    \* bound on the runs submitted
    Budgets,    \* the combinations of bounded events a behaviour may have
    NoVersion,  \* no such row
    Idle,       \* a request slot that serves nothing
    Absent,     \* no file
    Empty,      \* a file that was truncated and not written yet
    Garbled     \* a file whose bytes are a mixture of two texts

Roles == {"viewer", "researcher", "reviewer", "admin"}

\* What Budgets bounds: creations, edits, other requests, requests that begin
\* while another is served, and requests that fail half-way.
BoundedEvents == {"create", "edit", "request", "overlap", "fail"}

VARIABLES
    versions,   \* the rows of experiment_versions, by version number
    approvals,  \* the rows of experiment_version_approvals
    dataset,    \* the generated dataset file: "absent", "partial" or "whole"
    file,       \* the file of the experiment in the experiments directory
    req,        \* req[r]: the request r serves, and how far it is
    audit,      \* the audit events recorded
    jobs,       \* the runs submitted, in order, and what came of each
    endorsed,   \* history: what each approving request had read
    spent       \* spent[k]: bounded events of kind k so far

history == <<endorsed, spent>>
vars == <<versions, approvals, dataset, file, req, audit, jobs, history>>
-----------------------------------------------------------------------------
Numbers == 1..MaxVersion

Statuses == {"draft", "ready_for_review", "under_review", "approved",
             "rejected", "retired"}

Targets == Statuses \ {"draft"}

Names == {a.name : a \in Actors}

Definitions == [version : Numbers, content : Contents,
                approval_status : {"draft", "approved"}]

Records == [status : Statuses, definition : Definitions, created_by : Names]

\* What the experiments directory can hold for this experiment.
Files == {Absent, Empty, Garbled} \cup Definitions

\* What a request can be about to do, and what a request is about.
Steps == {"is_file", "open_dataset", "write_dataset", "load", "commit",
          "append", "open", "write", "publish", "audit"}
Kinds == Targets \cup {"create", "edit", "run", "self_approval_blocked"}

RequestRecords ==
    [pc : Steps, kind : Kinds, actor : Names, version : Numbers,
     record : Records, row : Records \cup {NoVersion}]

ASSUME StudioAssumption ==
    /\ MaxVersion \in Nat /\ MaxJobs \in Nat
    /\ Budgets \subseteq [BoundedEvents -> Nat]
    /\ \A a \in Actors : a.role \in Roles
    /\ NoVersion \notin Records /\ Idle \notin RequestRecords
    /\ {Absent, Empty, Garbled} \cap Definitions = {}

AllowedTransitions ==
    [draft            |-> {"ready_for_review"},
     ready_for_review |-> {"under_review", "draft"},
     under_review     |-> {"approved", "rejected", "ready_for_review"},
     approved         |-> {"retired"},
     rejected         |-> {},
     retired          |-> {}]

\* Mutant: a version can be retired from wherever it is.
Mut_check_transition(current, target) ==
    target = "retired" \/ target \in AllowedTransitions[current]

check_transition(current, target) == target \in AllowedTransitions[current]

\* The routes that change a status, with the roles each requires.  No route
\* leads back to draft or from under_review to ready_for_review.
RequiredRoles ==
    [create           |-> {"researcher", "admin"},
     edit             |-> {"researcher", "admin"},
     ready_for_review |-> {"researcher", "admin"},
     under_review     |-> {"reviewer", "admin"},
     approved         |-> {"reviewer", "admin"},
     rejected         |-> {"reviewer", "admin"},
     retired          |-> {"reviewer", "admin"},
     run              |-> {"researcher", "reviewer", "admin"}]

\* The new record of a transition; approval_status moves in lockstep.
transition(v, target) ==
    [v EXCEPT !.status = target,
              !.definition.approval_status =
                  IF target = "approved" THEN "approved" ELSE "draft"]

\* A row whose status and definition disagree does not validate: every read
\* of it, alone or in a list, raises.
Readable(v) ==
    (v.definition.approval_status = "approved") <=> (v.status = "approved")

get_version(n) == {v \in {versions[n]} : v # NoVersion /\ Readable(v)}

\* The number of the last version, from a listing of all of them.
latest_version_number ==
    {m \in 0..MaxVersion :
        /\ \A n \in Numbers : versions[n] # NoVersion => Readable(versions[n])
        /\ \A n \in Numbers : versions[n] # NoVersion => n <= m
        /\ m # 0 => versions[m] # NoVersion}

\* edit_draft refuses a version that has left draft.
editable(v) == v.status = "draft"

edit_draft(v, c) == [v EXCEPT !.definition.content = c]

\* Mutant: the check is made on the role alone.
Mut_self_approval(v, a, target) == FALSE

\* A user who created a version cannot approve it, unless as an admin.
self_approval(v, a, target) ==
    target = "approved" /\ a.name = v.created_by /\ a.role # "admin"

Request(pc, kind, a, n, v) ==
    [pc |-> pc, kind |-> kind, actor |-> a.name, version |-> n, record |-> v,
     row |-> NoVersion]

Spend(K) ==
    /\ spent' = [k \in BoundedEvents |-> spent[k] + IF k \in K THEN 1 ELSE 0]
    /\ \E b \in Budgets : \A k \in BoundedEvents : spent'[k] <= b[k]

Busy == \E r \in Requests : req[r] # Idle

\* Slot r starts to serve q, perhaps while another slot serves a request.
Begin(r, q) ==
    /\ req[r] = Idle
    /\ Spend({IF q.kind \in {"create", "edit"} THEN q.kind ELSE "request"}
               \cup (IF Busy THEN {"overlap"} ELSE {}))
    /\ req' = [req EXCEPT ![r] = q]

Goto(r, pc) == req' = [req EXCEPT ![r].pc = pc]

Init ==
    /\ versions = [n \in Numbers |-> NoVersion]
    /\ approvals = {}
    /\ dataset = "absent"
    /\ file = Absent
    /\ req = [r \in Requests |-> Idle]
    /\ audit = {}
    /\ jobs = <<>>
    /\ endorsed = {}
    /\ spent = [k \in BoundedEvents |-> 0]
-----------------------------------------------------------------------------
(* POST /experiment-versions. *)

\* The number is taken from the listing, before the dataset is written.
BeginCreate(r, a, c) ==
    /\ a.role \in RequiredRoles["create"]
    /\ \E m \in latest_version_number :
         /\ m < MaxVersion
         /\ LET draft == [status |-> "draft",
                          definition |-> [version |-> m + 1, content |-> c,
                                          approval_status |-> "draft"],
                          created_by |-> a.name]
            IN Begin(r, Request("is_file", "create", a, m + 1, draft))
    /\ UNCHANGED <<versions, approvals, dataset, file, audit, jobs, endorsed>>

\* A dataset file that exists is used as it is.
FindDataset(r) ==
    /\ req[r] # Idle /\ req[r].pc = "is_file"
    /\ Goto(r, IF dataset = "absent" THEN "open_dataset" ELSE "load")
    /\ UNCHANGED <<versions, approvals, dataset, file, audit, jobs, history>>

OpenDataset(r) ==
    /\ req[r] # Idle /\ req[r].pc = "open_dataset"
    /\ dataset' = "partial"
    /\ Goto(r, "write_dataset")
    /\ UNCHANGED <<versions, approvals, file, audit, jobs, history>>

\* Every writer of the dataset writes the same bytes.
WriteDataset(r) ==
    /\ req[r] # Idle /\ req[r].pc = "write_dataset"
    /\ dataset' = "whole"
    /\ Goto(r, "load")
    /\ UNCHANGED <<versions, approvals, file, audit, jobs, history>>

(* PATCH /experiment-versions/{id}. *)
BeginEdit(r, a, n, c) ==
    /\ a.role \in RequiredRoles["edit"]
    /\ \E v \in get_version(n) :
         /\ editable(v)
         /\ Begin(r, Request("load", "edit", a, n, edit_draft(v, c)))
    /\ UNCHANGED <<versions, approvals, dataset, file, audit, jobs, endorsed>>

(* The five transition routes. *)
BeginTransition(r, a, n, target) ==
    /\ a.role \in RequiredRoles[target]
    /\ \E v \in get_version(n) :
         /\ ~self_approval(v, a, target)
         /\ check_transition(v.status, target)
         /\ Begin(r, Request("load", target, a, n, transition(v, target)))
         /\ endorsed' = IF target = "approved"
                        THEN endorsed \cup
                             {[definition |-> transition(v, target).definition,
                               actor |-> a, created_by |-> v.created_by]}
                        ELSE endorsed
    /\ UNCHANGED <<versions, approvals, dataset, file, audit, jobs>>

\* The blocked attempt is audited and the request refused.
BlockSelfApproval(r, a, n) ==
    /\ a.role \in RequiredRoles["approved"]
    /\ \E v \in get_version(n) :
         /\ self_approval(v, a, "approved")
         /\ Begin(r, Request("audit", "self_approval_blocked", a, n, v))
    /\ UNCHANGED <<versions, approvals, dataset, file, audit, jobs, endorsed>>
-----------------------------------------------------------------------------
(* ExperimentVersionRepository.save_version: load the row, then commit the *)
(* columns that changed with respect to it. *)
Load(r) ==
    /\ req[r] # Idle /\ req[r].pc = "load"
    /\ req' = [req EXCEPT ![r].pc = "commit",
                          ![r].row = versions[req[r].version]]
    /\ UNCHANGED <<versions, approvals, dataset, file, audit, jobs, history>>

\* Column f of the row once q's changes are written over what is there now.
Column(q, f) ==
    IF q.record[f] = q.row[f] THEN versions[q.version][f] ELSE q.record[f]

\* Mutant: no decision is logged.
Mut_AfterSaveSkip(q) == "audit"

AfterSave(q) == IF q.kind \in {"create", "edit"} THEN "audit" ELSE "append"

\* An insert fails when the row has appeared since it was looked for.
Commit(r) ==
    /\ req[r] # Idle /\ req[r].pc = "commit"
    /\ LET q == req[r] IN
       \/ /\ q.row = NoVersion /\ versions[q.version] = NoVersion
          /\ versions' = [versions EXCEPT ![q.version] = q.record]
          /\ Goto(r, AfterSave(q))
       \/ /\ q.row = NoVersion /\ versions[q.version] # NoVersion
          /\ req' = [req EXCEPT ![r] = Idle]
          /\ UNCHANGED versions
       \/ /\ q.row # NoVersion
          /\ versions' = [versions EXCEPT ![q.version] =
                             [f \in DOMAIN q.record |-> Column(q, f)]]
          /\ Goto(r, AfterSave(q))
    /\ UNCHANGED <<approvals, dataset, file, audit, jobs, history>>

AppendDecision(r) ==
    /\ req[r] # Idle /\ req[r].pc = "append"
    /\ approvals' = approvals \cup {[version |-> req[r].version,
                                     to |-> req[r].kind,
                                     actor |-> req[r].actor]}
    /\ Goto(r, IF req[r].kind = "approved" THEN "open" ELSE "audit")
    /\ UNCHANGED <<versions, dataset, file, audit, jobs, history>>
-----------------------------------------------------------------------------
(* materialise_to_experiments_dir: truncate the file, then write it.  Two *)
(* writers that both truncated write over each other from the start, so   *)
(* the shorter text leaves a tail of the longer one behind it.            *)
OpenFile(r) ==
    /\ req[r] # Idle /\ req[r].pc = "open"
    /\ file' = Empty
    /\ Goto(r, "write")
    /\ UNCHANGED <<versions, approvals, dataset, audit, jobs, history>>

WriteFile(r) ==
    /\ req[r] # Idle /\ req[r].pc = "write"
    /\ LET d == req[r].record.definition IN
       file' \in IF file \in {Empty, d} THEN {d} ELSE {d, Garbled}
    /\ Goto(r, IF req[r].kind = "run" THEN "publish" ELSE "audit")
    /\ UNCHANGED <<versions, approvals, dataset, audit, jobs, history>>

(* POST /experiment-versions/{id}/runs. *)
BeginRun(r, a, n) ==
    /\ Len(jobs) < MaxJobs
    /\ a.role \in RequiredRoles["run"]
    /\ \E v \in get_version(n) :
         /\ v.status = "approved"
         /\ Begin(r, Request("open", "run", a, n, v))
    /\ UNCHANGED <<versions, approvals, dataset, file, audit, jobs, endorsed>>

\* The job names the experiment; the version is history.
PublishRun(r) ==
    /\ req[r] # Idle /\ req[r].pc = "publish"
    /\ Len(jobs) < MaxJobs
    /\ jobs' = Append(jobs, [version |-> req[r].version, status |-> "queued",
                             ran |-> Absent])
    /\ Goto(r, "audit")
    /\ UNCHANGED <<versions, approvals, dataset, file, audit, history>>

\* The last step of every handler.
Audit(r) ==
    /\ req[r] # Idle /\ req[r].pc = "audit"
    /\ audit' = audit \cup {[action |-> req[r].kind,
                             version |-> req[r].version]}
    /\ req' = [req EXCEPT ![r] = Idle]
    /\ UNCHANGED <<versions, approvals, dataset, file, jobs, history>>

Fail(r) ==
    /\ req[r] # Idle
    /\ Spend({"fail"})
    /\ req' = [req EXCEPT ![r] = Idle]
    /\ UNCHANGED <<versions, approvals, dataset, file, audit, jobs, endorsed>>
-----------------------------------------------------------------------------
(* A worker takes any queued job and looks its experiment up in the        *)
(* directory.  A file that does not parse is skipped: not found.           *)
Execute(j) ==
    /\ jobs[j].status = "queued"
    /\ jobs' = [jobs EXCEPT ![j] =
         IF file \notin Definitions
         THEN [@ EXCEPT !.status = "not_found"]
         ELSE IF file.approval_status # "approved"
         THEN [@ EXCEPT !.status = "denied"]
         ELSE IF dataset # "whole"
         THEN [@ EXCEPT !.status = "failed"]
         ELSE [@ EXCEPT !.status = "completed", !.ran = file]]
    /\ UNCHANGED <<versions, approvals, dataset, file, req, audit, history>>

\* The scan of the directory raises: one of its files is no UTF-8, or was gone
\* when it was to be read.  The worker swallows that and the job stays running.
ScanRaises(j) ==
    /\ jobs[j].status = "queued"
    /\ jobs' = [jobs EXCEPT ![j].status = "running"]
    /\ UNCHANGED <<versions, approvals, dataset, file, req, audit, history>>

Step(r) ==
    \/ FindDataset(r) \/ OpenDataset(r) \/ WriteDataset(r)
    \/ Load(r) \/ Commit(r) \/ AppendDecision(r)
    \/ OpenFile(r) \/ WriteFile(r) \/ PublishRun(r)
    \/ Audit(r) \/ Fail(r)

\* A free slot is given a request.
Serve(r) ==
    /\ req[r] = Idle
    /\ Busy => \E b \in Budgets : spent["overlap"] < b["overlap"]
    /\ \E a \in Actors :
         \/ \E c \in Contents : BeginCreate(r, a, c)
         \/ \E n \in Numbers :
              \/ \E c \in Contents : BeginEdit(r, a, n, c)
              \/ \E t \in Targets : BeginTransition(r, a, n, t)
              \/ BlockSelfApproval(r, a, n)
              \/ BeginRun(r, a, n)

Next ==
    \/ \E r \in Requests : Serve(r)
    \/ \E r \in Requests : Step(r)
    \/ \E j \in DOMAIN jobs : Execute(j) \/ ScanRaises(j)

Spec == Init /\ [][Next]_vars
-----------------------------------------------------------------------------
(* Properties. *)

\* Somebody entitled to approve d read d, undecided, and approved it.
Endorsed(d) ==
    \E e \in endorsed :
        /\ e.definition = d
        /\ e.actor.role \in {"reviewer", "admin"}
        /\ e.actor.name # e.created_by \/ e.actor.role = "admin"

\* What the directory offers as approved, and what a worker ran, is word for
\* word a definition that a reviewer who did not create it had before them,
\* however the saves, the edits and the writes of the file interleave.
RunsAreEndorsed ==
    /\ file \in Definitions /\ file.approval_status = "approved"
           => Endorsed(file)
    /\ \A j \in DOMAIN jobs : jobs[j].status = "completed"
           => Endorsed(jobs[j].ran)

\* An audit event for a decision has the decision behind it in the approval
\* log, and one for a submitted run has a job behind it: the audit event is
\* recorded last, so it can be missing but never claim what did not happen.
AuditIsBacked ==
    \A e \in audit :
        /\ e.action \in Targets =>
             \E d \in approvals : d.version = e.version /\ d.to = e.action
        /\ e.action = "run" =>
             \E j \in DOMAIN jobs : jobs[j].version = e.version

\* No request has begun while another was served.
Sequential == spent["overlap"] = 0

\* Requests that do not overlap, wherever they fail, leave every row readable,
\* its status in agreement with the approval_status of its definition; move a
\* status along AllowedTransitions only; and never change the content of a
\* row past draft, nor the creator, on whom the self-approval rule rests.
RowsKeepLifecycle ==
    [][Sequential =>
         \A n \in Numbers :
           LET old == versions[n]
               new == versions'[n]
           IN /\ new # NoVersion => Readable(new)
              /\ old # NoVersion =>
                   /\ new.status \in {old.status}
                                     \cup AllowedTransitions[old.status]
                   /\ new.created_by = old.created_by
                   /\ old.status # "draft" =>
                        new.definition.content = old.definition.content]_vars
-----------------------------------------------------------------------------
(***************************************************************************)
(* The inductive invariants that ExperimentStudioProofs proves.            *)
(***************************************************************************)

TypeOK ==
    /\ versions \in [Numbers -> Records \cup {NoVersion}]
    /\ approvals \subseteq [version : Numbers, to : Targets, actor : Names]
    /\ dataset \in {"absent", "partial", "whole"}
    /\ file \in Files
    /\ req \in [Requests -> RequestRecords \cup {Idle}]
    /\ audit \subseteq [action : Kinds, version : Numbers]
    /\ jobs \in Seq([version : Numbers, ran : Definitions \cup {Absent},
                     status : {"queued", "running", "not_found", "denied",
                               "failed", "completed"}])
    /\ endorsed \subseteq [definition : Definitions, actor : Actors,
                           created_by : Names]
    /\ spent \in [BoundedEvents -> Nat]

\* A request is where its route can be, and one that has found a row finds
\* the row for ever.
RouteInv ==
    \A r \in Requests : req[r] # Idle =>
        /\ req[r].pc \in {"is_file", "open_dataset", "write_dataset"} =>
             req[r].kind = "create"
        /\ req[r].pc \in {"load", "commit"} =>
             req[r].kind \in Targets \cup {"create", "edit"}
        /\ req[r].pc = "append" => req[r].kind \in Targets
        /\ req[r].pc \in {"open", "write"} => req[r].kind \in {"approved", "run"}
        /\ req[r].pc = "publish" => req[r].kind = "run"
        /\ req[r].row # NoVersion => versions[req[r].version] # NoVersion

\* An approved definition is endorsed wherever it is: in a row, in the file,
\* in the record that a request is about to save, and in what ran.
EndorsedWhenApproved(d) == d.approval_status = "approved" => Endorsed(d)

EndorsedInv ==
    /\ \A n \in Numbers : versions[n] # NoVersion =>
         EndorsedWhenApproved(versions[n].definition)
    /\ \A r \in Requests : req[r] # Idle =>
         EndorsedWhenApproved(req[r].record.definition)

\* A request about to audit a decision or a run has logged or queued it.
BackedInv ==
    \A r \in Requests : req[r] # Idle =>
        /\ (req[r].kind \in Targets /\ req[r].pc \in {"open", "write", "audit"}) =>
             \E d \in approvals : d.version = req[r].version /\ d.to = req[r].kind
        /\ (req[r].kind = "run" /\ req[r].pc = "audit") =>
             \E j \in DOMAIN jobs : jobs[j].version = req[r].version

\* What a request about to save makes of the row that is there.
Derived(q, row) ==
    \/ /\ row = NoVersion /\ q.kind = "create"
       /\ q.record.status = "draft" /\ Readable(q.record)
    \/ /\ row # NoVersion /\ q.kind = "edit"
       /\ row.status = "draft"
       /\ \E c \in Contents : q.record = edit_draft(row, c)
    \/ /\ row # NoVersion /\ q.kind \in Targets
       /\ check_transition(row.status, q.kind)
       /\ q.record = transition(row, q.kind)

\* Without overlaps there is at most one request, and what it read still holds.
SequentialInv ==
    Sequential =>
        /\ \A r, o \in Requests : req[r] # Idle /\ req[o] # Idle => r = o
        /\ \A n \in Numbers : versions[n] # NoVersion => Readable(versions[n])
        /\ \A r \in Requests :
             (req[r] # Idle /\ req[r].pc \in {"is_file", "open_dataset",
                                            "write_dataset", "load", "commit"})
               => /\ Derived(req[r], versions[req[r].version])
                  /\ req[r].pc = "commit" =>
                       req[r].row = versions[req[r].version]
=============================================================================
