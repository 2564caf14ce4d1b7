---------------------------- MODULE JobEventStream ----------------------------
(***************************************************************************)
(* The life of one job as a browser sees it: the run events that the API   *)
(* handler and the worker record, the server-sent event stream that polls  *)
(* them together with the job record, and the live run view that shows     *)
(* what the stream sends.                                                  *)
(*                                                                         *)
(* record_event stamps an event before its transaction begins and orders   *)
(* the history by stamp, so the history may grow in the middle.  The       *)
(* stream reads the history and the job record one after the other.        *)
(*                                                                         *)
(* The message of a worker that dies is delivered again, and so is that of *)
(* a worker whose connection the broker drops: this one goes on, and two   *)
(* workers record events and statuses of the job side by side.             *)
(***************************************************************************)
EXTENDS Naturals, FiniteSets, Sequences

CONSTANTS
    Workers,   \* worker processes
    MaxPolls,  \* _MAX_STREAM_SECONDS / _POLL_INTERVAL_SECONDS
    Budgets    \* the faults, and the events, that a behaviour may have

\* A worker dies and is replaced; the broker drops a worker's connection;
\* processing raises; an event write fails; the browser loses the stream.
FaultKinds == {"death", "disconnect", "raise", "loss", "drop"}

ASSUME StreamAssumption ==
    /\ Workers \cap {"api", "queued", "acked"} = {}
    /\ MaxPolls \in Nat \ {0}
    /\ Budgets \subseteq [FaultKinds \cup {"events"} -> Nat]

VARIABLES
    clock,    \* the time of the next event
    history,  \* the run_events rows of the job: records [type, at]
    tx,       \* tx[p]: the event process p is recording, or NoTx
    queued,   \* the API handler has yet to record QUEUED
    message,  \* the worker that has to acknowledge it, "queued" or "acked"
    wpc,      \* wpc[w]: what worker w does next
    stage,    \* stage[w]: stages w has recorded of its delivery
    status,   \* the status of the job record
    events,   \* the history as the stream read it last
    seen,     \* its length at the end of that poll
    polls,    \* polls since the stream was opened
    payload,  \* the status job_terminal carries
    spc,      \* what the stream does next
    shown,    \* the events the view has shown
    job,      \* the status the view shows
    faults    \* faults[k]: faults of kind k so far

workerVars == <<message, wpc, stage, status>>
writerVars == <<clock, history, tx, queued, workerVars>>
streamVars == <<events, seen, polls, payload, spc>>
viewVars   == <<shown, job>>
vars == <<writerVars, streamVars, viewVars, faults>>
-----------------------------------------------------------------------------
Terminal == {"completed", "failed", "denied"}

\* The stages of one delivery that runs to the end.
StageOrder == <<"preparing", "safety_check", "running_baseline",
                "running_mitigation", "analysing", "generating_evidence">>
EventTypes == {"queued"} \cup {StageOrder[i] : i \in 1..6} \cup Terminal
Processes == {"api"} \cup Workers

\* A row of run_events, and the process that recorded it.
Events == [type : EventTypes, at : Nat, by : Processes]

\* row: whether the runs row of the job is there, once looked for.
NoTx == [type |-> "none", at |-> 0, row |-> "unknown"]

Spend(k) ==
    /\ faults' = [faults EXCEPT ![k] = @ + 1]
    /\ \E b \in Budgets :
         clock <= b["events"] + 1 /\ \A i \in FaultKinds : faults'[i] <= b[i]

Init ==
    /\ clock = 1
    /\ history = {}
    /\ tx = [p \in Processes |-> NoTx]
    /\ queued = TRUE
    /\ message = "queued"
    /\ wpc = [w \in Workers |-> "waiting"]
    /\ stage = [w \in Workers |-> 0]
    /\ status = "queued"
    /\ events = {}
    /\ seen = 0
    /\ polls = 0
    /\ payload = "queued"
    /\ spc = "listing"
    /\ shown = {}
    /\ job = "queued"
    /\ faults = [k \in FaultKinds |-> 0]
-----------------------------------------------------------------------------
(***************************************************************************)
(* record_event, in three steps.                                           *)
(***************************************************************************)

\* The event is stamped.
BeginEvent(p, type) ==
    /\ tx[p] = NoTx
    /\ tx' = [tx EXCEPT ![p] = [type |-> type, at |-> clock, row |-> "unknown"]]
    /\ clock' = clock + 1
    /\ \E b \in Budgets :
         clock <= b["events"] /\ \A i \in FaultKinds : faults[i] <= b[i]

\* The transaction looks for the runs row: the first event inserts it.
FindRow(p) ==
    /\ tx[p] # NoTx /\ tx[p].row = "unknown"
    /\ tx' = [tx EXCEPT ![p].row = IF history = {} THEN "missing" ELSE "found"]
    /\ UNCHANGED <<clock, history, queued, workerVars, streamVars, viewVars,
                   faults>>

\* The transaction commits, unless it inserts a runs row that another process
\* has inserted since; the caller logs the failure and goes on.
CommitEvent(p) ==
    /\ tx[p].row # "unknown"
    /\ tx' = [tx EXCEPT ![p] = NoTx]
    /\ history' = IF tx[p].row = "missing" /\ history # {} THEN history
                  ELSE history \cup {[type |-> tx[p].type, at |-> tx[p].at,
                                      by |-> p]}
    /\ UNCHANGED <<clock, queued, workerVars, streamVars, viewVars, faults>>

\* The database fails, which the caller logs as well.
LoseEvent(p) ==
    /\ tx[p] # NoTx
    /\ Spend("loss")
    /\ tx' = [tx EXCEPT ![p] = NoTx]
    /\ UNCHANGED <<clock, history, queued, workerVars, streamVars, viewVars>>

\* submit_run, after it has published the message.
RecordQueued ==
    /\ queued
    /\ BeginEvent("api", "queued")
    /\ queued' = FALSE
    /\ UNCHANGED <<history, workerVars, streamVars, viewVars, faults>>
-----------------------------------------------------------------------------
(***************************************************************************)
(* process_run_job, as far as clients can see it.                          *)
(***************************************************************************)

\* The message is delivered, and the job recorded as running, unless that
\* write raises: the worker swallows the exception.
StartJob(w) ==
    /\ message = "queued" /\ wpc[w] = "waiting"
    /\ message' = w
    /\ \/ /\ status' = "running"
          /\ wpc' = [wpc EXCEPT ![w] = "executing"]
          /\ UNCHANGED faults
       \/ /\ Spend("raise")
          /\ wpc' = [wpc EXCEPT ![w] = "ended"]
          /\ UNCHANGED status
    /\ UNCHANGED <<clock, history, tx, queued, stage, streamVars, viewVars>>

RecordStage(w) ==
    /\ wpc[w] = "executing" /\ stage[w] < Len(StageOrder)
    /\ BeginEvent(w, StageOrder[stage[w] + 1])
    /\ stage' = [stage EXCEPT ![w] = @ + 1]
    /\ UNCHANGED <<history, queued, message, wpc, status, streamVars, viewVars,
                   faults>>

\* The outcome is in the job record before its run event is.
FinishJob(w) ==
    /\ wpc[w] = "executing" /\ tx[w] = NoTx
    /\ \E o \in Terminal :
         /\ o = "completed" => stage[w] = Len(StageOrder)
         /\ o = "denied" => stage[w] = 2
         /\ status' = o
         /\ wpc' = [wpc EXCEPT ![w] = o]
    /\ UNCHANGED <<clock, history, tx, queued, message, stage, streamVars,
                   viewVars, faults>>

\* The scan for the experiment raises, or the write of the outcome does, which
\* the worker swallows too.
Raise(w) ==
    /\ wpc[w] = "executing" /\ tx[w] = NoTx
    /\ Spend("raise")
    /\ wpc' = [wpc EXCEPT ![w] = "ended"]
    /\ UNCHANGED <<clock, history, tx, queued, message, stage, status,
                   streamVars, viewVars>>

RecordFinal(w) ==
    /\ wpc[w] \in Terminal
    /\ BeginEvent(w, wpc[w])
    /\ wpc' = [wpc EXCEPT ![w] = "ended"]
    /\ UNCHANGED <<history, queued, message, stage, status, streamVars,
                   viewVars, faults>>

\* basic_ack, after everything else.  On a dropped connection it raises, and
\* the worker is started anew.
Acknowledge(w) ==
    /\ wpc[w] = "ended" /\ tx[w] = NoTx
    /\ wpc' = [wpc EXCEPT ![w] = "waiting"]
    /\ stage' = [stage EXCEPT ![w] = 0]
    /\ message' = IF message = w THEN "acked" ELSE message
    /\ UNCHANGED <<clock, history, tx, queued, status, streamVars, viewVars,
                   faults>>

\* The worker dies before it has acknowledged; the broker takes the message
\* back, if it has not done so already.
Die(w) ==
    /\ wpc[w] # "waiting"
    /\ Spend("death")
    /\ wpc' = [wpc EXCEPT ![w] = "waiting"]
    /\ stage' = [stage EXCEPT ![w] = 0]
    /\ tx' = [tx EXCEPT ![w] = NoTx]
    /\ message' = IF message = w THEN "queued" ELSE message
    /\ UNCHANGED <<clock, history, queued, status, streamVars, viewVars>>

\* The broker drops the connection of a worker that does not service it while
\* it processes the job, and takes the message back; the worker goes on.
LoseConnection(w) ==
    /\ message = w
    /\ Spend("disconnect")
    /\ message' = "queued"
    /\ UNCHANGED <<clock, history, tx, queued, wpc, stage, status, streamVars,
                   viewVars>>
-----------------------------------------------------------------------------
(***************************************************************************)
(* stream_job_events and the browser at its other end.                     *)
(***************************************************************************)

\* The position of e in list_events, which orders by occurred_at.
Position(e) == Cardinality({f \in history : f.at <= e.at})

\* Mutant: the slice starts one event late.
Mut_Unsent == {e \in history : Position(e) > seen + 1}

\* events[seen:].
Unsent == {e \in history : Position(e) > seen}

\* Every unsent event is sent; the view drops the ones it has shown, by type
\* and time.
ListEvents ==
    /\ spc = "listing"
    /\ events' = history
    /\ shown' = shown \cup Unsent
    /\ seen' = Cardinality(history)
    /\ spc' = "checking"
    /\ UNCHANGED <<writerVars, polls, payload, job, faults>>

\* Mutant: elapsed is never advanced.
Mut_CheckStatus ==
    /\ spc = "checking"
    /\ payload' = IF status \in Terminal THEN status ELSE payload
    /\ spc' = IF status \in Terminal THEN "terminal" ELSE "listing"
    /\ UNCHANGED <<writerVars, events, seen, polls, viewVars, faults>>

\* Mutant: a job that is not queued any more is taken for finished.
Mut_CheckStatusRunning ==
    /\ spc = "checking"
    /\ payload' = status
    /\ polls' = polls + 1
    /\ spc' = CASE status # "queued"     -> "terminal"
                [] polls + 1 >= MaxPolls -> "timeout"
                [] OTHER                 -> "listing"
    /\ UNCHANGED <<writerVars, events, seen, viewVars, faults>>

\* job_terminal ends the stream, a poll interval passes, or time is up.
CheckStatus ==
    /\ spc = "checking"
    /\ payload' = IF status \in Terminal THEN status ELSE payload
    /\ polls' = polls + 1
    /\ spc' = CASE status \in Terminal   -> "terminal"
                [] polls + 1 >= MaxPolls -> "timeout"
                [] OTHER                 -> "listing"
    /\ UNCHANGED <<writerVars, events, seen, viewVars, faults>>

\* The view closes the stream and fetches the job record once; when that
\* fails it shows the status the message carried.
FetchJob ==
    /\ spc = "terminal"
    /\ job' \in {status, payload}
    /\ spc' = "closed"
    /\ UNCHANGED <<writerVars, events, seen, polls, payload, shown, faults>>

\* The stream breaks: EventSource opens a new one, which starts over.
Reconnect ==
    /\ spc \in {"listing", "checking"}
    /\ Spend("drop")
    /\ events' = {}
    /\ seen' = 0
    /\ polls' = 0
    /\ spc' = "listing"
    /\ UNCHANGED <<writerVars, payload, viewVars>>
-----------------------------------------------------------------------------
Record(p) ==
    \/ FindRow(p)
    \/ CommitEvent(p)
    \/ LoseEvent(p)

Process(w) ==
    \/ StartJob(w)
    \/ RecordStage(w)
    \/ FinishJob(w)
    \/ Raise(w)
    \/ RecordFinal(w)
    \/ Acknowledge(w)
    \/ Die(w)
    \/ LoseConnection(w)

Stream ==
    \/ ListEvents
    \/ CheckStatus
    \/ FetchJob

Next ==
    \/ RecordQueued
    \/ \E p \in Processes : Record(p)
    \/ \E w \in Workers : Process(w)
    \/ Stream
    \/ Reconnect

Spec == Init /\ [][Next]_vars

\* The stream's coroutine is scheduled; nothing is assumed of the writers.
FairSpec == Spec /\ WF_vars(Stream)
-----------------------------------------------------------------------------
(***************************************************************************)
(* Properties.                                                             *)
(***************************************************************************)

\* Counting the events sent so far is nearly good enough (events[seen:]).  Of
\* the events a poll has listed, one has never been sent only if another
\* process has stamped a later one before the process stamped its next; and
\* that is one event at most, although the API and the worker both record and
\* the stream may be reopened, until a connection is dropped and two workers
\* record side by side.
FewAreMissed ==
    spc # "listing" =>
        /\ \A e \in events \ shown : \E f \in events :
             /\ f.by # e.by /\ e.at < f.at
             /\ \A g \in events : g.by = e.by /\ e.at < g.at => f.at < g.at
        /\ faults["disconnect"] = 0 => Cardinality(events \ shown) <= 1

\* The message is delivered once.
Once == faults["death"] = 0 /\ faults["disconnect"] = 0

\* A view whose stream has ended with job_terminal shows the outcome of the
\* job, and shows it for good, unless the message came back to the queue: a
\* second delivery records running over whatever the first recorded.
ClosedViewIsFinal ==
    spc = "closed" /\ Once => job = status /\ job \in Terminal

\* A stream ends, whatever the job does: with the outcome or by time.
StreamEnds == <>(spc \in {"terminal", "timeout", "closed"})
-----------------------------------------------------------------------------
(***************************************************************************)
(* The inductive invariants that JobEventStreamProofs proves.              *)
(***************************************************************************)

TypeOK ==
    /\ clock \in Nat
    /\ history \subseteq Events /\ IsFiniteSet(history)
    /\ tx \in [Processes ->
                 [type : EventTypes, at : Nat,
                  row : {"unknown", "missing", "found"}] \cup {NoTx}]
    /\ queued \in BOOLEAN
    /\ message \in Workers \cup {"queued", "acked"}
    /\ wpc \in [Workers -> {"waiting", "executing", "ended"} \cup Terminal]
    /\ stage \in [Workers -> 0..6]
    /\ status \in {"queued", "running"} \cup Terminal
    /\ events \subseteq Events /\ shown \subseteq Events
    /\ seen \in Nat /\ polls \in Nat
    /\ payload \in {"queued", "running"} \cup Terminal
    /\ spc \in {"listing", "checking", "terminal", "timeout", "closed"}
    /\ job \in {"queued", "running"} \cup Terminal
    /\ faults \in [FaultKinds -> Nat]

\* No connection has been dropped: one worker at a time has the job.
NoOverlap == faults["disconnect"] = 0

\* Without overlap only the worker that has to acknowledge works.
OwnerInv ==
    /\ \A w \in Workers : tx[w] # NoTx => wpc[w] # "waiting"
    /\ NoOverlap => \A w \in Workers : wpc[w] # "waiting" => message = w

\* The stream ends on an outcome, and until the message comes back nothing
\* follows one.
FinalInv ==
    Once =>
        /\ status \in Terminal =>
             \/ message = "acked"
             \/ /\ message \in Workers
                /\ wpc[message] \in Terminal \cup {"ended"}
        /\ spc \in {"terminal", "closed"} =>
             payload = status /\ status \in Terminal
        /\ spc = "closed" => job = status

\* Stamps are unique, a process commits in the order of its stamps, and the
\* API records one event.
StampInv ==
    /\ \A e, f \in history : e.at = f.at => e = f
    /\ \A e \in history : e.at < clock
    /\ \A p \in Processes : tx[p] # NoTx =>
         /\ tx[p].at < clock
         /\ \A e \in history : /\ e.at # tx[p].at
                               /\ e.by = p => e.at < tx[p].at
    /\ \A p, q \in Processes :
         p # q /\ tx[p] # NoTx /\ tx[q] # NoTx => tx[p].at # tx[q].at
    /\ \A e, f \in history : e.by = "api" /\ f.by = "api" => e = f
    /\ queued => tx["api"] = NoTx
    /\ queued \/ tx["api"] # NoTx => \A e \in history : e.by # "api"
    /\ NoOverlap => \A w \in Workers : tx[w] # NoTx =>
         \A e \in history : e.by # "api" => e.at < tx[w].at

\* What a process has committed since the last listing is newer than what it
\* found of the process; when it is older than a listed one, the next is not.
ListInv ==
    /\ events \subseteq history /\ seen = Cardinality(events)
    /\ \A e \in history \ events, f \in events :
         /\ e.by = f.by => f.at < e.at
         /\ e.at < f.at =>
              /\ \A g \in history : g.by = e.by /\ e.at < g.at => f.at < g.at
              /\ tx[e.by] # NoTx => f.at < tx[e.by].at

\* Without overlap only one event of a worker may be older than the API's.
SingleInv ==
    NoOverlap =>
        /\ \A e \in history \ events, f \in events :
             e.by # "api" /\ f.by # "api" => f.at < e.at
        /\ \A q \in events : q.by = "api" =>
             /\ \A w \in Workers :
                  tx[w] # NoTx /\ tx[w].at < q.at => history = events
             /\ \A e, f \in history \ events :
                  e.at < q.at /\ f.at < q.at => e = f

\* A missed event is behind one of another process.
MissedInv ==
    \A e \in events \ shown : \E f \in events :
        /\ f.by # e.by /\ e.at < f.at
        /\ \A g \in history : g.by = e.by /\ e.at < g.at => f.at < g.at
        /\ tx[e.by] # NoTx => f.at < tx[e.by].at

\* Without overlap there is one; when it is one of a worker's, no other will
\* be stamped before that of the API.
OneInv ==
    NoOverlap =>
        /\ \A e, f \in events \ shown : e = f
        /\ \A e \in events \ shown : \E f \in events :
             /\ f.at > e.at
             /\ e.by # "api" =>
                  /\ f.by = "api"
                  /\ \A w \in Workers : tx[w] # NoTx => f.at < tx[w].at
                  /\ \A g \in history \ events : f.at < g.at
=============================================================================
