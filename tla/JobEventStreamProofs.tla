------------------------- MODULE JobEventStreamProofs -------------------------
(***************************************************************************)
(* Proofs about JobEventStream, for any set of workers, every bound on the *)
(* polls and every budget of deaths, dropped connections, failures and     *)
(* events.                                                                 *)
(***************************************************************************)
EXTENDS JobEventStream, FiniteSetTheorems, TLAPS

Rows == {"unknown", "missing", "found"}
Txs == [type : EventTypes, at : Nat, row : Rows] \cup {NoTx}

-----------------------------------------------------------------------------
(***************************************************************************)
(* Recording an event.                                                     *)
(***************************************************************************)

LEMMA StagesAreTypes ==
    /\ Len(StageOrder) = 6
    /\ \A i \in 1..6 : StageOrder[i] \in EventTypes
    /\ Terminal \subseteq EventTypes /\ "queued" \in EventTypes
    /\ "none" \notin EventTypes
<1>1. /\ StageOrder[1] = "preparing" /\ StageOrder[2] = "safety_check"
      /\ StageOrder[3] = "running_baseline"
      /\ StageOrder[4] = "running_mitigation"
      /\ StageOrder[5] = "analysing" /\ StageOrder[6] = "generating_evidence"
      /\ Len(StageOrder) = 6
  BY DEF StageOrder
<1>2. \A i \in 1..6 : i = 1 \/ i = 2 \/ i = 3 \/ i = 4 \/ i = 5 \/ i = 6
  OBVIOUS
<1> QED
  BY <1>1, <1>2 DEF EventTypes, Terminal

\* What a step does to the stamps: an event is stamped, a recording ends with
\* or without its event in the history, or neither.
Begins(p) ==
    /\ tx[p] = NoTx /\ tx'[p] # NoTx /\ tx'[p].at = clock
    /\ \A o \in Processes \ {p} : tx'[o] = tx[o]
    /\ clock' = clock + 1 /\ history' = history
    /\ IF p = "api" THEN queued /\ queued' = FALSE ELSE queued' = queued

Ends(p) ==
    /\ tx'[p] = NoTx
    /\ \A o \in Processes \ {p} : tx'[o] = tx[o]
    /\ clock' = clock /\ queued' = queued
    /\ \/ history' = history
       \/ /\ tx[p] # NoTx
          /\ \E e \in Events : /\ e.at = tx[p].at /\ e.by = p
                               /\ history' = history \cup {e}

Keeps ==
    /\ \A p \in Processes : /\ tx'[p] = NoTx <=> tx[p] = NoTx
                            /\ tx[p] # NoTx => tx'[p].at = tx[p].at
    /\ clock' = clock /\ history' = history /\ queued' = queued

LEMMA TxTypes ==
    ASSUME TypeOK
    PROVE  /\ tx \in [Processes -> Txs]
           /\ clock \in Nat
           /\ \A e \in history : e.at \in Nat /\ e.by \in Processes
           /\ \A p \in Processes : tx[p] # NoTx =>
                /\ tx[p].at \in Nat /\ tx[p].type \in EventTypes
                /\ tx[p].row \in Rows
  BY DEF TypeOK, Txs, Rows, Events

LEMMA BeginTx ==
    ASSUME TypeOK, NEW p \in Processes, NEW type \in EventTypes,
           BeginEvent(p, type)
    PROVE  /\ tx' \in [Processes -> Txs] /\ clock' = clock + 1
           /\ tx[p] = NoTx /\ tx'[p] # NoTx /\ tx'[p].at = clock
           /\ \A o \in Processes \ {p} : tx'[o] = tx[o]
<1> DEFINE new == [type |-> type, at |-> clock, row |-> "unknown"]
<1>1. new \in Txs /\ new.type = type /\ new.at = clock
  BY TxTypes DEF Txs, Rows
<1>2. new # NoTx
  BY <1>1, StagesAreTypes DEF NoTx
<1>3. tx' = [tx EXCEPT ![p] = new] /\ tx[p] = NoTx /\ clock' = clock + 1
  BY DEF BeginEvent
<1> HIDE DEF new
<1> QED
  BY <1>1, <1>2, <1>3, TxTypes

LEMMA FindTx ==
    ASSUME TypeOK, NEW p \in Processes, FindRow(p)
    PROVE  tx' \in [Processes -> Txs] /\ Keeps
<1> DEFINE new == [tx[p] EXCEPT !.row = IF history = {} THEN "missing"
                                        ELSE "found"]
<1>1. tx[p] # NoTx /\ tx' = [tx EXCEPT ![p] = new]
  BY DEF FindRow
<1>2. tx[p] \in [type : EventTypes, at : Nat, row : Rows]
  BY <1>1, TxTypes DEF Txs
<1>3. /\ new \in [type : EventTypes, at : Nat, row : Rows]
      /\ new.at = tx[p].at /\ new.type \in EventTypes
  BY <1>2 DEF Rows
<1>4. new # NoTx
  BY <1>3, StagesAreTypes DEF NoTx
<1> HIDE DEF new
<1>5. tx' \in [Processes -> Txs]
  BY <1>1, <1>3, TxTypes DEF Txs
<1>6. tx'[p] = new /\ \A o \in Processes \ {p} : tx'[o] = tx[o]
  BY <1>1, TxTypes
<1>7. clock' = clock /\ history' = history /\ queued' = queued
  BY DEF FindRow
<1> QED
  BY <1>1, <1>3, <1>4, <1>5, <1>6, <1>7 DEF Keeps

LEMMA CommitTx ==
    ASSUME TypeOK, NEW p \in Processes, CommitEvent(p)
    PROVE  tx' \in [Processes -> Txs] /\ Ends(p)
<1>1. tx[p] # NoTx /\ tx' = [tx EXCEPT ![p] = NoTx]
  BY DEF CommitEvent, NoTx
<1> DEFINE e == [type |-> tx[p].type, at |-> tx[p].at, by |-> p]
<1>2. e \in Events /\ e.at = tx[p].at /\ e.by = p
  BY <1>1, TxTypes DEF Events
<1>3. history' = history \/ history' = history \cup {e}
  BY DEF CommitEvent
<1>4. clock' = clock /\ queued' = queued
  BY DEF CommitEvent
<1> HIDE DEF e
<1> QED
  BY <1>1, <1>2, <1>3, <1>4, TxTypes DEF Ends, Txs

LEMMA ForgetTx ==
    ASSUME TypeOK, NEW p \in Processes, tx' = [tx EXCEPT ![p] = NoTx],
           UNCHANGED <<clock, history, queued>>
    PROVE  tx' \in [Processes -> Txs] /\ Ends(p)
  BY TxTypes DEF Ends, Txs

LEMMA StampCases ==
    ASSUME TypeOK, [Next]_vars
    PROVE  /\ tx' \in [Processes -> Txs]
           /\ \/ \E p \in Processes : Begins(p)
              \/ \E p \in Processes : Ends(p)
              \/ Keeps
<1>1. CASE RecordQueued
  <2>1. "api" \in Processes /\ BeginEvent("api", "queued")
    BY <1>1 DEF RecordQueued, Processes
  <2> QED
    BY <1>1, <2>1, BeginTx, StagesAreTypes DEF RecordQueued, Begins
<1>2. CASE \E p \in Processes : Record(p)
  <2>1. ASSUME NEW p \in Processes, LoseEvent(p)
        PROVE  tx' \in [Processes -> Txs] /\ Ends(p)
    BY <2>1, ForgetTx DEF LoseEvent
  <2> QED
    BY <1>2, <2>1, FindTx, CommitTx DEF Record
<1>3. ASSUME NEW w \in Workers, Process(w)
      PROVE  /\ tx' \in [Processes -> Txs]
             /\ Begins(w) \/ Ends(w) \/ Keeps
  <2>1. w \in Processes /\ w # "api"
    BY StreamAssumption DEF Processes
  <2>2. CASE RecordStage(w)
    <3>1. stage[w] + 1 \in 1..6
      BY <2>2, StagesAreTypes DEF RecordStage, TypeOK
    <3> QED
      BY <2>1, <2>2, <3>1, BeginTx, StagesAreTypes DEF RecordStage, Begins
  <2>3. CASE RecordFinal(w)
    BY <2>1, <2>3, BeginTx, StagesAreTypes DEF RecordFinal, Begins
  <2>4. CASE Die(w)
    BY <2>1, <2>4, ForgetTx DEF Die
  <2>5. CASE UNCHANGED <<clock, history, tx, queued>>
    BY <2>5, TxTypes DEF Keeps
  <2> QED
    BY <1>3, <2>2, <2>3, <2>4, <2>5
       DEF Process, StartJob, FinishJob, Raise, Acknowledge, LoseConnection
<1>4. CASE Stream \/ Reconnect \/ UNCHANGED vars
  <2>1. UNCHANGED <<clock, history, tx, queued>>
    BY <1>4 DEF Stream, ListEvents, CheckStatus, FetchJob, Reconnect,
                writerVars, vars
  <2> QED
    BY <2>1, TxTypes DEF Keeps
<1> QED
  BY <1>1, <1>2, <1>3, <1>4 DEF Next, Processes

-----------------------------------------------------------------------------
(***************************************************************************)
(* Faults and types.                                                       *)
(***************************************************************************)

\* Faults are counted, and not forgotten.
LEMMA SpendCounts ==
    ASSUME TypeOK, NEW k \in FaultKinds, Spend(k)
    PROVE  /\ faults' \in [FaultKinds -> Nat] /\ faults'[k] # 0
           /\ \A i \in FaultKinds : faults'[i] = 0 => faults[i] = 0
  BY DEF TypeOK, Spend

LEMMA FaultsGrow ==
    ASSUME TypeOK, [Next]_vars
    PROVE  /\ faults' \in [FaultKinds -> Nat]
           /\ \A i \in FaultKinds : faults'[i] = 0 => faults[i] = 0
<1>1. CASE \E k \in FaultKinds : Spend(k)
  BY <1>1, SpendCounts
<1>2. CASE UNCHANGED faults
  BY <1>2 DEF TypeOK
<1> QED
  BY <1>1, <1>2
     DEF Next, Record, Process, Stream, RecordQueued, FindRow, CommitEvent,
         LoseEvent, StartJob, RecordStage, FinishJob, Raise, RecordFinal,
         Acknowledge, Die, LoseConnection, ListEvents, CheckStatus, FetchJob,
         Reconnect, vars, FaultKinds

LEMMA OverlapStays ==
    ASSUME TypeOK, [Next]_vars
    PROVE  (NoOverlap' => NoOverlap) /\ (Once' => Once /\ NoOverlap)
  BY FaultsGrow DEF NoOverlap, Once, FaultKinds

LEMMA ProcessType ==
    ASSUME TypeOK, NEW w \in Workers, Process(w)
    PROVE  /\ message' \in Workers \cup {"queued", "acked"}
           /\ wpc' \in [Workers -> {"waiting", "executing", "ended"}
                                    \cup Terminal]
           /\ stage' \in [Workers -> 0..6]
           /\ status' \in {"queued", "running"} \cup Terminal
           /\ UNCHANGED <<streamVars, viewVars>>
<1>1. CASE RecordStage(w)
  <2>1. stage[w] + 1 \in 0..6
    BY <1>1, StagesAreTypes DEF RecordStage, TypeOK
  <2> QED
    BY <1>1, <2>1 DEF RecordStage, TypeOK
<1>2. CASE FinishJob(w)
  BY <1>2 DEF FinishJob, TypeOK
<1>3. CASE StartJob(w) \/ Raise(w) \/ RecordFinal(w)
  BY <1>3 DEF StartJob, Raise, RecordFinal, TypeOK
<1>4. CASE Acknowledge(w) \/ Die(w) \/ LoseConnection(w)
  BY <1>4 DEF Acknowledge, Die, LoseConnection, TypeOK
<1> QED
  BY <1>1, <1>2, <1>3, <1>4 DEF Process

\* A position counts events of the history.
LEMMA UnsentType ==
    ASSUME TypeOK
    PROVE  Unsent \subseteq history
  BY DEF Unsent

\* Only a process of the job changes its record, only the stream its view.
LEMMA RestCases ==
    ASSUME [Next]_vars
    PROVE  /\ (\E w \in Workers : Process(w)) \/ UNCHANGED workerVars
           /\ \/ Stream \/ Reconnect
              \/ UNCHANGED <<streamVars, viewVars>>
  BY DEF Next, Record, Process, Stream, RecordQueued, FindRow, CommitEvent,
         LoseEvent, StartJob, RecordStage, FinishJob, Raise, RecordFinal,
         Acknowledge, Die, LoseConnection, ListEvents, CheckStatus, FetchJob,
         Reconnect, vars, writerVars, viewVars

LEMMA TypeStep ==
    ASSUME TypeOK, [Next]_vars
    PROVE  TypeOK'
<1>1. tx' \in [Processes -> Txs]
  BY StampCases
<1>2. clock' \in Nat /\ queued' \in BOOLEAN
      /\ history' \subseteq Events /\ IsFiniteSet(history')
  <2>1. ASSUME NEW p \in Processes, Begins(p)
        PROVE  clock' \in Nat /\ queued' \in BOOLEAN /\ history' = history
    <3>1. clock' \in Nat /\ history' = history
      BY <2>1, TxTypes DEF Begins
    <3>2. queued' = FALSE \/ queued' = queued
      BY <2>1 DEF Begins
    <3>3. queued \in BOOLEAN
      BY DEF TypeOK
    <3> QED
      BY <3>1, <3>2, <3>3
  <2>2. ASSUME NEW p \in Processes, Ends(p)
        PROVE  /\ clock' = clock /\ queued' = queued
               /\ history' \subseteq Events /\ IsFiniteSet(history')
    BY <2>2, FS_AddElement DEF Ends, TypeOK
  <2>3. CASE Keeps
    BY <2>3 DEF Keeps, TypeOK
  <2> QED
    BY <2>1, <2>2, <2>3, StampCases DEF TypeOK
<1>3. /\ message' \in Workers \cup {"queued", "acked"}
      /\ wpc' \in [Workers -> {"waiting", "executing", "ended"} \cup Terminal]
      /\ stage' \in [Workers -> 0..6]
      /\ status' \in {"queued", "running"} \cup Terminal
  <2>1. CASE UNCHANGED workerVars
    BY <2>1 DEF workerVars, TypeOK
  <2> QED
    BY <2>1, RestCases, ProcessType
<1>4. /\ events' \subseteq Events /\ shown' \subseteq Events
      /\ seen' \in Nat /\ polls' \in Nat
      /\ payload' \in {"queued", "running"} \cup Terminal
      /\ spc' \in {"listing", "checking", "terminal", "timeout", "closed"}
      /\ job' \in {"queued", "running"} \cup Terminal
  <2>1. CASE ListEvents
    <3>1. Cardinality(history) \in Nat
      BY FS_CardinalityType DEF TypeOK
    <3> QED
      BY <2>1, <3>1, UnsentType DEF ListEvents, TypeOK
  <2>2. CASE CheckStatus \/ FetchJob \/ Reconnect
    BY <2>2 DEF CheckStatus, FetchJob, Reconnect, TypeOK, writerVars, viewVars
  <2>3. CASE UNCHANGED <<streamVars, viewVars>>
    BY <2>3 DEF streamVars, viewVars, TypeOK
  <2> QED
    BY <2>1, <2>2, <2>3, RestCases DEF Stream
<1> QED
  BY <1>1, <1>2, <1>3, <1>4, FaultsGrow DEF TypeOK, Txs, Rows

-----------------------------------------------------------------------------
(***************************************************************************)
(* Who has the job, and the outcome.                                       *)
(***************************************************************************)

LEMMA OwnerStep ==
    ASSUME TypeOK, OwnerInv, [Next]_vars
    PROVE  OwnerInv'
<1>0. \A w \in Workers : w \in Processes /\ w # "api"
  BY StreamAssumption DEF Processes
<1>1. ASSUME NEW v \in Workers, Process(v)
      PROVE  OwnerInv'
  <2>1. \A w \in Workers \ {v} : tx'[w] = tx[w] /\ wpc'[w] = wpc[w]
    BY <1>0, <1>1
       DEF TypeOK, Process, StartJob, RecordStage, FinishJob, Raise,
           RecordFinal, Acknowledge, Die, LoseConnection, BeginEvent
  <2>2. tx'[v] # NoTx => wpc'[v] # "waiting"
    BY <1>0, <1>1
       DEF TypeOK, Process, StartJob, RecordStage, FinishJob, Raise,
           RecordFinal, Acknowledge, Die, LoseConnection, BeginEvent, OwnerInv,
           Terminal
  <2>3. ASSUME NoOverlap', NEW w \in Workers, wpc'[w] # "waiting"
        PROVE  message' = w
    <3>1. NoOverlap /\ ~LoseConnection(v)
      BY <2>3, OverlapStays, <1>1, SpendCounts
         DEF Next, NoOverlap, LoseConnection, FaultKinds
    <3>2. \A x \in Workers : wpc[x] # "waiting" => message = x
      BY <3>1 DEF OwnerInv
    <3>3. CASE w = v
      BY <1>1, <2>3, <3>1, <3>2, <3>3
         DEF TypeOK, Process, StartJob, RecordStage, FinishJob, Raise,
             RecordFinal, Acknowledge, Die, Terminal
    <3>4. CASE w # v
      <4>1. message = w
        BY <2>1, <2>3, <3>2, <3>4
      <4> QED
        BY <1>1, <3>1, <3>2, <3>4, <4>1, StreamAssumption
           DEF TypeOK, Process, StartJob, RecordStage, FinishJob, Raise,
               RecordFinal, Acknowledge, Die
    <3> QED
      BY <3>3, <3>4
  <2> QED
    BY <2>1, <2>2, <2>3 DEF OwnerInv
<1>2. CASE UNCHANGED workerVars /\ ~\E v \in Workers : Process(v)
  <2>1. \A w \in Workers : tx'[w] # NoTx => tx[w] # NoTx
    <3>1. ASSUME NEW p \in Processes, Record(p)
          PROVE  \A w \in Workers : tx'[w] # NoTx => tx[w] # NoTx
      BY <1>0, <3>1, TxTypes
         DEF Record, FindRow, CommitEvent, LoseEvent, TypeOK
    <3>2. CASE RecordQueued
      BY <1>0, <3>2 DEF RecordQueued, BeginEvent, TypeOK
    <3>3. CASE Stream \/ Reconnect \/ UNCHANGED vars
      BY <3>3 DEF Stream, ListEvents, CheckStatus, FetchJob, Reconnect,
                  writerVars, vars
    <3> QED
      BY <1>2, <3>1, <3>2, <3>3 DEF Next
  <2> QED
    BY <1>2, <2>1, OverlapStays DEF OwnerInv, workerVars
<1> QED
  BY <1>1, <1>2, RestCases

\* Without overlap, one worker at a time records an event.
LEMMA OneRecorder ==
    ASSUME OwnerInv, NoOverlap, NEW v \in Workers, NEW w \in Workers,
           tx[v] # NoTx, tx[w] # NoTx
    PROVE  v = w
  BY DEF OwnerInv

LEMMA FinalStep ==
    ASSUME TypeOK, OwnerInv, FinalInv, [Next]_vars
    PROVE  FinalInv'
<1> SUFFICES ASSUME Once'
             PROVE  FinalInv'
  BY DEF FinalInv
<1>0. Once /\ \A w \in Workers : wpc[w] # "waiting" => message = w
  BY OverlapStays DEF OwnerInv
<1>a. "executing" \notin Terminal \cup {"ended"} /\ "running" \notin Terminal
      /\ "waiting" \notin Terminal
      /\ "queued" \notin Terminal /\ "queued" \notin Workers
      /\ "acked" \notin Workers
  BY StreamAssumption DEF Terminal
<1>1. ASSUME NEW w \in Workers, Process(w)
      PROVE  FinalInv'
  <2>0. UNCHANGED <<payload, spc, job>>
    BY <1>1, ProcessType DEF streamVars, viewVars
  <2>1. CASE StartJob(w)
    <3>1. status \notin Terminal
      BY <1>0, <1>a, <2>1 DEF StartJob, FinalInv
    <3> QED
      BY <1>0, <1>a, <2>0, <2>1, <3>1 DEF StartJob, FinalInv
  <2>2. CASE FinishJob(w) \/ Raise(w)
    <3>1. message = w /\ wpc[w] = "executing"
      BY <1>0, <2>2 DEF FinishJob, Raise
    <3>2. status \notin Terminal
      BY <1>0, <1>a, <3>1 DEF FinalInv
    <3>3. message' = w /\ wpc'[w] \in Terminal \cup {"ended"}
      BY <2>2, <3>1 DEF FinishJob, Raise, TypeOK
    <3> QED
      BY <1>0, <2>0, <3>2, <3>3 DEF FinalInv
  <2>3. CASE RecordStage(w)
    BY <1>0, <2>0, <2>3 DEF RecordStage, FinalInv
  <2>4. CASE RecordFinal(w)
    <3>1. message' = message /\ status' = status
          /\ wpc' = [wpc EXCEPT ![w] = "ended"]
      BY <2>4 DEF RecordFinal
    <3> QED
      BY <1>0, <2>0, <3>1 DEF FinalInv, TypeOK
  <2>5. CASE Acknowledge(w)
    <3>1. message' = "acked" /\ status' = status
      BY <1>0, <2>5 DEF Acknowledge
    <3> QED
      BY <1>0, <2>0, <3>1 DEF FinalInv
  <2>6. CASE Die(w) \/ LoseConnection(w)
    BY <2>6, SpendCounts DEF Die, LoseConnection, Once, FaultKinds
  <2> QED
    BY <1>1, <2>1, <2>2, <2>3, <2>4, <2>5, <2>6 DEF Process
<1>2. CASE UNCHANGED workerVars
  <2>1. CASE CheckStatus
    BY <1>0, <1>2, <2>1 DEF CheckStatus, FinalInv, workerVars, viewVars
  <2>2. CASE FetchJob
    BY <1>0, <1>2, <2>2 DEF FetchJob, FinalInv, workerVars
  <2>3. CASE ListEvents \/ Reconnect
    BY <1>0, <1>2, <2>3
       DEF ListEvents, Reconnect, FinalInv, workerVars, viewVars
  <2>4. CASE UNCHANGED <<streamVars, viewVars>>
    BY <1>0, <1>2, <2>4 DEF FinalInv, workerVars, streamVars, viewVars
  <2> QED
    BY <2>1, <2>2, <2>3, <2>4, RestCases DEF Stream
<1> QED
  BY <1>1, <1>2, RestCases

-----------------------------------------------------------------------------
(***************************************************************************)
(* Stamps.                                                                 *)
(***************************************************************************)

LEMMA StampStep ==
    ASSUME TypeOK, OwnerInv, StampInv, [Next]_vars
    PROVE  StampInv'
<1> USE TxTypes
<1>0. "api" \in Processes /\ "api" \notin Workers /\ Workers \subseteq Processes
  BY StreamAssumption DEF Processes
<1>1. ASSUME NEW p \in Processes, Begins(p)
      PROVE  StampInv'
  <2>1. /\ \A e, f \in history' : e.at = f.at => e = f
        /\ \A e \in history' : e.at < clock'
        /\ \A o \in Processes : tx'[o] # NoTx =>
             /\ tx'[o].at < clock'
             /\ \A e \in history' : /\ e.at # tx'[o].at
                                    /\ e.by = o => e.at < tx'[o].at
        /\ \A o, q \in Processes :
             o # q /\ tx'[o] # NoTx /\ tx'[q] # NoTx => tx'[o].at # tx'[q].at
    BY <1>1 DEF StampInv, Begins
  <2>2. /\ \A e, f \in history' : e.by = "api" /\ f.by = "api" => e = f
        /\ queued' => tx'["api"] = NoTx
        /\ queued' \/ tx'["api"] # NoTx => \A e \in history' : e.by # "api"
    BY <1>0, <1>1 DEF StampInv, Begins
  <2>3. NoOverlap' => \A w \in Workers : tx'[w] # NoTx =>
          \A e \in history' : e.by # "api" => e.at < tx'[w].at
    BY <1>0, <1>1, OverlapStays DEF StampInv, Begins
  <2> QED
    BY <2>1, <2>2, <2>3 DEF StampInv
<1>2. ASSUME NEW p \in Processes, Ends(p), history' = history
      PROVE  StampInv'
  BY <1>0, <1>2, OverlapStays DEF StampInv, Ends
<1>3. ASSUME NEW p \in Processes, Ends(p), tx[p] # NoTx, NEW e \in Events,
             e.at = tx[p].at, e.by = p, history' = history \cup {e}
      PROVE  StampInv'
  <2>1. /\ tx'[p] = NoTx /\ clock' = clock /\ queued' = queued
        /\ \A o \in Processes \ {p} : tx'[o] = tx[o]
    BY <1>3 DEF Ends
  <2>2. /\ \A d, f \in history' : d.at = f.at => d = f
        /\ \A d \in history' : d.at < clock'
        /\ \A o \in Processes : tx'[o] # NoTx =>
             /\ tx'[o].at < clock'
             /\ \A d \in history' : /\ d.at # tx'[o].at
                                    /\ d.by = o => d.at < tx'[o].at
        /\ \A o, q \in Processes :
             o # q /\ tx'[o] # NoTx /\ tx'[q] # NoTx => tx'[o].at # tx'[q].at
    BY <1>3, <2>1 DEF StampInv
  <2>3. /\ \A d, f \in history' : d.by = "api" /\ f.by = "api" => d = f
        /\ queued' => tx'["api"] = NoTx
        /\ queued' \/ tx'["api"] # NoTx => \A d \in history' : d.by # "api"
    BY <1>0, <1>3, <2>1 DEF StampInv
  <2>4. ASSUME NoOverlap', NEW w \in Workers, tx'[w] # NoTx,
               NEW d \in history', d.by # "api"
        PROVE  d.at < tx'[w].at
    <3>1. w # p /\ tx'[w] = tx[w] /\ NoOverlap
      BY <1>0, <2>1, <2>4, OverlapStays
    <3>2. CASE d = e
      BY <1>0, <1>3, <2>4, <3>1, <3>2, OneRecorder DEF Processes
    <3>3. CASE d # e
      BY <1>3, <2>4, <3>1, <3>3 DEF StampInv
    <3> QED
      BY <3>2, <3>3
  <2> QED
    BY <2>2, <2>3, <2>4 DEF StampInv
<1>4. CASE Keeps
  BY <1>0, <1>4, OverlapStays DEF Keeps, StampInv
<1> QED
  BY <1>1, <1>2, <1>3, <1>4, StampCases DEF Ends

-----------------------------------------------------------------------------
(***************************************************************************)
(* What the stream lists.                                                  *)
(***************************************************************************)

\* Only the stream changes what it has listed.
Polls == ListEvents \/ Reconnect

Idles == UNCHANGED <<events, seen, shown>>

LEMMA PollCases ==
    ASSUME [Next]_vars
    PROVE  Polls \/ Idles
  BY RestCases
     DEF Polls, Idles, Stream, CheckStatus, FetchJob, streamVars, viewVars

LEMMA ListStep ==
    ASSUME TypeOK, StampInv, ListInv, [Next]_vars
    PROVE  ListInv'
<1> USE TxTypes
<1>1. CASE ListEvents
  BY <1>1 DEF ListEvents, ListInv, writerVars
<1>2. CASE Reconnect
  BY <1>2, FS_EmptySet DEF Reconnect, ListInv
<1>3. CASE Idles
  <2> USE <1>3 DEF Idles
  <2>1. ASSUME NEW p \in Processes, Begins(p)
        PROVE  ListInv'
    <3>1. \A f \in events : f.at < clock
      BY DEF StampInv, ListInv
    <3> QED
      BY <2>1, <3>1 DEF Begins, ListInv
  <2>2. ASSUME NEW p \in Processes, Ends(p), history' = history
        PROVE  ListInv'
    BY <2>2 DEF Ends, ListInv
  <2>3. ASSUME NEW p \in Processes, Ends(p), tx[p] # NoTx, NEW e \in Events,
               e.at = tx[p].at, e.by = p, history' = history \cup {e}
        PROVE  ListInv'
    <3>1. tx'[p] = NoTx /\ \A o \in Processes \ {p} : tx'[o] = tx[o]
      BY <2>3 DEF Ends
    <3>2. \A g \in history : g.by = p => g.at < e.at
      BY <2>3 DEF StampInv
    <3>3. events \subseteq history' /\ seen = Cardinality(events)
      BY <2>3 DEF ListInv
    <3>4. ASSUME NEW d \in history' \ events, NEW f \in events
          PROVE  /\ d.by = f.by => f.at < d.at
                 /\ d.at < f.at =>
                      /\ \A g \in history' :
                           g.by = d.by /\ d.at < g.at => f.at < g.at
                      /\ tx'[d.by] # NoTx => f.at < tx'[d.by].at
      <4>0. e.at \in Nat /\ f \in history /\ e.by \in Processes
            /\ d.by \in Processes
        BY <2>3, <3>4 DEF Events, ListInv
      <4>1. CASE d = e
        <5>1. \A g \in history' : ~(g.by = d.by /\ d.at < g.at)
          BY <2>3, <3>2, <4>0, <4>1
        <5>2. tx'[d.by] = NoTx
          BY <2>3, <3>1, <4>1
        <5> QED
          BY <2>3, <3>2, <4>0, <4>1, <5>1, <5>2
      <4>2. CASE d # e
        <5>1. d \in history \ events
          BY <2>3, <3>4, <4>2
        <5>2. /\ d.by = f.by => f.at < d.at
              /\ d.at < f.at =>
                   /\ \A g \in history : g.by = d.by /\ d.at < g.at => f.at < g.at
                   /\ tx[d.by] # NoTx => f.at < tx[d.by].at
          BY <5>1 DEF ListInv
        <5>3. d.at < f.at /\ e.by = d.by => f.at < e.at
          BY <2>3, <5>2
        <5> QED
          BY <2>3, <3>1, <4>0, <5>2, <5>3
      <4> QED
        BY <4>1, <4>2
    <3> QED
      BY <3>3, <3>4 DEF ListInv
  <2>4. CASE Keeps
    BY <2>4 DEF Keeps, ListInv
  <2> QED
    BY <2>1, <2>2, <2>3, <2>4, StampCases DEF Ends
<1> QED
  BY <1>1, <1>2, <1>3, PollCases DEF Polls

LEMMA SingleStep ==
    ASSUME TypeOK, OwnerInv, StampInv, ListInv, SingleInv, [Next]_vars
    PROVE  SingleInv'
<1> USE TxTypes
<1> SUFFICES ASSUME NoOverlap'
             PROVE  SingleInv'
  BY DEF SingleInv
<1>0. NoOverlap /\ "api" \in Processes /\ "api" \notin Workers
      /\ Workers \subseteq Processes
  BY OverlapStays, StreamAssumption DEF Processes
<1>1. CASE ListEvents
  BY <1>1 DEF ListEvents, SingleInv, writerVars
<1>2. CASE Reconnect
  BY <1>2 DEF Reconnect, SingleInv
<1>3. CASE Idles
  <2> USE <1>3 DEF Idles
  <2>1. ASSUME NEW p \in Processes, Begins(p)
        PROVE  SingleInv'
    <3>1. \A q \in events : ~(clock < q.at)
      BY DEF StampInv, ListInv
    <3> QED
      BY <1>0, <2>1, <3>1 DEF Begins, SingleInv
  <2>2. ASSUME NEW p \in Processes, Ends(p), history' = history
        PROVE  SingleInv'
    BY <1>0, <2>2 DEF Ends, SingleInv
  <2>3. ASSUME NEW p \in Processes, Ends(p), tx[p] # NoTx, NEW e \in Events,
               e.at = tx[p].at, e.by = p, history' = history \cup {e}
        PROVE  SingleInv'
    <3>0. tx'[p] = NoTx /\ \A o \in Processes \ {p} : tx'[o] = tx[o]
      BY <2>3 DEF Ends
    <3>1. CASE p = "api"
      <4>1. \A q \in events : q.by # "api"
        BY <2>3, <3>1 DEF StampInv, ListInv
      <4>2. \A d \in history' \ events, f \in events :
              d.by # "api" /\ f.by # "api" => f.at < d.at
        BY <1>0, <2>3, <3>1 DEF SingleInv
      <4> QED
        BY <4>1, <4>2 DEF SingleInv
    <3>2. CASE p # "api"
      <4>1. p \in Workers
        BY <3>2 DEF Processes
      <4>2. \A w \in Workers : tx'[w] = NoTx
        BY <1>0, <2>3, <3>0, <4>1, OneRecorder
      <4>3. \A d \in history' \ events, f \in events :
              d.by # "api" /\ f.by # "api" => f.at < d.at
        BY <1>0, <2>3, <4>1 DEF SingleInv, StampInv, ListInv
      <4>4. ASSUME NEW q \in events, q.by = "api"
            PROVE  \A d, f \in history' \ events :
                     d.at < q.at /\ f.at < q.at => d = f
        <5>1. e.at < q.at => history = events
          BY <1>0, <2>3, <4>1, <4>4 DEF SingleInv
        <5> QED
          BY <1>0, <2>3, <4>4, <5>1 DEF SingleInv
      <4> QED
        BY <4>2, <4>3, <4>4 DEF SingleInv
    <3> QED
      BY <3>1, <3>2
  <2>4. CASE Keeps
    BY <1>0, <2>4 DEF Keeps, SingleInv
  <2> QED
    BY <2>1, <2>2, <2>3, <2>4, StampCases DEF Ends
<1> QED
  BY <1>1, <1>2, <1>3, PollCases DEF Polls

\* An event that was committed since the last listing, and is skipped by this
\* one, is older than one of those listed: else it would be the last.
LEMMA SkippedIsBehind ==
    ASSUME TypeOK, ListInv, NEW e \in history, e \notin events, e \notin Unsent
    PROVE  \E f \in events : e.at < f.at
<1> SUFFICES ASSUME \A f \in events : ~(e.at < f.at)
             PROVE  FALSE
  OBVIOUS
<1> DEFINE upto == {f \in history : f.at <= e.at}
<1>1. events \cup {e} \subseteq upto
  BY TxTypes DEF ListInv
<1>2. IsFiniteSet(upto) /\ IsFiniteSet(events)
  BY FS_Subset DEF TypeOK, ListInv
<1>3. /\ IsFiniteSet(events \cup {e})
      /\ Cardinality(events \cup {e}) = Cardinality(events) + 1
  BY <1>2, FS_AddElement
<1>4. Cardinality(events \cup {e}) <= Cardinality(upto)
  BY <1>1, <1>2, FS_Subset
<1>5. ~(Cardinality(upto) > seen) /\ seen = Cardinality(events)
  BY DEF Unsent, Position, ListInv
<1>6. /\ Cardinality(upto) \in Nat /\ Cardinality(events) \in Nat
      /\ Cardinality(events \cup {e}) \in Nat
  BY <1>2, <1>3, FS_CardinalityType
<1> QED
  BY <1>3, <1>4, <1>5, <1>6

\* The event it is behind is that of a process which was faster: the next of
\* its own process comes after both.
LEMMA SkippedByAnother ==
    ASSUME TypeOK, ListInv, NEW e \in history, e \notin events, e \notin Unsent
    PROVE  \E f \in events :
             /\ f.by # e.by /\ e.at < f.at
             /\ \A g \in history : g.by = e.by /\ e.at < g.at => f.at < g.at
             /\ tx[e.by] # NoTx => f.at < tx[e.by].at
<1>1. PICK f \in events : e.at < f.at
  BY SkippedIsBehind
<1>2. f.at \in Nat /\ e.at \in Nat
  BY TxTypes DEF ListInv
<1> QED
  BY <1>1, <1>2 DEF ListInv

LEMMA MissedStep ==
    ASSUME TypeOK, StampInv, ListInv, MissedInv, [Next]_vars
    PROVE  MissedInv'
<1> USE TxTypes
<1>0. events \subseteq history
  BY DEF ListInv
<1>1. CASE ListEvents
  <2>1. /\ events' = history /\ history' = history /\ tx' = tx
        /\ shown' = shown \cup Unsent
    BY <1>1 DEF ListEvents, writerVars
  <2>2. ASSUME NEW e \in history \ (shown \cup Unsent)
        PROVE  \E f \in history :
                 /\ f.by # e.by /\ e.at < f.at
                 /\ \A g \in history : g.by = e.by /\ e.at < g.at => f.at < g.at
                 /\ tx[e.by] # NoTx => f.at < tx[e.by].at
    <3>1. CASE e \in events
      BY <1>0, <2>2, <3>1 DEF MissedInv
    <3>2. CASE e \notin events
      BY <1>0, <2>2, <3>2, SkippedByAnother
    <3> QED
      BY <3>1, <3>2
  <2> QED
    BY <2>1, <2>2 DEF MissedInv
<1>2. CASE Reconnect
  BY <1>2 DEF Reconnect, MissedInv
<1>3. CASE Idles
  <2> USE <1>3 DEF Idles
  <2>1. ASSUME NEW p \in Processes, Begins(p)
        PROVE  MissedInv'
    <3>1. \A f \in events : f.at < clock
      BY <1>0 DEF StampInv
    <3> QED
      BY <1>0, <2>1, <3>1 DEF Begins, MissedInv
  <2>2. ASSUME NEW p \in Processes, Ends(p)
        PROVE  MissedInv'
    <3>1. SUFFICES ASSUME NEW e \in events \ shown
                   PROVE  \E f \in events :
                     /\ f.by # e.by /\ e.at < f.at
                     /\ \A g \in history' :
                          g.by = e.by /\ e.at < g.at => f.at < g.at
                     /\ tx'[e.by] # NoTx => f.at < tx'[e.by].at
      BY DEF MissedInv
    <3>2. PICK f \in events :
            /\ f.by # e.by /\ e.at < f.at
            /\ \A g \in history : g.by = e.by /\ e.at < g.at => f.at < g.at
            /\ tx[e.by] # NoTx => f.at < tx[e.by].at
      BY <3>1 DEF MissedInv
    <3>3. \A g \in history' \ history :
            /\ tx[p] # NoTx /\ g.at = tx[p].at /\ g.by = p
      BY <2>2 DEF Ends
    <3>4. \A g \in history' : g.by = e.by /\ e.at < g.at => f.at < g.at
      BY <3>2, <3>3
    <3>5. e.by \in Processes
      BY <1>0, <3>1
    <3>6. tx'[e.by] # NoTx => f.at < tx'[e.by].at
      BY <2>2, <3>2, <3>5 DEF Ends
    <3> QED
      BY <3>2, <3>4, <3>6
  <2>3. CASE Keeps
    BY <1>0, <2>3 DEF Keeps, MissedInv
  <2> QED
    BY <2>1, <2>2, <2>3, StampCases
<1> QED
  BY <1>1, <1>2, <1>3, PollCases DEF Polls

-----------------------------------------------------------------------------
(***************************************************************************)
(* One worker at a time.                                                   *)
(***************************************************************************)

\* Of a worker's events, only one that the API's has overtaken is skipped.
LEMMA SkippedOfWorker ==
    ASSUME TypeOK, StampInv, ListInv, SingleInv, NoOverlap,
           NEW e \in history, e \notin events, e \notin Unsent, e.by # "api"
    PROVE  \E f \in events : /\ f.by = "api" /\ f.at > e.at
                             /\ \A w \in Workers :
                                  tx[w] # NoTx => f.at < tx[w].at
<1>1. PICK f \in events : e.at < f.at
  BY SkippedIsBehind
<1>2. f \in history /\ f.at \in Nat /\ e.at \in Nat
  BY TxTypes DEF ListInv
<1>3. f.by = "api"
  BY <1>1, <1>2 DEF SingleInv
<1>4. ASSUME NEW w \in Workers, tx[w] # NoTx PROVE f.at < tx[w].at
  <2>1. tx[w].at # f.at /\ tx[w].at \in Nat
    BY <1>2, <1>4, TxTypes DEF StampInv, Processes
  <2>2. ~(tx[w].at < f.at)
    BY <1>3, <1>4 DEF SingleInv
  <2> QED
    BY <1>2, <2>1, <2>2
<1> QED
  BY <1>1, <1>2, <1>3, <1>4

\* A listing that skips an event has missed none before, and skips one only.
LEMMA OneIsSkipped ==
    ASSUME TypeOK, StampInv, ListInv, SingleInv, OneInv, NoOverlap,
           NEW d \in history \ (shown \cup Unsent),
           NEW e \in history \ (shown \cup Unsent), e \notin events
    PROVE  d = e
<1> USE TxTypes
<1>0. events \subseteq history
  BY DEF ListInv
<1>1. \A f, g \in history : f.by = "api" /\ g.by = "api" => f = g
  BY DEF StampInv
<1>2. CASE e.by = "api"
  <2>1. CASE d.by = "api"
    BY <1>1, <1>2, <2>1
  <2>2. CASE d.by # "api"
    <3>1. \E f \in events : f.by = "api"
      <4>1. CASE d \in events
        BY <2>2, <4>1 DEF OneInv
      <4>2. CASE d \notin events
        BY <2>2, <4>2, SkippedOfWorker
      <4> QED
        BY <4>1, <4>2
    <3> QED
      BY <1>0, <1>1, <1>2, <3>1
  <2> QED
    BY <2>1, <2>2
<1>3. CASE e.by # "api"
  <2>1. PICK q \in events : q.by = "api" /\ q.at > e.at
    BY <1>3, SkippedOfWorker
  <2>2. CASE d \notin events
    <3>1. d.by # "api"
      BY <1>0, <1>1, <2>1, <2>2
    <3>2. PICK f \in events : f.by = "api" /\ f.at > d.at
      BY <2>2, <3>1, SkippedOfWorker
    <3>3. f = q
      BY <1>0, <1>1, <2>1, <3>2
    <3> QED
      BY <1>0, <2>1, <2>2, <3>2, <3>3 DEF SingleInv
  <2>3. CASE d \in events
    <3>1. PICK f \in events :
            /\ f.at > d.at
            /\ d.by # "api" =>
                 /\ f.by = "api"
                 /\ \A g \in history \ events : f.at < g.at
      BY <2>3 DEF OneInv
    <3>2. f.at \in Nat /\ d.at \in Nat /\ e.at \in Nat /\ q.at \in Nat
      BY <1>0
    <3>3. CASE d.by # "api"
      <4>1. f = q /\ f.at < e.at
        BY <1>0, <1>1, <2>1, <3>1, <3>3
      <4> QED
        BY <2>1, <3>2, <4>1
    <3>4. CASE d.by = "api"
      <4>1. d = q
        BY <1>1, <1>0, <2>1, <3>4
      <4>2. f.by # "api"
        BY <1>0, <1>1, <3>1, <3>2, <3>4
      <4>3. f.at < e.at
        BY <1>3, <4>2 DEF SingleInv
      <4> QED
        BY <2>1, <3>1, <3>2, <4>1, <4>3
    <3> QED
      BY <3>3, <3>4
  <2> QED
    BY <2>2, <2>3
<1> QED
  BY <1>2, <1>3

LEMMA OneStep ==
    ASSUME TypeOK, OwnerInv, StampInv, ListInv, SingleInv, OneInv, [Next]_vars
    PROVE  OneInv'
<1> USE TxTypes
<1> SUFFICES ASSUME NoOverlap'
             PROVE  OneInv'
  BY DEF OneInv
<1>0. NoOverlap /\ "api" \in Processes /\ "api" \notin Workers
      /\ Workers \subseteq Processes /\ events \subseteq history
  BY OverlapStays, StreamAssumption DEF Processes, ListInv
<1>1. CASE ListEvents
  <2>1. /\ events' = history /\ history' = history /\ tx' = tx
        /\ shown' = shown \cup Unsent
    BY <1>1 DEF ListEvents, writerVars
  <2>2. \A d, e \in history \ (shown \cup Unsent) : d = e
    <3>1. SUFFICES ASSUME NEW d \in history \ (shown \cup Unsent),
                          NEW e \in history \ (shown \cup Unsent)
                   PROVE  d = e
      OBVIOUS
    <3>2. CASE d \in events /\ e \in events
      BY <1>0, <3>2 DEF OneInv
    <3>3. CASE e \notin events
      BY <1>0, <3>3, OneIsSkipped
    <3>4. CASE d \notin events
      BY <1>0, <3>4, OneIsSkipped
    <3> QED
      BY <3>2, <3>3, <3>4
  <2>3. ASSUME NEW e \in history \ (shown \cup Unsent)
        PROVE  \E f \in history :
                 /\ f.at > e.at
                 /\ e.by # "api" =>
                      /\ f.by = "api"
                      /\ \A w \in Workers : tx[w] # NoTx => f.at < tx[w].at
    <3>1. CASE e \in events
      BY <1>0, <3>1 DEF OneInv
    <3>2. CASE e \notin events /\ e.by = "api"
      <4>1. PICK f \in events : e.at < f.at
        BY <3>2, SkippedIsBehind
      <4>2. f \in history /\ f.at > e.at
        BY <1>0, <4>1
      <4> QED
        BY <3>2, <4>2
    <3>3. CASE e \notin events /\ e.by # "api"
      BY <1>0, <3>3, SkippedOfWorker
    <3> QED
      BY <3>1, <3>2, <3>3
  <2> QED
    BY <2>1, <2>2, <2>3 DEF OneInv
<1>2. CASE Reconnect
  BY <1>2 DEF Reconnect, OneInv
<1>3. CASE Idles
  <2> USE <1>3 DEF Idles
  <2>1. ASSUME NEW p \in Processes, Begins(p)
        PROVE  OneInv'
    <3>1. \A q \in events : q.at < clock
      BY <1>0 DEF StampInv
    <3> QED
      BY <1>0, <2>1, <3>1 DEF Begins, OneInv
  <2>2. ASSUME NEW p \in Processes, Ends(p), history' = history
        PROVE  OneInv'
    BY <1>0, <2>2 DEF Ends, OneInv
  <2>3. ASSUME NEW p \in Processes, Ends(p), tx[p] # NoTx, NEW g \in Events,
               g.at = tx[p].at, g.by = p, history' = history \cup {g}
        PROVE  OneInv'
    <3>0. tx'[p] = NoTx /\ \A o \in Processes \ {p} : tx'[o] = tx[o]
      BY <2>3 DEF Ends
    <3>1. CASE p = "api"
      <4>1. \A q \in events : q.by # "api"
        BY <1>0, <2>3, <3>1 DEF StampInv
      <4> QED
        BY <1>0, <4>1 DEF OneInv
    <3>2. CASE p # "api"
      <4>1. p \in Workers
        BY <3>2 DEF Processes
      <4> QED
        BY <1>0, <2>3, <3>0, <4>1 DEF OneInv
    <3> QED
      BY <3>1, <3>2
  <2>4. CASE Keeps
    BY <1>0, <2>4 DEF Keeps, OneInv
  <2> QED
    BY <2>1, <2>2, <2>3, <2>4, StampCases DEF Ends
<1> QED
  BY <1>1, <1>2, <1>3, PollCases DEF Polls

-----------------------------------------------------------------------------
(***************************************************************************)
(* The theorems.                                                           *)
(***************************************************************************)

IInv ==
    /\ TypeOK /\ OwnerInv /\ FinalInv
    /\ StampInv /\ ListInv /\ SingleInv
    /\ MissedInv /\ OneInv

LEMMA InitInv ==
    ASSUME Init
    PROVE  IInv
<1>1. TypeOK
  BY FS_EmptySet DEF Init, TypeOK, Terminal
<1>2. OwnerInv /\ FinalInv
  BY DEF Init, OwnerInv, FinalInv, Terminal, Processes
<1>3. StampInv
  BY StreamAssumption DEF Init, StampInv, Processes
<1>4. ListInv /\ SingleInv /\ MissedInv /\ OneInv
  BY FS_EmptySet DEF Init, ListInv, SingleInv, MissedInv, OneInv
<1> QED
  BY <1>1, <1>2, <1>3, <1>4 DEF IInv

\* The inductive invariant of the writers, the stream and the view.
THEOREM Invariance == Spec => []IInv
<1>1. IInv /\ [Next]_vars => IInv'
  BY TypeStep, OwnerStep, FinalStep, StampStep, ListStep, SingleStep,
     MissedStep, OneStep DEF IInv
<1> QED
  BY <1>1, InitInv, PTL DEF Spec

\* Every variable keeps its type (record_event, stream_job_events and the live
\* run view).
THEOREM TypeCorrect == Spec => []TypeOK
<1>1. IInv => TypeOK
  BY DEF IInv
<1> QED
  BY <1>1, Invariance, PTL

\* However many polls, reconnections and lost writes there are, a view that
\* was closed by job_terminal shows the outcome, unless the message of the job
\* was delivered again.
THEOREM ClosedIsFinal == Spec => []ClosedViewIsFinal
<1>1. IInv => ClosedViewIsFinal
  BY DEF IInv, FinalInv, ClosedViewIsFinal
<1> QED
  BY <1>1, Invariance, PTL

\* For any number of workers, events, deliveries and reconnections, an event
\* that events[seen:] has skipped is behind one that another process recorded
\* in between, and there is one at most while one worker at a time records.
THEOREM FewMissed == Spec => []FewAreMissed
<1>1. IInv => FewAreMissed
  <2> SUFFICES ASSUME IInv
               PROVE  /\ \A e \in events \ shown : \E f \in events :
                           /\ f.by # e.by /\ e.at < f.at
                           /\ \A g \in events :
                                g.by = e.by /\ e.at < g.at => f.at < g.at
                      /\ NoOverlap => Cardinality(events \ shown) <= 1
    BY DEF FewAreMissed, NoOverlap
  <2>1. ASSUME NoOverlap PROVE Cardinality(events \ shown) <= 1
    <3>1. CASE events \ shown = {}
      BY <3>1, FS_EmptySet
    <3>2. CASE events \ shown # {}
      <4>1. PICK e : e \in events \ shown
        BY <3>2
      <4>2. events \ shown = {e}
        BY <2>1, <4>1 DEF IInv, OneInv
      <4>3. Cardinality({e}) = 1
        BY FS_Singleton
      <4> QED
        BY <4>2, <4>3
    <3> QED
      BY <3>1, <3>2
  <2>2. events \subseteq history
    BY DEF IInv, ListInv
  <2> QED
    BY <2>1, <2>2 DEF IInv, MissedInv
<1> QED
  BY <1>1, Invariance, PTL
=============================================================================
