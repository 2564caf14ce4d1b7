---------------------------- MODULE EvidenceLedger ----------------------------
(***************************************************************************)
(* What the evidence repository of an experiment promises to its readers:  *)
(* executions become complete as a whole, the latest run is one of the     *)
(* complete ones, and a read returns, as a whole, the run that was latest  *)
(* when the read began.  A store of plain files may lose the pointer to    *)
(* the latest run, and so may any store once two executions share their    *)
(* directories; nothing else is lost.  A remote store may fail a read.    *)
(***************************************************************************)
CONSTANTS Executions, Readers, NoRun

VARIABLES
    remote,    \* the store is a service that replaces its files as a whole
    collided,  \* two executions have entered the same directories
    complete,  \* executions with both of their runs
    latest,    \* the run the pointer leads to, or NoRun
    reader     \* reader[r]: what r is returned

vars == <<remote, collided, complete, latest, reader>>

Idle == [phase |-> "idle", run |-> NoRun]

Init ==
    /\ remote \in BOOLEAN
    /\ collided = FALSE
    /\ complete = {}
    /\ latest = NoRun
    /\ reader = [r \in Readers |-> Idle]

CompleteRun(x) ==
    /\ complete' = complete \cup {x}
    /\ UNCHANGED <<collided, latest, reader>>

PublishRun(x) ==
    /\ x \in complete
    /\ latest' = x
    /\ UNCHANGED <<collided, complete, reader>>

Collide ==
    /\ collided' = TRUE
    /\ UNCHANGED <<complete, latest, reader>>

LoseLatest ==
    /\ ~remote \/ collided
    /\ latest' = NoRun
    /\ UNCHANGED <<collided, complete, reader>>

BeginRead(r) ==
    /\ reader[r] = Idle
    /\ latest # NoRun
    /\ reader' = [reader EXCEPT ![r] = [phase |-> "reading", run |-> latest]]
    /\ UNCHANGED <<collided, complete, latest>>

ReturnRead(r) ==
    /\ reader[r].phase = "reading"
    /\ reader' = [reader EXCEPT ![r].phase = "returned"]
    /\ UNCHANGED <<collided, complete, latest>>

FailRead(r) ==
    /\ remote
    /\ reader[r].phase = "reading"
    /\ reader' = [reader EXCEPT ![r] = Idle]
    /\ UNCHANGED <<collided, complete, latest>>

EndRead(r) ==
    /\ reader[r].phase = "returned"
    /\ reader' = [reader EXCEPT ![r] = Idle]
    /\ UNCHANGED <<collided, complete, latest>>

Next ==
    /\ \/ \E x \in Executions : CompleteRun(x) \/ PublishRun(x)
       \/ Collide \/ LoseLatest
       \/ \E r \in Readers :
            BeginRead(r) \/ ReturnRead(r) \/ FailRead(r) \/ EndRead(r)
    /\ UNCHANGED remote

Spec == Init /\ [][Next]_vars
=============================================================================
