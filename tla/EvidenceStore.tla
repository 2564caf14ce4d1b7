---------------------------- MODULE EvidenceStore ----------------------------
(***************************************************************************)
(* The evidence repository of one experiment, file by file.                *)
(*                                                                         *)
(* An execution saves its baseline run directory, its mitigation run       *)
(* directory and then comparison.json, the overwritable pointer to the     *)
(* latest run.  Requests read the pointer and then the files it leads to,  *)
(* and a download zips them up.  Nothing locks: executions of several      *)
(* workers, and requests, interleave between any two file operations, and  *)
(* an execution may die or fail at any of them.                            *)
(*                                                                         *)
(* The name of a run directory is drawn from the millisecond clock, so two *)
(* executions may draw the same one: Stamp[x].  A directory that holds     *)
(* anything is refused, but the check and the writes are not one step.     *)
(* The local backend opens (and so truncates) a file before it writes it;  *)
(* a MinIO put is atomic, and a MinIO read may fail.                       *)
(***************************************************************************)
EXTENDS Naturals, Sequences

CONSTANTS
    Executions,  \* executions of the experiment that reach the evidence stage
    Stamps,      \* values of int(time.time() * 1000)
    Stamp,       \* Stamp[x]: the stamp execution x drew
    Readers,     \* requests that read the latest evidence
    Backends,    \* the backends a deployment may choose
    Absent,      \* no such file
    Torn         \* a file whose bytes do not parse

ASSUME StoreAssumption ==
    /\ Stamp \in [Executions -> Stamps]
    /\ Backends \subseteq {"local", "minio"}
    /\ Absent \notin Executions /\ Torn \notin Executions /\ Absent # Torn

VARIABLES
    backend,     \* ZEROSHIELD_EVIDENCE_BACKEND, chosen once
    files,       \* files[d][n]: the execution whose bytes artefact n of d holds
    comparison,  \* the same for comparison.json
    pc,          \* pc[x]: what execution x does next
    mode,        \* mode[x]: the run directory it is at
    pos,         \* pos[x]: the artefact of that directory it writes next
    opened,      \* opened[x]: x has truncated the file it is about to write
    rpc,         \* rpc[r]: what request r does next
    view,        \* view[r]: where the parts r has read so far come from
    zip,         \* zip[r]: what is in the bundle r builds, files zipped so far
    audit        \* executions with an evidence_verified audit event

storeVars  == <<files, comparison>>
writerVars == <<pc, mode, pos, opened>>
readerVars == <<rpc, view, zip, audit>>
vars == <<backend, storeVars, writerVars, readerVars>>
-----------------------------------------------------------------------------
Modes == {"baseline", "mitigated"}

\* The artefacts of a bundle in the order they are written.
Artefacts == <<"experiment", "dataset_manifest", "results", "metrics",
               "manifest">>
ArtefactNames == {Artefacts[i] : i \in 1..5}

\* What load_latest_evidence reads once it has the comparison.
ReadOrder == <<[mode |-> "baseline",  name |-> "manifest"],
               [mode |-> "mitigated", name |-> "manifest"],
               [mode |-> "baseline",  name |-> "results"],
               [mode |-> "mitigated", name |-> "results"]>>

\* The download lists each run directory by name.
Listing == <<"dataset_manifest", "experiment", "manifest", "metrics",
             "results">>
ZipOrder == [i \in 1..10 |->
    IF i <= 5 THEN [mode |-> "baseline", name |-> Listing[i]]
    ELSE [mode |-> "mitigated", name |-> Listing[i - 5]]]

RunDirs == Stamps \X Modes

\* RUN-<stamp>01 and RUN-<stamp>02.
Dir(x, m) == <<Stamp[x], m>>

Contents == Executions \cup {Absent, Torn}

\* d holds a file, whole or not.
NonEmpty(d) == \E n \in ArtefactNames : files[d][n] # Absent

\* Both bundles of x are in the store as x wrote them.
Complete(x) ==
    \A m \in Modes, n \in ArtefactNames : files[Dir(x, m)][n] = x

\* x has passed the check of its first run directory.
Entered(x) == ~(mode[x] = "baseline" /\ pc[x] \in {"check", "rejected"})

\* No other execution has passed the check of the directories of x so far.
Alone(x) ==
    \A y \in Executions \ {x} : Stamp[y] = Stamp[x] => ~Entered(y)

NoZip == [comparison |-> Absent, runs |-> {}, count |-> 0]

Init ==
    /\ backend \in Backends
    /\ files = [d \in RunDirs |-> [n \in ArtefactNames |-> Absent]]
    /\ comparison = Absent
    /\ pc = [x \in Executions |-> "check"]
    /\ mode = [x \in Executions |-> "baseline"]
    /\ pos = [x \in Executions |-> 1]
    /\ opened = [x \in Executions |-> FALSE]
    /\ rpc = [r \in Readers |-> "idle"]
    /\ view = [r \in Readers |-> <<>>]
    /\ zip = [r \in Readers |-> NoZip]
    /\ audit = {}
-----------------------------------------------------------------------------
(***************************************************************************)
(* The writer: save_run_evidence twice, then save_comparison.              *)
(***************************************************************************)

\* Mutant: the directory is used whatever it holds.
Mut_CheckRunDir(x) ==
    /\ pc[x] = "check"
    /\ pc' = [pc EXCEPT ![x] = "write"]
    /\ pos' = [pos EXCEPT ![x] = 1]
    /\ UNCHANGED <<storeVars, mode, opened, readerVars>>

\* EvidenceAlreadyExistsError when the run directory holds anything.
CheckRunDir(x) ==
    /\ pc[x] = "check"
    /\ pc' = [pc EXCEPT ![x] = IF NonEmpty(Dir(x, mode[x])) THEN "rejected"
                               ELSE "write"]
    /\ pos' = [pos EXCEPT ![x] = 1]
    /\ UNCHANGED <<storeVars, mode, opened, readerVars>>

\* Path.write_bytes opens the file for writing, which empties it.
OpenArtefact(x) ==
    /\ backend = "local"
    /\ pc[x] = "write" /\ ~opened[x]
    /\ files' = [files EXCEPT ![Dir(x, mode[x])][Artefacts[pos[x]]] = Torn]
    /\ opened' = [opened EXCEPT ![x] = TRUE]
    /\ UNCHANGED <<comparison, pc, mode, pos, readerVars>>

\* What a write of x leaves in a file that holds c: bytes written over those
\* of another writer may leave a tail of the longer one.
Written(x, c) ==
    IF backend = "local" /\ c \in Executions THEN {x, Torn} ELSE {x}

\* Mutant: the comparison is saved before the mitigation run.
Mut_NextDir(x) ==
    IF pos[x] < Len(Artefacts)
    THEN /\ pos' = [pos EXCEPT ![x] = @ + 1]
         /\ UNCHANGED <<pc, mode>>
    ELSE /\ pc' = [pc EXCEPT ![x] = "compare"]
         /\ UNCHANGED <<pos, mode>>

\* After the last artefact of a directory comes the next directory, then the
\* comparison.
NextDir(x) ==
    IF pos[x] < Len(Artefacts)
    THEN /\ pos' = [pos EXCEPT ![x] = @ + 1]
         /\ UNCHANGED <<pc, mode>>
    ELSE /\ pc' = [pc EXCEPT ![x] = IF mode[x] = "baseline" THEN "check"
                                    ELSE "compare"]
         /\ mode' = [mode EXCEPT ![x] = "mitigated"]
         /\ UNCHANGED pos

WriteArtefact(x) ==
    /\ pc[x] = "write"
    /\ backend = "local" => opened[x]
    /\ LET d == Dir(x, mode[x])
           n == Artefacts[pos[x]]
       IN \E c \in Written(x, files[d][n]) : files' = [files EXCEPT ![d][n] = c]
    /\ opened' = [opened EXCEPT ![x] = FALSE]
    /\ NextDir(x)
    /\ UNCHANGED <<comparison, readerVars>>

OpenComparison(x) ==
    /\ backend = "local"
    /\ pc[x] = "compare" /\ ~opened[x]
    /\ comparison' = Torn
    /\ opened' = [opened EXCEPT ![x] = TRUE]
    /\ UNCHANGED <<files, pc, mode, pos, readerVars>>

SaveComparison(x) ==
    /\ pc[x] = "compare"
    /\ backend = "local" => opened[x]
    /\ comparison' \in Written(x, comparison)
    /\ opened' = [opened EXCEPT ![x] = FALSE]
    /\ pc' = [pc EXCEPT ![x] = "saved"]
    /\ UNCHANGED <<files, mode, pos, readerVars>>

\* The worker dies, or the write raises: nothing is cleaned up.  An execution
\* that dies before its first check is one that never takes a step.
Die(x) ==
    /\ pc[x] \in {"check", "write", "compare"} /\ Entered(x)
    /\ pc' = [pc EXCEPT ![x] = "dead"]
    /\ UNCHANGED <<storeVars, mode, pos, opened, readerVars>>
-----------------------------------------------------------------------------
(***************************************************************************)
(* The reader: load_latest_evidence, and the bundle download on top of it. *)
(***************************************************************************)

\* MinIO answers with an error other than not found: it is raised again.
ReadFails(r) ==
    /\ backend = "minio"
    /\ rpc[r] \in {"idle", "loading", "dataset"}
    /\ rpc' = [rpc EXCEPT ![r] = "error"]
    /\ UNCHANGED <<storeVars, writerVars, view, zip, audit>>

LoadComparison(r) ==
    /\ rpc[r] = "idle"
    /\ rpc' = [rpc EXCEPT ![r] = CASE comparison = Absent -> "not_found"
                                   [] comparison = Torn   -> "error"
                                   [] OTHER               -> "loading"]
    /\ view' = [view EXCEPT ![r] = IF comparison \in Executions
                                   THEN <<comparison>> ELSE <<>>]
    /\ UNCHANGED <<storeVars, writerVars, zip, audit>>

\* The next file the comparison leads to; one that is missing or does not
\* parse is an internal error.
LoadNext(r) ==
    /\ LET k == ReadOrder[Len(view[r])]
           c == files[Dir(view[r][1], k.mode)][k.name]
       IN IF c \in Executions
          THEN /\ view' = [view EXCEPT ![r] = Append(@, c)]
               /\ rpc' = [rpc EXCEPT ![r] = IF Len(view[r]) = Len(ReadOrder)
                                            THEN "dataset" ELSE "loading"]
          ELSE /\ rpc' = [rpc EXCEPT ![r] = "error"]
               /\ UNCHANGED view
    /\ UNCHANGED <<storeVars, writerVars, zip, audit>>

\* Both manifests, and then both results.json.
LoadManifest(r) == rpc[r] = "loading" /\ Len(view[r]) <= 2 /\ LoadNext(r)
LoadResults(r) == rpc[r] = "loading" /\ Len(view[r]) > 2 /\ LoadNext(r)

\* The dataset of the baseline run is a detail: the view is returned with a
\* note when it cannot be read.
LoadDataset(r) ==
    /\ rpc[r] = "dataset"
    /\ view' = [view EXCEPT ![r] =
            Append(@, files[Dir(view[r][1], "baseline")]["dataset_manifest"])]
    /\ rpc' = [rpc EXCEPT ![r] = "view"]
    /\ UNCHANGED <<storeVars, writerVars, zip, audit>>

\* download_evidence_bundle: the audit write comes first and may fail.
StartDownload(r) ==
    /\ rpc[r] = "view"
    /\ \/ /\ audit' = audit \cup {view[r][1]}
          /\ rpc' = [rpc EXCEPT ![r] = "zip_comparison"]
       \/ /\ rpc' = [rpc EXCEPT ![r] = "error"]
          /\ UNCHANGED audit
    /\ UNCHANGED <<storeVars, writerVars, view, zip>>

\* The zip is built from the local results directory, whatever the backend.
OnDisk(c) == IF backend = "local" THEN c ELSE Absent

ZipComparison(r) ==
    /\ rpc[r] = "zip_comparison"
    /\ zip' = [zip EXCEPT ![r].comparison = OnDisk(comparison)]
    /\ rpc' = [rpc EXCEPT ![r] = "zip_runs"]
    /\ UNCHANGED <<storeVars, writerVars, view, audit>>

\* The entry of the next file of the run directories that the manifests name:
\* none when there is no such file.
Entry(r, k) ==
    LET x == view[r][IF k.mode = "baseline" THEN 2 ELSE 3]
    IN {c \in [mode : {k.mode}, name : {k.name}, of : Contents] :
          /\ c.of = OnDisk(files[Dir(x, k.mode)][k.name])
          /\ c.of # Absent}

\* Mutant: the baseline run directory is zipped, the mitigation run is not.
Mut_ZipRuns(r) ==
    /\ rpc[r] = "zip_runs"
    /\ LET k == zip[r].count + 1
       IN /\ zip' = [zip EXCEPT ![r].runs = @ \cup Entry(r, ZipOrder[k]),
                                ![r].count = k]
          /\ rpc' = [rpc EXCEPT ![r] = IF k = 5 THEN "zipped" ELSE "zip_runs"]
    /\ UNCHANGED <<storeVars, writerVars, view, audit>>

\* One file after the other is read into the bundle.
ZipRuns(r) ==
    /\ rpc[r] = "zip_runs"
    /\ LET k == zip[r].count + 1
       IN /\ zip' = [zip EXCEPT ![r].runs = @ \cup Entry(r, ZipOrder[k]),
                                ![r].count = k]
          /\ rpc' = [rpc EXCEPT ![r] = IF k = 10 THEN "zipped" ELSE "zip_runs"]
    /\ UNCHANGED <<storeVars, writerVars, view, audit>>

\* The response is sent; the next request starts from nothing.
Respond(r) ==
    /\ rpc[r] \in {"view", "zipped", "not_found", "error"}
    /\ rpc' = [rpc EXCEPT ![r] = "idle"]
    /\ view' = [view EXCEPT ![r] = <<>>]
    /\ zip' = [zip EXCEPT ![r] = NoZip]
    /\ UNCHANGED <<storeVars, writerVars, audit>>
-----------------------------------------------------------------------------
Save(x) ==
    \/ CheckRunDir(x)
    \/ OpenArtefact(x)
    \/ WriteArtefact(x)
    \/ OpenComparison(x)
    \/ SaveComparison(x)
    \/ Die(x)

Read(r) ==
    \/ ReadFails(r)
    \/ LoadComparison(r)
    \/ LoadManifest(r)
    \/ LoadResults(r)
    \/ LoadDataset(r)
    \/ StartDownload(r)
    \/ ZipComparison(r)
    \/ ZipRuns(r)
    \/ Respond(r)

Next ==
    /\ \/ \E x \in Executions : Save(x)
       \/ \E r \in Readers : Read(r)
    /\ UNCHANGED backend

Spec == Init /\ [][Next]_vars
-----------------------------------------------------------------------------
(***************************************************************************)
(* Properties.                                                             *)
(***************************************************************************)

\* A bundle downloaded from the local backend holds every artefact of both
\* runs of the evidence the request has loaded and audited, file by file, if
\* no other execution drew the stamp of that run and passed the check too.
BundleHasRuns ==
    \A r \in Readers :
        rpc[r] = "zipped" /\ backend = "local" /\ Alone(view[r][1]) =>
            zip[r].runs = [mode : Modes, name : ArtefactNames,
                           of : {view[r][1]}]

\* "A run's evidence, once written, is never silently replaced": from the
\* moment an execution that is alone in its directories has written a file,
\* no other passes their check, whatever stamp it draws, and the file stays.
EvidenceStays ==
    [][\A x \in Executions, m \in Modes, n \in ArtefactNames :
         Alone(x) /\ files[Dir(x, m)][n] = x =>
           (Alone(x) /\ files[Dir(x, m)][n] = x)']_vars

\* What a reader is about to return, if its parts are of one run.
RunOf(r) ==
    IF \A i \in 1..Len(view[r]) : view[r][i] = view[r][1] THEN view[r][1]
    ELSE Torn

\* The ledger knows of the requests for a run that is alone in its stamp.
LedgerReader ==
    [r \in Readers |->
        CASE rpc[r] \in {"loading", "dataset"} /\ Alone(view[r][1]) ->
                 [phase |-> "reading", run |-> RunOf(r)]
          [] rpc[r] \in {"view", "zip_comparison", "zip_runs", "zipped"}
               /\ Alone(view[r][1]) ->
                 [phase |-> "returned", run |-> RunOf(r)]
          [] OTHER -> [phase |-> "idle", run |-> Absent]]

Ledger == INSTANCE EvidenceLedger WITH
    remote <- backend = "minio",
    collided <- \E x \in Executions : Entered(x) /\ ~Alone(x),
    complete <- {x \in Executions : Alone(x) /\ Complete(x)},
    latest <- IF comparison \in Executions /\ Alone(comparison)
              THEN comparison ELSE Absent,
    reader <- LedgerReader,
    NoRun <- Absent

\* Executions and requests implement the ledger: a read of five files is
\* atomic, as of the read of the comparison, and what a request has begun to
\* read never changes.  The comparison is lost on the local backend only, or
\* to an execution that shares its directories with another.
ImplementsLedger == Ledger!Spec
-----------------------------------------------------------------------------
(***************************************************************************)
(* The inductive invariants that EvidenceStoreProofs proves.               *)
(***************************************************************************)

Reading == {"loading", "dataset"}
Returned == {"view", "zip_comparison", "zip_runs", "zipped"}

TypeOK ==
    /\ backend \in {"local", "minio"}
    /\ files \in [RunDirs -> [ArtefactNames -> Contents]]
    /\ comparison \in Contents
    /\ pc \in [Executions -> {"check", "write", "compare", "saved",
                              "rejected", "dead"}]
    /\ mode \in [Executions -> Modes]
    /\ pos \in [Executions -> 1..5]
    /\ opened \in [Executions -> BOOLEAN]
    /\ rpc \in [Readers -> {"idle", "not_found", "error"}
                           \cup Reading \cup Returned]
    /\ view \in [Readers -> Seq(Contents)]
    /\ zip \in [Readers ->
          [comparison : Contents,
           runs : SUBSET [mode : Modes, name : ArtefactNames, of : Contents],
           count : 0..10]]
    /\ audit \subseteq Executions

\* Artefact i of run directory m is behind, or ahead of, where x is writing.
Behind(x, m, i) ==
    \/ pc[x] \in {"compare", "saved"}
    \/ pc[x] \in {"check", "write"} /\ mode[x] = "mitigated" /\ m = "baseline"
    \/ pc[x] = "write" /\ m = mode[x] /\ i < pos[x]

Ahead(x, m, i) ==
    \/ pc[x] \in {"check", "write"} /\ mode[x] = "baseline" /\ m = "mitigated"
    \/ pc[x] = "check" /\ m = mode[x]
    \/ pc[x] = "write" /\ m = mode[x] /\ i > pos[x]

\* A run directory holds what its own execution has written, in order.
InOrder(x) ==
    /\ \A m \in Modes, i \in 1..5 :
         LET c == files[Dir(x, m)][Artefacts[i]]
         IN /\ Behind(x, m, i) => c = x
            /\ Ahead(x, m, i) => c = Absent
            /\ pc[x] = "write" /\ m = mode[x] /\ i = pos[x] =>
                 c = IF opened[x] THEN Torn ELSE Absent
    /\ pc[x] = "check" => ~opened[x]

WriterInv == \A x \in Executions : Alone(x) => InOrder(x)

\* A mitigation run directory is entered and written after the baseline's.
StartedInv ==
    /\ \A x \in Executions : mode[x] = "mitigated" =>
                               NonEmpty(Dir(x, "baseline"))
    /\ \A s \in Stamps : NonEmpty(<<s, "mitigated">>) =>
                            NonEmpty(<<s, "baseline">>)

\* The comparison is of a complete execution, and whole on MinIO.
PointerInv ==
    /\ comparison \in Executions /\ Alone(comparison) => Complete(comparison)
    /\ backend = "minio" => comparison # Torn

\* A request has parts of one complete execution only.
ReaderInv ==
    \A r \in Readers :
        /\ rpc[r] \in Reading \cup Returned =>
             /\ view[r] # <<>> /\ view[r][1] \in Executions
             /\ Alone(view[r][1]) =>
                  /\ Complete(view[r][1])
                  /\ \A i \in 1..Len(view[r]) : view[r][i] = view[r][1]
        /\ rpc[r] = "loading" => Len(view[r]) \in 1..4
        /\ rpc[r] = "dataset" => Len(view[r]) = 5
        /\ rpc[r] \in Returned => Len(view[r]) = 6

\* What is in a bundle of run x after k files.
Zipped(x, k) ==
    {[mode |-> ZipOrder[i].mode, name |-> ZipOrder[i].name, of |-> x] :
        i \in 1..k}

\* A bundle grows file by file, with files of the one run.
BundleInv ==
    \A r \in Readers :
        /\ rpc[r] \in {"idle", "not_found", "error", "view", "zip_comparison"}
             \cup Reading => zip[r].runs = {} /\ zip[r].count = 0
        /\ rpc[r] = "zip_runs" => zip[r].count \in 0..9
        /\ rpc[r] = "zipped" => zip[r].count = 10
        /\ rpc[r] \in Returned /\ backend = "local" /\ Alone(view[r][1]) =>
             zip[r].runs = Zipped(view[r][1], zip[r].count)
=============================================================================
