-------------------------- MODULE EvidenceStoreProofs --------------------------
(***************************************************************************)
(* Proofs about EvidenceStore, for every set of executions, whatever       *)
(* stamps they draw, every set of readers and both backends, and the proof *)
(* that it implements EvidenceLedger.                                      *)
(***************************************************************************)
EXTENDS EvidenceStore, SequenceTheorems, TLAPS

-----------------------------------------------------------------------------
(***************************************************************************)
(* The places of the store.                                                *)
(***************************************************************************)

\* The artefacts of a run are five different files.
LEMMA ArtefactsDiffer ==
    /\ Len(Artefacts) = 5
    /\ \A i \in 1..5 : Artefacts[i] \in ArtefactNames
    /\ \A n \in ArtefactNames : \E i \in 1..5 : n = Artefacts[i]
    /\ \A i, j \in 1..5 : Artefacts[i] = Artefacts[j] => i = j
<1>1. Len(Artefacts) = 5
  BY DEF Artefacts
<1>2. /\ \A i \in 1..5 : Artefacts[i] \in ArtefactNames
      /\ \A n \in ArtefactNames : \E i \in 1..5 : n = Artefacts[i]
  BY DEF ArtefactNames
<1>3. \A i \in 1..5 : i = 1 \/ i = 2 \/ i = 3 \/ i = 4 \/ i = 5
  OBVIOUS
<1>4. /\ Artefacts[1] = "experiment" /\ Artefacts[2] = "dataset_manifest"
      /\ Artefacts[3] = "results" /\ Artefacts[4] = "metrics"
      /\ Artefacts[5] = "manifest"
  BY DEF Artefacts
<1>5. ASSUME NEW i \in 1..5, NEW j \in 1..5, Artefacts[i] = Artefacts[j]
      PROVE  i = j
  BY <1>3, <1>4, <1>5
<1> QED
  BY <1>1, <1>2, <1>5

\* Only executions of one stamp have a run directory in common.
LEMMA DirsDiffer ==
    \A x, y \in Executions, m, k \in Modes :
      /\ Dir(x, m) \in RunDirs
      /\ Dir(x, m) = Dir(y, k) => Stamp[x] = Stamp[y] /\ m = k
  BY StoreAssumption DEF Dir, RunDirs

\* One file is written, the others are left alone.
OnlyFile(d, n, c) ==
    /\ files'[d][n] = c
    /\ \A e \in RunDirs, k \in ArtefactNames :
         (e # d \/ k # n) => files'[e][k] = files[e][k]

LEMMA OneFile ==
    ASSUME TypeOK, NEW d \in RunDirs, NEW n \in ArtefactNames,
           NEW c \in Contents, files' = [files EXCEPT ![d][n] = c]
    PROVE  /\ files' \in [RunDirs -> [ArtefactNames -> Contents]]
           /\ OnlyFile(d, n, c)
<1> DEFINE new == [files[d] EXCEPT ![n] = c]
<1>1. files' = [files EXCEPT ![d] = new]
  OBVIOUS
<1>2. /\ new \in [ArtefactNames -> Contents] /\ new[n] = c
      /\ \A k \in ArtefactNames : k # n => new[k] = files[d][k]
  BY DEF TypeOK
<1> HIDE DEF new
<1> QED
  BY <1>1, <1>2 DEF TypeOK, OnlyFile
-----------------------------------------------------------------------------
(***************************************************************************)
(* The writers.                                                            *)
(***************************************************************************)

\* Where a writer is, and the artefact it is at.
LEMMA Place ==
    ASSUME TypeOK, NEW x \in Executions
    PROVE  /\ mode[x] \in Modes /\ pos[x] \in 1..5
           /\ Dir(x, mode[x]) \in RunDirs
           /\ Artefacts[pos[x]] \in ArtefactNames
<1>1. mode[x] \in Modes /\ pos[x] \in 1..5
  BY DEF TypeOK
<1> QED
  BY <1>1, ArtefactsDiffer, StoreAssumption DEF Dir, RunDirs

\* What a write leaves is the writer's bytes, but over those of another.
LEMMA WrittenType ==
    ASSUME NEW x \in Executions, NEW c \in Contents
    PROVE  /\ Written(x, c) \subseteq Contents
           /\ c \notin Executions \/ backend # "local" => Written(x, c) = {x}
           /\ Written(x, c) \subseteq {x, Torn}
           /\ backend # "local" => Written(x, c) = {x}
  BY DEF Written, Contents

\* The writer's own artefact is not there yet when it writes it.
LEMMA WriteIsFirst ==
    ASSUME TypeOK, WriterInv, NEW x \in Executions, Alone(x), pc[x] = "write"
    PROVE  files[Dir(x, mode[x])][Artefacts[pos[x]]] \in {Absent, Torn}
  BY Place DEF WriterInv, InOrder

LEMMA NextDirType ==
    ASSUME TypeOK, NEW x \in Executions, NextDir(x)
    PROVE  /\ pc' \in [Executions -> {"check", "write", "compare", "saved",
                                      "rejected", "dead"}]
           /\ mode' \in [Executions -> Modes]
           /\ pos' \in [Executions -> 1..5]
<1>0. Len(Artefacts) = 5 /\ pos[x] \in 1..5
  BY ArtefactsDiffer, Place
<1>1. pos[x] < Len(Artefacts) => pos[x] + 1 \in 1..5
  BY <1>0
<1> QED
  BY <1>1 DEF NextDir, TypeOK, Modes

LEMMA SaveType ==
    ASSUME TypeOK, NEW x \in Executions, Save(x), UNCHANGED backend
    PROVE  TypeOK'
<1>1. CASE CheckRunDir(x)
  BY <1>1 DEF CheckRunDir, TypeOK, storeVars, readerVars
<1>2. CASE OpenArtefact(x)
  <2>1. Torn \in Contents
    BY DEF Contents
  <2>2. files' \in [RunDirs -> [ArtefactNames -> Contents]]
    BY <1>2, <2>1, Place, OneFile DEF OpenArtefact
  <2> QED
    BY <1>2, <2>2 DEF OpenArtefact, TypeOK, readerVars
<1>3. CASE WriteArtefact(x)
  <2> DEFINE d == Dir(x, mode[x])
             n == Artefacts[pos[x]]
  <2>1. PICK c \in Written(x, files[d][n]) : files' = [files EXCEPT ![d][n] = c]
    BY <1>3 DEF WriteArtefact
  <2>2. d \in RunDirs /\ n \in ArtefactNames
    BY Place
  <2>3. c \in Contents
    BY <2>1, <2>2, WrittenType DEF TypeOK
  <2>4. files' \in [RunDirs -> [ArtefactNames -> Contents]]
    BY <2>1, <2>2, <2>3, OneFile
  <2> QED
    BY <1>3, <2>4, NextDirType DEF WriteArtefact, TypeOK, readerVars
<1>4. CASE OpenComparison(x)
  BY <1>4 DEF OpenComparison, TypeOK, readerVars, Contents
<1>5. CASE SaveComparison(x)
  BY <1>5, WrittenType DEF SaveComparison, TypeOK, readerVars
<1>6. CASE Die(x)
  BY <1>6 DEF Die, TypeOK, storeVars, readerVars
<1> QED
  BY <1>1, <1>2, <1>3, <1>4, <1>5, <1>6 DEF Save

\* What a step of x does to the files: nothing, or it writes the artefact
\* that x is at, which is there from then on.
LEMMA SaveFiles ==
    ASSUME TypeOK, NEW x \in Executions, Save(x)
    PROVE  \/ UNCHANGED files
           \/ /\ pc[x] = "write"
              /\ \E c \in {x, Torn} :
                   OnlyFile(Dir(x, mode[x]), Artefacts[pos[x]], c)
<1> DEFINE d == Dir(x, mode[x])
           n == Artefacts[pos[x]]
<1>1. d \in RunDirs /\ n \in ArtefactNames /\ Torn \in Contents /\ x \in Contents
  BY Place DEF Contents
<1>2. CASE OpenArtefact(x)
  <2>1. pc[x] = "write" /\ files' = [files EXCEPT ![d][n] = Torn]
    BY <1>2 DEF OpenArtefact
  <2>2. OnlyFile(d, n, Torn)
    BY <1>1, <2>1, OneFile
  <2> QED
    BY <2>1, <2>2
<1>3. CASE WriteArtefact(x)
  <2>1. pc[x] = "write"
    BY <1>3 DEF WriteArtefact
  <2>2. PICK c \in Written(x, files[d][n]) : files' = [files EXCEPT ![d][n] = c]
    BY <1>3 DEF WriteArtefact
  <2>3. c \in {x, Torn}
    BY <2>2 DEF Written
  <2>4. OnlyFile(d, n, c)
    BY <1>1, <2>2, <2>3, OneFile
  <2> QED
    BY <2>1, <2>3, <2>4
<1>4. UNCHANGED files \/ OpenArtefact(x) \/ WriteArtefact(x)
  BY DEF Save, CheckRunDir, OpenComparison, SaveComparison, Die, storeVars
<1> QED
  BY <1>2, <1>3, <1>4

\* A directory that holds something always will.
LEMMA StaysNonEmpty ==
    ASSUME TypeOK, NEW x \in Executions, Save(x), NEW d \in RunDirs,
           NonEmpty(d)
    PROVE  NonEmpty(d)'
<1>1. PICK n \in ArtefactNames : files[d][n] # Absent
  BY DEF NonEmpty
<1>2. files'[d][n] # Absent
  BY <1>1, SaveFiles, StoreAssumption DEF OnlyFile
<1> QED
  BY <1>2 DEF NonEmpty

-----------------------------------------------------------------------------
(***************************************************************************)
(* Who is alone.                                                           *)
(***************************************************************************)

\* The steps of one execution leave those of another where they were.
LEMMA OthersWait ==
    ASSUME TypeOK, NEW x \in Executions, Save(x), NEW y \in Executions, y # x
    PROVE  /\ pc'[y] = pc[y] /\ mode'[y] = mode[y] /\ pos'[y] = pos[y]
           /\ opened'[y] = opened[y]
  BY DEF Save, CheckRunDir, OpenArtefact, WriteArtefact, NextDir,
         OpenComparison, SaveComparison, Die, TypeOK

\* An execution enters its directories in one way only, and never leaves.
LEMMA Entrance ==
    ASSUME TypeOK, NEW x \in Executions, Save(x)
    PROVE  /\ Entered(x) => Entered(x)'
           /\ ~Entered(x) /\ Entered(x)' => ~NonEmpty(Dir(x, "baseline"))
           /\ ~Entered(x) => UNCHANGED <<files, comparison>>
<1>1. CASE CheckRunDir(x)
  BY <1>1 DEF CheckRunDir, TypeOK, Entered, storeVars, Modes
<1>2. CASE OpenArtefact(x) \/ OpenComparison(x) \/ SaveComparison(x)
  BY <1>2 DEF OpenArtefact, OpenComparison, SaveComparison, TypeOK, Entered
<1>3. CASE WriteArtefact(x)
  BY <1>3 DEF WriteArtefact, NextDir, TypeOK, Entered
<1>4. CASE Die(x)
  BY <1>4 DEF Die, TypeOK, Entered
<1> QED
  BY <1>1, <1>2, <1>3, <1>4 DEF Save

\* Who is alone after a step was so before.
LEMMA WasAlone ==
    ASSUME TypeOK, NEW x \in Executions, Save(x), NEW y \in Executions,
           Alone(y)'
    PROVE  Alone(y)
<1>1. \A z \in Executions : Entered(z) => Entered(z)'
  BY Entrance, OthersWait DEF Entered
<1> QED
  BY <1>1 DEF Alone

\* Who is alone stays so once something of its baseline directory is written.
LEMMA StaysAlone ==
    ASSUME TypeOK, NEW x \in Executions, Save(x), NEW y \in Executions,
           Alone(y), NonEmpty(Dir(y, "baseline"))
    PROVE  Alone(y)'
<1>1. ASSUME NEW z \in Executions \ {y}, Stamp[z] = Stamp[y]
      PROVE  ~Entered(z)'
  <2>1. ~Entered(z)
    BY <1>1 DEF Alone
  <2>2. Dir(z, "baseline") = Dir(y, "baseline")
    BY <1>1 DEF Dir
  <2>3. CASE z = x
    BY <2>1, <2>2, <2>3, Entrance
  <2>4. CASE z # x
    BY <2>1, <2>4, OthersWait DEF Entered
  <2> QED
    BY <2>3, <2>4
<1> QED
  BY <1>1 DEF Alone

\* Nobody else writes into the directories of who is alone.
LEMMA OthersKeepOff ==
    ASSUME TypeOK, NEW x \in Executions, Save(x),
           NEW y \in Executions, y # x, Alone(y)
    PROVE  \A m \in Modes, n \in ArtefactNames :
             files'[Dir(y, m)][n] = files[Dir(y, m)][n]
<1> SUFFICES ASSUME NEW m \in Modes, NEW n \in ArtefactNames, ~UNCHANGED files
             PROVE  files'[Dir(y, m)][n] = files[Dir(y, m)][n]
  OBVIOUS
<1>1. Entered(x)
  BY Entrance
<1>2. Stamp[x] # Stamp[y]
  BY <1>1 DEF Alone
<1>3. Dir(y, m) # Dir(x, mode[x]) /\ Dir(y, m) \in RunDirs
  BY <1>2, DirsDiffer, Place
<1> QED
  BY <1>3, SaveFiles DEF OnlyFile

\* A file that an execution wrote while it was alone stays as it is, and the
\* execution alone.
LEMMA FilesStay ==
    ASSUME TypeOK, WriterInv, StartedInv, NEW x \in Executions, Save(x),
           NEW y \in Executions, NEW m \in Modes, NEW n \in ArtefactNames,
           Alone(y), files[Dir(y, m)][n] = y
    PROVE  Alone(y)' /\ files'[Dir(y, m)][n] = y
<1>1. Absent \notin Executions /\ Torn \notin Executions
  BY StoreAssumption
<1>2. NonEmpty(Dir(y, "baseline"))
  <2>1. NonEmpty(Dir(y, m))
    BY <1>1 DEF NonEmpty
  <2>2. Stamp[y] \in Stamps
    BY StoreAssumption
  <2> QED
    BY <2>1, <2>2 DEF StartedInv, Dir, Modes
<1>3. Alone(y)'
  BY <1>2, StaysAlone
<1>4. CASE y # x
  BY <1>3, <1>4, OthersKeepOff
<1>5. CASE y = x
  <2>1. UNCHANGED files \/
        (pc[x] = "write" /\ \E c \in {x, Torn} :
           OnlyFile(Dir(x, mode[x]), Artefacts[pos[x]], c))
    BY SaveFiles
  <2>2. pc[x] = "write" =>
          Dir(y, m) # Dir(x, mode[x]) \/ n # Artefacts[pos[x]]
    BY <1>1, <1>5, WriteIsFirst
  <2>3. Dir(y, m) \in RunDirs
    BY DirsDiffer
  <2> QED
    BY <1>3, <2>1, <2>2, <2>3 DEF OnlyFile
<1> QED
  BY <1>3, <1>4, <1>5

\* The run of y is complete after the step.
Whole(y) == \A m \in Modes, n \in ArtefactNames : files'[Dir(y, m)][n] = y

\* A complete execution stays complete, and alone.
LEMMA StaysWhole ==
    ASSUME TypeOK, WriterInv, StartedInv, NEW x \in Executions, Save(x)
    PROVE  \A y \in Executions :
             Alone(y) /\ Complete(y) => Alone(y)' /\ Whole(y)
<1> SUFFICES ASSUME NEW y \in Executions, Alone(y), Complete(y)
             PROVE  Alone(y)' /\ Whole(y)
  OBVIOUS
<1>1. \A m \in Modes, n \in ArtefactNames :
        Alone(y)' /\ files'[Dir(y, m)][n] = y
  BY FilesStay DEF Complete
<1>2. "baseline" \in Modes /\ Artefacts[1] \in ArtefactNames
  BY ArtefactsDiffer DEF Modes
<1> QED
  BY <1>1, <1>2 DEF Whole

\* Where x is in its own directories after its step.
LEMMA OwnOrder ==
    ASSUME TypeOK, TypeOK', WriterInv,
           NEW x \in Executions, Alone(x), Save(x)
    PROVE  InOrder(x)'
<1> DEFINE F(m, i) == files[Dir(x, m)][Artefacts[i]]
           G(m, i) == files'[Dir(x, m)][Artefacts[i]]
           P(m, i) ==
             \/ pc'[x] \in {"compare", "saved"}
             \/ pc'[x] \in {"check", "write"} /\ mode'[x] = "mitigated"
                /\ m = "baseline"
             \/ pc'[x] = "write" /\ m = mode'[x] /\ i < pos'[x]
           A(m, i) ==
             \/ pc'[x] \in {"check", "write"} /\ mode'[x] = "baseline"
                /\ m = "mitigated"
             \/ pc'[x] = "check" /\ m = mode'[x]
             \/ pc'[x] = "write" /\ m = mode'[x] /\ i > pos'[x]
           Ordered ==
             /\ \A m \in Modes, i \in 1..5 :
                  /\ P(m, i) => G(m, i) = x
                  /\ A(m, i) => G(m, i) = Absent
                  /\ pc'[x] = "write" /\ m = mode'[x] /\ i = pos'[x] =>
                       G(m, i) = IF opened'[x] THEN Torn ELSE Absent
             /\ pc'[x] = "check" => ~opened'[x]
<1>a. \A i \in 1..5 : Artefacts[i] \in ArtefactNames
  BY ArtefactsDiffer
<1>b. mode[x] \in Modes /\ pos[x] \in 1..5 /\ Modes = {"baseline", "mitigated"}
  BY Place DEF Modes
<1>c. \A m \in Modes, i \in 1..5 :
        /\ Behind(x, m, i) => F(m, i) = x
        /\ Ahead(x, m, i) => F(m, i) = Absent
        /\ pc[x] = "write" /\ m = mode[x] /\ i = pos[x] =>
             F(m, i) = IF opened[x] THEN Torn ELSE Absent
  BY DEF WriterInv, InOrder
<1>d. pc[x] = "check" => ~opened[x]
  BY DEF WriterInv, InOrder
<1>e. UNCHANGED files => \A m \in Modes, i \in 1..5 : G(m, i) = F(m, i)
  OBVIOUS
<1>f. ASSUME NEW c, OnlyFile(Dir(x, mode[x]), Artefacts[pos[x]], c)
      PROVE  \A m \in Modes, i \in 1..5 :
               G(m, i) = IF m = mode[x] /\ i = pos[x] THEN c ELSE F(m, i)
  <2> SUFFICES ASSUME NEW m \in Modes, NEW i \in 1..5
               PROVE  G(m, i) = IF m = mode[x] /\ i = pos[x] THEN c ELSE F(m, i)
    OBVIOUS
  <2>1. CASE m = mode[x] /\ i = pos[x]
    BY <1>f, <2>1 DEF OnlyFile
  <2>2. CASE ~(m = mode[x] /\ i = pos[x])
    <3>1. /\ Dir(x, m) \in RunDirs /\ Artefacts[i] \in ArtefactNames
          /\ Dir(x, m) # Dir(x, mode[x]) \/ Artefacts[i] # Artefacts[pos[x]]
      BY <2>2, <1>a, <1>b, DirsDiffer, ArtefactsDiffer
    <3> QED
      BY <1>f, <2>2, <3>1 DEF OnlyFile
  <2> QED
    BY <2>1, <2>2
<1>g. Ordered => InOrder(x)'
  BY DEF InOrder, Behind, Ahead, Dir
<1> HIDE DEF F, G
<1>1. CASE CheckRunDir(x)
  <2>1. \A i \in 1..5 : Ahead(x, mode[x], i)
    BY <1>1 DEF CheckRunDir, Ahead
  <2>2. \A i \in 1..5 : F(mode[x], i) = Absent
    BY <1>b, <1>c, <2>1
  <2>3. ~NonEmpty(Dir(x, mode[x]))
    BY <2>2, ArtefactsDiffer DEF NonEmpty, F
  <2>4. /\ pc'[x] = "write" /\ pos'[x] = 1 /\ mode'[x] = mode[x]
        /\ opened'[x] = opened[x] /\ ~opened[x] /\ pc[x] = "check"
    BY <1>1, <1>d, <2>3 DEF CheckRunDir, TypeOK
  <2>5. \A m \in Modes, i \in 1..5 : G(m, i) = F(m, i)
    BY <1>1, <1>e DEF CheckRunDir, storeVars
  <2> QED
    BY <1>b, <1>c, <1>g, <2>4, <2>5 DEF Behind, Ahead
<1>2. CASE OpenArtefact(x)
  <2>1. /\ pc[x] = "write" /\ pc'[x] = pc[x] /\ pos'[x] = pos[x]
        /\ mode'[x] = mode[x] /\ ~opened[x] /\ opened'[x]
    BY <1>2 DEF OpenArtefact, TypeOK
  <2>2. OnlyFile(Dir(x, mode[x]), Artefacts[pos[x]], Torn)
    <3>1. Torn \in Contents /\ Dir(x, mode[x]) \in RunDirs
          /\ Artefacts[pos[x]] \in ArtefactNames
      BY Place DEF Contents
    <3>2. files' = [files EXCEPT ![Dir(x, mode[x])][Artefacts[pos[x]]] = Torn]
      BY <1>2 DEF OpenArtefact
    <3> QED
      BY <3>1, <3>2, OneFile
  <2>3. \A m \in Modes, i \in 1..5 :
          G(m, i) = IF m = mode[x] /\ i = pos[x] THEN Torn ELSE F(m, i)
    BY <1>f, <2>2
  <2> QED
    BY <1>b, <1>c, <1>g, <2>1, <2>3 DEF Behind, Ahead
<1>3. CASE WriteArtefact(x)
  <2>1. /\ pc[x] = "write" /\ (backend = "local" => opened[x])
        /\ ~opened'[x] /\ NextDir(x)
    BY <1>3 DEF WriteArtefact, TypeOK
  <2>3. OnlyFile(Dir(x, mode[x]), Artefacts[pos[x]], x)
    <3> DEFINE d == Dir(x, mode[x])
               n == Artefacts[pos[x]]
    <3>1. PICK c \in Written(x, files[d][n]) :
            files' = [files EXCEPT ![d][n] = c]
      BY <1>3 DEF WriteArtefact
    <3>2. c = x
      BY <2>1, <3>1, WriteIsFirst, StoreAssumption DEF Written
    <3>3. x \in Contents /\ d \in RunDirs /\ n \in ArtefactNames
      BY Place DEF Contents
    <3> QED
      BY <3>1, <3>2, <3>3, OneFile
  <2>4. \A m \in Modes, i \in 1..5 :
          G(m, i) = IF m = mode[x] /\ i = pos[x] THEN x ELSE F(m, i)
    BY <1>f, <2>3
  <2>5. CASE pos[x] < 5
    <3>1. /\ pc'[x] = "write" /\ mode'[x] = mode[x] /\ pos'[x] = pos[x] + 1
      BY <2>1, <2>5, ArtefactsDiffer DEF NextDir, TypeOK
    <3> QED
      BY <1>b, <1>c, <1>g, <2>1, <2>4, <3>1 DEF Behind, Ahead
  <2>6. CASE pos[x] = 5
    <3>1. /\ pc'[x] = IF mode[x] = "baseline" THEN "check" ELSE "compare"
          /\ mode'[x] = "mitigated" /\ pos'[x] = pos[x]
      BY <2>1, <2>6, ArtefactsDiffer DEF NextDir, TypeOK
    <3>2. \A i \in 1..5 : i < 5 \/ i = 5
      OBVIOUS
    <3> QED
      BY <1>b, <1>c, <1>g, <2>1, <2>4, <2>6, <3>1, <3>2 DEF Behind, Ahead
  <2> QED
    BY <1>b, <2>5, <2>6
<1>4. CASE OpenComparison(x) \/ SaveComparison(x)
  <2>1. /\ pc[x] = "compare" /\ pc'[x] \in {"compare", "saved"}
        /\ mode'[x] = mode[x] /\ pos'[x] = pos[x] /\ UNCHANGED files
    BY <1>4 DEF OpenComparison, SaveComparison, TypeOK
  <2> QED
    BY <1>b, <1>c, <1>e, <1>g, <2>1 DEF Behind, Ahead
<1>5. CASE Die(x)
  <2>1. pc'[x] = "dead"
    BY <1>5 DEF Die, TypeOK
  <2> QED
    BY <1>g, <2>1
<1> QED
  BY <1>1, <1>2, <1>3, <1>4, <1>5 DEF Save

LEMMA WriterStep ==
    ASSUME TypeOK, TypeOK', WriterInv, NEW x \in Executions, Save(x)
    PROVE  WriterInv'
<1> SUFFICES ASSUME NEW y \in Executions, Alone(y)' PROVE InOrder(y)'
  BY DEF WriterInv
<1>1. Alone(y)
  BY WasAlone
<1>2. CASE y = x
  BY <1>1, <1>2, OwnOrder
<1>3. CASE y # x
  <2>1. /\ pc'[y] = pc[y] /\ mode'[y] = mode[y] /\ pos'[y] = pos[y]
        /\ opened'[y] = opened[y]
    BY <1>3, OthersWait
  <2>2. \A m \in Modes, i \in 1..5 :
          files'[Dir(y, m)][Artefacts[i]] = files[Dir(y, m)][Artefacts[i]]
    BY <1>1, <1>3, OthersKeepOff, ArtefactsDiffer
  <2>3. InOrder(y)
    BY <1>1 DEF WriterInv
  <2> QED
    BY <2>1, <2>2, <2>3 DEF InOrder, Behind, Ahead, Dir
<1> QED
  BY <1>2, <1>3

\* The first directory is written before the second is entered.
LEMMA StartedStep ==
    ASSUME TypeOK, TypeOK', StartedInv, NEW x \in Executions, Save(x)
    PROVE  StartedInv'
<1>1. \A s \in Stamps, m \in Modes : <<s, m>> \in RunDirs
  BY DEF RunDirs
<1>2. "baseline" \in Modes /\ "mitigated" \in Modes
  BY DEF Modes
<1>3. ASSUME NEW y \in Executions, mode'[y] = "mitigated"
      PROVE  NonEmpty(Dir(y, "baseline"))'
  <2>1. Dir(y, "baseline") \in RunDirs
    BY <1>2, DirsDiffer
  <2>2. CASE mode[y] = "mitigated"
    <3>1. NonEmpty(Dir(y, "baseline"))
      BY <2>2 DEF StartedInv
    <3>2. NonEmpty(Dir(y, "baseline"))'
      BY <2>1, <3>1, StaysNonEmpty DEF NonEmpty, Dir
    <3> QED
      BY <3>2
  <2>3. CASE mode[y] # "mitigated"
    <3>1. y = x
      BY <1>3, <2>3, OthersWait
    <3>2. WriteArtefact(x) /\ mode[x] = "baseline"
      BY <1>3, <2>3, <3>1
         DEF Save, CheckRunDir, OpenArtefact, OpenComparison, SaveComparison,
             Die, TypeOK, Modes
    <3> DEFINE n == Artefacts[pos[x]]
    <3>3. n \in ArtefactNames
      BY Place
    <3>4. PICK c \in Written(x, files[Dir(x, "baseline")][n]) :
            files' = [files EXCEPT ![Dir(x, "baseline")][n] = c]
      BY <3>2 DEF WriteArtefact
    <3>5. c \in {x, Torn} /\ c \in Contents /\ c # Absent
      BY <3>4, StoreAssumption DEF Written, Contents
    <3>6. OnlyFile(Dir(x, "baseline"), n, c)
      BY <2>1, <3>1, <3>3, <3>4, <3>5, OneFile
    <3>7. files'[Dir(x, "baseline")][n] # Absent
      BY <3>5, <3>6 DEF OnlyFile
    <3> QED
      BY <3>1, <3>3, <3>7 DEF NonEmpty, Dir
  <2> QED
    BY <2>2, <2>3
<1>4. ASSUME NEW s \in Stamps, NonEmpty(<<s, "mitigated">>)'
      PROVE  NonEmpty(<<s, "baseline">>)'
  <2>1. CASE NonEmpty(<<s, "mitigated">>)
    <3>1. NonEmpty(<<s, "baseline">>)
      BY <2>1 DEF StartedInv
    <3> QED
      BY <1>1, <1>2, <3>1, StaysNonEmpty
  <2>2. CASE ~NonEmpty(<<s, "mitigated">>)
    <3>1. PICK n \in ArtefactNames :
            files'[<<s, "mitigated">>][n] # files[<<s, "mitigated">>][n]
      BY <1>4, <2>2 DEF NonEmpty
    <3>2. Dir(x, mode[x]) = <<s, "mitigated">>
      BY <1>1, <1>2, <3>1, SaveFiles DEF OnlyFile
    <3>3. mode[x] = "mitigated" /\ Stamp[x] = s
      BY <3>2 DEF Dir
    <3>4. NonEmpty(<<s, "baseline">>)
      BY <3>3 DEF StartedInv, Dir
    <3> QED
      BY <1>1, <1>2, <3>4, StaysNonEmpty
  <2> QED
    BY <2>1, <2>2
<1>5. \A y \in Executions :
        mode'[y] = "mitigated" => NonEmpty(Dir(y, "baseline"))'
  BY <1>3
<1> QED
  BY <1>4, <1>5 DEF StartedInv
-----------------------------------------------------------------------------
(***************************************************************************)
(* The pointer and the readers.                                            *)
(***************************************************************************)

\* y is alone after the step.
Solo(y) == \A z \in Executions \ {y} : Stamp[z] = Stamp[y] => ~Entered(z)'

LEMMA SoloIsAlone == \A y \in Executions : Solo(y) <=> Alone(y)'
  BY DEF Solo, Alone

\* An execution that has come to its comparison is complete.
LEMMA ComparesComplete ==
    ASSUME TypeOK, WriterInv, NEW x \in Executions, Alone(x), pc[x] = "compare"
    PROVE  Complete(x)
<1>1. \A m \in Modes, i \in 1..5 : files[Dir(x, m)][Artefacts[i]] = x
  BY DEF WriterInv, InOrder, Behind
<1> QED
  BY <1>1, ArtefactsDiffer DEF Complete

LEMMA PointerSaved ==
    ASSUME TypeOK, WriterInv, StartedInv, PointerInv, UNCHANGED backend,
           NEW x \in Executions, Save(x)
    PROVE  PointerInv'
<1>1. /\ comparison' \in Executions /\ Solo(comparison') => Whole(comparison')
      /\ backend = "minio" => comparison' # Torn
  <2>1. CASE OpenComparison(x)
    BY <2>1, StoreAssumption DEF OpenComparison
  <2>2. CASE SaveComparison(x)
    <3>1. comparison' \in {x, Torn} /\ (backend # "local" => comparison' = x)
      BY <2>2, WrittenType DEF SaveComparison, TypeOK
    <3>2. Solo(x) => Whole(x)
      BY <2>2, SoloIsAlone, WasAlone, ComparesComplete, StaysWhole
         DEF SaveComparison
    <3> QED
      BY <3>1, <3>2, StoreAssumption
  <2>3. CASE UNCHANGED comparison
    BY <2>3, SoloIsAlone, WasAlone, StaysWhole DEF PointerInv
  <2> QED
    BY <2>1, <2>2, <2>3
       DEF Save, CheckRunDir, OpenArtefact, WriteArtefact, Die, storeVars
<1> QED
  BY <1>1 DEF PointerInv, Complete, Whole, Dir, Solo, Alone, Entered

\* A reader leaves the store, the writers and the other readers alone.
LEMMA ReadOthers ==
    ASSUME TypeOK, NEW r \in Readers, Read(r)
    PROVE  /\ UNCHANGED <<storeVars, writerVars>>
           /\ \A s \in Readers \ {r} :
                rpc'[s] = rpc[s] /\ view'[s] = view[s] /\ zip'[s] = zip[s]
  BY DEF Read, ReadFails, LoadComparison, LoadManifest, LoadResults, LoadNext, LoadDataset,
         StartDownload, ZipComparison, ZipRuns, Respond, TypeOK,
         storeVars, writerVars

\* The next file of a complete run is there, and of the same run.
LEMMA LoadNextFinds ==
    ASSUME TypeOK, ReaderInv, NEW r \in Readers, rpc[r] = "loading",
           Alone(view[r][1]), LoadNext(r)
    PROVE  /\ view' = [view EXCEPT ![r] = Append(view[r], view[r][1])]
           /\ rpc' = [rpc EXCEPT ![r] = IF Len(view[r]) = 4 THEN "dataset"
                                        ELSE "loading"]
<1> DEFINE k == ReadOrder[Len(view[r])]
           c == files[Dir(view[r][1], k.mode)][k.name]
<1>1. view[r][1] \in Executions /\ Complete(view[r][1])
      /\ Len(view[r]) \in 1..4
  BY DEF ReaderInv, Reading
<1>2. \A i \in 1..4 : i = 1 \/ i = 2 \/ i = 3 \/ i = 4
  OBVIOUS
<1>3. \A i \in 1..4 : ReadOrder[i].mode \in Modes
                      /\ ReadOrder[i].name \in {"manifest", "results"}
  <2>1. /\ ReadOrder[1] = [mode |-> "baseline",  name |-> "manifest"]
        /\ ReadOrder[2] = [mode |-> "mitigated", name |-> "manifest"]
        /\ ReadOrder[3] = [mode |-> "baseline",  name |-> "results"]
        /\ ReadOrder[4] = [mode |-> "mitigated", name |-> "results"]
    BY DEF ReadOrder
  <2> QED
    BY <1>2, <2>1 DEF Modes
<1>4. {"manifest", "results"} \subseteq ArtefactNames
  <2>1. Artefacts[3] = "results" /\ Artefacts[5] = "manifest"
    BY DEF Artefacts
  <2>2. Artefacts[3] \in ArtefactNames /\ Artefacts[5] \in ArtefactNames
    BY ArtefactsDiffer
  <2> QED
    BY <2>1, <2>2
<1>5. c = view[r][1]
  BY <1>1, <1>3, <1>4 DEF Complete
<1>6. Len(ReadOrder) = 4
  BY DEF ReadOrder
<1> HIDE DEF c
<1>7. IF c \in Executions
      THEN /\ view' = [view EXCEPT ![r] = Append(view[r], c)]
           /\ rpc' = [rpc EXCEPT ![r] = IF Len(view[r]) = Len(ReadOrder)
                                        THEN "dataset" ELSE "loading"]
      ELSE /\ rpc' = [rpc EXCEPT ![r] = "error"]
           /\ UNCHANGED view
  BY DEF LoadNext, c
<1> QED
  BY <1>1, <1>5, <1>6, <1>7

\* The dataset of a complete run is there, and of the same run.
LEMMA LoadDatasetFinds ==
    ASSUME TypeOK, ReaderInv, NEW r \in Readers, Alone(view[r][1]),
           LoadDataset(r)
    PROVE  /\ view' = [view EXCEPT ![r] = Append(view[r], view[r][1])]
           /\ rpc' = [rpc EXCEPT ![r] = "view"]
<1>1. Complete(view[r][1])
  BY DEF LoadDataset, ReaderInv, Reading
<1>2. "baseline" \in Modes /\ "dataset_manifest" \in ArtefactNames
  <2>1. Artefacts[2] = "dataset_manifest" /\ Artefacts[2] \in ArtefactNames
    BY ArtefactsDiffer DEF Artefacts
  <2> QED
    BY <2>1 DEF Modes
<1>3. files[Dir(view[r][1], "baseline")]["dataset_manifest"] = view[r][1]
  BY <1>1, <1>2 DEF Complete
<1> QED
  BY <1>3 DEF LoadDataset

\* Any request goes on with one more part, or fails.
LEMMA LoadNextGoesOn ==
    ASSUME TypeOK, ReaderInv, NEW r \in Readers, rpc[r] = "loading", LoadNext(r)
    PROVE  \/ /\ \E c \in Executions :
                   view' = [view EXCEPT ![r] = Append(view[r], c)]
              /\ rpc' = [rpc EXCEPT ![r] = IF Len(view[r]) = 4 THEN "dataset"
                                           ELSE "loading"]
           \/ rpc' = [rpc EXCEPT ![r] = "error"] /\ UNCHANGED view
<1>1. Len(ReadOrder) = 4
  BY DEF ReadOrder
<1> QED
  BY <1>1 DEF LoadNext

LEMMA LoadDatasetGoesOn ==
    ASSUME TypeOK, ReaderInv, NEW r \in Readers, LoadDataset(r)
    PROVE  /\ rpc' = [rpc EXCEPT ![r] = "view"]
           /\ \E c \in Contents :
                view' = [view EXCEPT ![r] = Append(view[r], c)]
<1>1. view[r][1] \in Executions
  BY DEF LoadDataset, ReaderInv, Reading
<1>2. Dir(view[r][1], "baseline") \in RunDirs
  BY <1>1, DirsDiffer DEF Modes
<1>3. "dataset_manifest" \in ArtefactNames
  <2>1. Artefacts[2] = "dataset_manifest" /\ Artefacts[2] \in ArtefactNames
    BY ArtefactsDiffer DEF Artefacts
  <2> QED
    BY <2>1
<1>4. files[Dir(view[r][1], "baseline")]["dataset_manifest"] \in Contents
  BY <1>2, <1>3 DEF TypeOK
<1> QED
  BY <1>4 DEF LoadDataset

\* A request that goes on has one more part, the same first, and only parts
\* of one run if the new one is.
LEMMA OneMore ==
    ASSUME TypeOK, ReaderInv, NEW r \in Readers, rpc[r] \in Reading,
           NEW c \in Contents, view' = [view EXCEPT ![r] = Append(view[r], c)]
    PROVE  /\ view'[r] \in Seq(Contents) /\ view'[r] # <<>>
           /\ view'[r][1] = view[r][1]
           /\ Len(view'[r]) = Len(view[r]) + 1
           /\ Alone(view[r][1]) /\ c = view[r][1] =>
                \A i \in 1..Len(view'[r]) : view'[r][i] = view'[r][1]
           /\ view' \in [Readers -> Seq(Contents)]
<1> DEFINE s == view[r]
           t == Append(s, c)
<1>1. /\ s \in Seq(Contents) /\ s # <<>>
      /\ Alone(s[1]) => \A i \in 1..Len(s) : s[i] = s[1]
  BY DEF TypeOK, ReaderInv
<1>2. Len(s) \in Nat \ {0}
  BY <1>1, EmptySeq, LenProperties
<1>5. view' = [view EXCEPT ![r] = t] /\ view[r] = s
  OBVIOUS
<1> HIDE DEF s
<1>3. /\ t \in Seq(Contents) /\ t # <<>> /\ Len(t) = Len(s) + 1
      /\ \A i \in 1..Len(s) : t[i] = s[i]
      /\ t[Len(s) + 1] = c
  BY <1>1, AppendProperties
<1> HIDE DEF t
<1>4. t[1] = s[1] /\ (Alone(s[1]) /\ c = s[1] => \A i \in 1..Len(t) : t[i] = t[1])
  <2>1. \A i \in 1..Len(t) : i \in 1..Len(s) \/ i = Len(s) + 1
    BY <1>2, <1>3
  <2>2. 1 \in 1..Len(s)
    BY <1>2
  <2> QED
    BY <1>1, <1>3, <2>1, <2>2
<1>6. view'[r] = t /\ view' \in [Readers -> Seq(Contents)]
  BY <1>3, <1>5 DEF TypeOK
<1> QED
  BY <1>3, <1>4, <1>5, <1>6

\* A request whose run is alone goes on with one more part of it.
LEMMA OneMoreOfRun ==
    ASSUME TypeOK, ReaderInv, NEW r \in Readers, Alone(view[r][1]),
           (rpc[r] = "loading" /\ LoadNext(r)) \/ LoadDataset(r)
    PROVE  \A i \in 1..Len(view'[r]) : view'[r][i] = view'[r][1]
<1>1. view' = [view EXCEPT ![r] = Append(view[r], view[r][1])]
      /\ rpc[r] \in Reading
  BY LoadNextFinds, LoadDatasetFinds DEF LoadDataset, Reading
<1>2. view[r][1] \in Contents
  BY <1>1 DEF ReaderInv, Contents
<1> QED
  BY <1>1, <1>2, OneMore

\* An entry is a record of the bundle.
LEMMA EntryType ==
    ASSUME NEW r \in Readers, NEW i \in 1..10
    PROVE  /\ ZipOrder[i].mode \in Modes /\ ZipOrder[i].name \in ArtefactNames
           /\ Entry(r, ZipOrder[i]) \subseteq
                [mode : Modes, name : ArtefactNames, of : Contents]
<1>1. \A j \in 1..5 : Listing[j] \in ArtefactNames
  <2>1. \A j \in 1..5 : j = 1 \/ j = 2 \/ j = 3 \/ j = 4 \/ j = 5
    OBVIOUS
  <2>2. /\ Listing[1] = "dataset_manifest" /\ Listing[2] = "experiment"
        /\ Listing[3] = "manifest" /\ Listing[4] = "metrics"
        /\ Listing[5] = "results"
    BY DEF Listing
  <2>3. /\ Artefacts[1] = "experiment" /\ Artefacts[2] = "dataset_manifest"
        /\ Artefacts[3] = "results" /\ Artefacts[4] = "metrics"
        /\ Artefacts[5] = "manifest"
    BY DEF Artefacts
  <2>4. /\ Artefacts[1] \in ArtefactNames /\ Artefacts[2] \in ArtefactNames
        /\ Artefacts[3] \in ArtefactNames /\ Artefacts[4] \in ArtefactNames
        /\ Artefacts[5] \in ArtefactNames
    BY ArtefactsDiffer
  <2> QED
    BY <2>1, <2>2, <2>3, <2>4
<1>2. ZipOrder[i] = IF i <= 5 THEN [mode |-> "baseline", name |-> Listing[i]]
                    ELSE [mode |-> "mitigated", name |-> Listing[i - 5]]
  BY DEF ZipOrder
<1>3. (i <= 5 => i \in 1..5) /\ (~(i <= 5) => i - 5 \in 1..5)
  OBVIOUS
<1>4. ZipOrder[i].mode \in Modes /\ ZipOrder[i].name \in ArtefactNames
  BY <1>1, <1>2, <1>3 DEF Modes
<1> QED
  BY <1>4 DEF Entry

\* Every file of the two directories is listed.
LEMMA ListsAll ==
    \A m \in Modes, n \in ArtefactNames :
      \E i \in 1..10 : ZipOrder[i].mode = m /\ ZipOrder[i].name = n
<1> SUFFICES ASSUME NEW m \in Modes, NEW n \in ArtefactNames
             PROVE  \E i \in 1..10 : ZipOrder[i].mode = m /\ ZipOrder[i].name = n
  OBVIOUS
<1>1. \E j \in 1..5 : Listing[j] = n
  <2>1. \A j \in 1..5 : j = 1 \/ j = 2 \/ j = 3 \/ j = 4 \/ j = 5
    OBVIOUS
  <2>2. /\ Listing[1] = "dataset_manifest" /\ Listing[2] = "experiment"
        /\ Listing[3] = "manifest" /\ Listing[4] = "metrics"
        /\ Listing[5] = "results"
    BY DEF Listing
  <2>3. /\ Artefacts[1] = "experiment" /\ Artefacts[2] = "dataset_manifest"
        /\ Artefacts[3] = "results" /\ Artefacts[4] = "metrics"
        /\ Artefacts[5] = "manifest"
    BY DEF Artefacts
  <2>4. PICK j \in 1..5 : n = Artefacts[j]
    BY ArtefactsDiffer
  <2> QED
    BY <2>1, <2>2, <2>3, <2>4
<1>2. PICK j \in 1..5 : Listing[j] = n
  BY <1>1
<1>3. CASE m = "baseline"
  <2>1. j \in 1..10 /\ ZipOrder[j] = [mode |-> "baseline", name |-> Listing[j]]
    BY DEF ZipOrder
  <2> QED
    BY <1>2, <1>3, <2>1
<1>4. CASE m = "mitigated"
  <2>1. j + 5 \in 1..10 /\ ~(j + 5 <= 5) /\ (j + 5) - 5 = j
    OBVIOUS
  <2>2. ZipOrder[j + 5] = [mode |-> "mitigated", name |-> Listing[j]]
    BY <2>1 DEF ZipOrder
  <2> QED
    BY <1>2, <1>4, <2>1, <2>2
<1> QED
  BY <1>3, <1>4 DEF Modes

\* What a step of the download does to the bundle.
LEMMA ZipStep ==
    ASSUME TypeOK, BundleInv, NEW r \in Readers, ZipRuns(r)
    PROVE  LET k == zip[r].count + 1 IN
           /\ k \in 1..10 /\ zip[r].count \in 0..9
           /\ zip'[r].runs = zip[r].runs \cup Entry(r, ZipOrder[k])
           /\ zip'[r].count = k /\ zip'[r].comparison = zip[r].comparison
           /\ zip'[r] \in
                [comparison : Contents,
                 runs : SUBSET [mode : Modes, name : ArtefactNames,
                                of : Contents],
                 count : 0..10]
           /\ \A o \in Readers \ {r} : zip'[o] = zip[o]
           /\ zip' = [o \in Readers |-> zip'[o]]
<1> DEFINE k == zip[r].count + 1
           new == [zip[r] EXCEPT !.runs = @ \cup Entry(r, ZipOrder[k]),
                                 !.count = k]
<1>1. zip[r].count \in 0..9
  BY DEF BundleInv, ZipRuns
<1>2. k \in 1..10
  BY <1>1
<1>3. zip' = [zip EXCEPT ![r] = new]
  BY DEF ZipRuns
<1>4. zip[r] \in [comparison : Contents,
                  runs : SUBSET [mode : Modes, name : ArtefactNames,
                                 of : Contents],
                  count : 0..10]
  BY DEF TypeOK
<1>5. Entry(r, ZipOrder[k]) \subseteq
        [mode : Modes, name : ArtefactNames, of : Contents]
  BY <1>2, EntryType
<1> HIDE DEF k
<1>6. /\ new.runs = zip[r].runs \cup Entry(r, ZipOrder[k]) /\ new.count = k
      /\ new.comparison = zip[r].comparison
      /\ new \in [comparison : Contents,
                  runs : SUBSET [mode : Modes, name : ArtefactNames,
                                 of : Contents],
                  count : 0..10]
  <2> DEFINE z == zip[r]
             E == Entry(r, ZipOrder[k])
             T == [mode : Modes, name : ArtefactNames, of : Contents]
  <2>1. z \in [comparison : Contents, runs : SUBSET T, count : 0..10]
        /\ E \subseteq T /\ k \in 0..10
    BY <1>2, <1>4, <1>5
  <2> HIDE DEF z, E, T
  <2> DEFINE y == [z EXCEPT !.runs = @ \cup E, !.count = k]
  <2>2. /\ y.runs = z.runs \cup E /\ y.count = k
        /\ y.comparison = z.comparison
        /\ y \in [comparison : Contents, runs : SUBSET T, count : 0..10]
    BY <2>1
  <2>3. y = new
    BY DEF z, E
  <2> HIDE DEF y, new
  <2> QED
    BY <2>2, <2>3 DEF z, E, T
<1> HIDE DEF new
<1>7. zip'[r] = new /\ (\A o \in Readers \ {r} : zip'[o] = zip[o])
      /\ zip' = [o \in Readers |-> zip'[o]]
  BY <1>3 DEF TypeOK
<1> QED
  BY <1>1, <1>2, <1>6, <1>7 DEF k

LEMMA ReadType ==
    ASSUME TypeOK, ReaderInv, BundleInv, NEW r \in Readers, Read(r),
           UNCHANGED backend
    PROVE  TypeOK'
<1>0. CASE ReadFails(r)
  BY <1>0 DEF ReadFails, TypeOK, storeVars, writerVars
<1>1. CASE LoadComparison(r)
  <2>1. (IF comparison \in Executions THEN <<comparison>> ELSE <<>>)
          \in Seq(Contents)
    BY DEF TypeOK
  <2> QED
    BY <1>1, <2>1 DEF LoadComparison, TypeOK, storeVars, writerVars, Reading
<1>2. CASE rpc[r] = "loading" /\ LoadNext(r)
  <2>1. view' \in [Readers -> Seq(Contents)]
    <3>1. Executions \subseteq Contents
      BY DEF Contents
    <3>2. view \in [Readers -> Seq(Contents)]
      BY DEF TypeOK
    <3> QED
      BY <1>2, <3>1, <3>2, LoadNextGoesOn, OneMore DEF Reading
  <2>2. rpc' \in [Readers -> {"idle", "not_found", "error"}
                             \cup Reading \cup Returned]
    BY <1>2, LoadNextGoesOn DEF TypeOK, Reading
  <2> QED
    BY <1>2, <2>1, <2>2 DEF LoadNext, TypeOK, storeVars, writerVars
<1>3. CASE LoadDataset(r)
  <2>1. view' \in [Readers -> Seq(Contents)]
    BY <1>3, LoadDatasetGoesOn, OneMore DEF LoadDataset, Reading
  <2> QED
    BY <1>3, <2>1 DEF LoadDataset, TypeOK, storeVars, writerVars, Returned
<1>4. CASE StartDownload(r)
  <2>1. view[r][1] \in Executions
    BY <1>4 DEF StartDownload, ReaderInv, Returned
  <2> QED
    BY <1>4, <2>1
       DEF StartDownload, TypeOK, storeVars, writerVars, Returned
<1>5. CASE ZipComparison(r)
  <2>1. OnDisk(comparison) \in Contents
    BY DEF OnDisk, TypeOK, Contents
  <2> QED
    BY <1>5, <2>1
       DEF ZipComparison, TypeOK, storeVars, writerVars, Returned
<1>6. CASE ZipRuns(r)
  <2>1. zip' \in [Readers ->
          [comparison : Contents,
           runs : SUBSET [mode : Modes, name : ArtefactNames, of : Contents],
           count : 0..10]]
    <3>1. zip' = [o \in Readers |-> zip'[o]]
      BY <1>6, ZipStep
    <3>2. \A o \in Readers : zip'[o] \in
            [comparison : Contents,
             runs : SUBSET [mode : Modes, name : ArtefactNames, of : Contents],
             count : 0..10]
      BY <1>6, ZipStep DEF TypeOK
    <3> QED
      BY <3>1, <3>2
  <2> QED
    BY <1>6, <2>1 DEF ZipRuns, TypeOK, storeVars, writerVars, Returned
<1>7. CASE Respond(r)
  <2>1. <<>> \in Seq(Contents) /\ Absent \in Contents /\ 0 \in 0..10
    BY DEF Contents
  <2> QED
    BY <1>7, <2>1 DEF Respond, NoZip, TypeOK, storeVars, writerVars
<1> QED
  BY <1>0, <1>1, <1>2, <1>3, <1>4, <1>5, <1>6, <1>7
     DEF Read, LoadManifest, LoadResults

\* What a request has of its run, on its way.
Parts(s, p) ==
    /\ p \in Reading \cup Returned => s # <<>> /\ s[1] \in Executions
    /\ p = "loading" => Len(s) \in 1..4
    /\ p = "dataset" => Len(s) = 5
    /\ p \in Returned => Len(s) = 6
OneRun(s) == \A i \in 1..Len(s) : s[i] = s[1]

LEMMA ReaderParts ==
    ReaderInv <=>
      \A r \in Readers :
        /\ Parts(view[r], rpc[r])
        /\ rpc[r] \in Reading \cup Returned /\ Alone(view[r][1]) =>
             Complete(view[r][1]) /\ OneRun(view[r])
  BY DEF ReaderInv, Parts, OneRun

LEMMA NextReaderParts ==
    (\A r \in Readers :
       /\ Parts(view'[r], rpc'[r])
       /\ rpc'[r] \in Reading \cup Returned /\ Solo(view'[r][1]) =>
            Whole(view'[r][1]) /\ OneRun(view'[r])) => ReaderInv'
  BY DEF ReaderInv, Parts, OneRun, Solo, Alone, Entered, Whole, Complete, Dir

LEMMA ReaderSaved ==
    ASSUME TypeOK, WriterInv, StartedInv, ReaderInv,
           NEW x \in Executions, Save(x)
    PROVE  ReaderInv'
<1>1. UNCHANGED <<view, rpc>>
  BY DEF Save, CheckRunDir, OpenArtefact, WriteArtefact, OpenComparison,
         SaveComparison, Die, readerVars
<1>2. \A y \in Executions :
        /\ Solo(y) => Alone(y)
        /\ Alone(y) /\ Complete(y) => Whole(y)
  BY SoloIsAlone, WasAlone, StaysWhole
<1>3. \A r \in Readers :
        /\ Parts(view'[r], rpc'[r])
        /\ rpc'[r] \in Reading \cup Returned /\ Solo(view'[r][1]) =>
             Whole(view'[r][1]) /\ OneRun(view'[r])
  BY <1>1, <1>2, ReaderParts DEF Parts
<1> QED
  BY <1>3, NextReaderParts

LEMMA ReaderRead ==
    ASSUME TypeOK, PointerInv, ReaderInv, NEW r \in Readers, Read(r)
    PROVE  ReaderInv'
<1> DEFINE s == view'[r]
           p == rpc'[r]
<1>a. UNCHANGED <<files, pc, mode>> /\ \A o \in Readers \ {r} :
        rpc'[o] = rpc[o] /\ view'[o] = view[o]
  BY ReadOthers DEF storeVars, writerVars
<1>b. \A o \in Readers :
        /\ Parts(view[o], rpc[o])
        /\ rpc[o] \in Reading \cup Returned /\ Alone(view[o][1]) =>
             Complete(view[o][1]) /\ OneRun(view[o])
  BY ReaderParts
<1>c. "idle" \notin Reading \cup Returned /\ "error" \notin Reading \cup Returned
      /\ "not_found" \notin Reading \cup Returned
      /\ Reading \cap Returned = {}
  BY DEF Reading, Returned
<1>d. \A y : (Solo(y) <=> Alone(y)) /\ (Whole(y) <=> Complete(y))
  BY <1>a DEF Solo, Alone, Entered, Whole, Complete
<1>1. /\ Parts(s, p)
      /\ p \in Reading \cup Returned /\ Alone(s[1]) => Complete(s[1]) /\ OneRun(s)
  <2>0. \A q \in {"idle", "error", "not_found"} : Parts(s, q)
    BY <1>c DEF Parts, Reading
  <2>1. CASE LoadComparison(r)
    <3>1. CASE comparison \in Executions
      <4>1. p = "loading" /\ s = <<comparison>>
        BY <2>1, <3>1, StoreAssumption DEF LoadComparison, TypeOK
      <4>2. Alone(comparison) => Complete(comparison)
        BY <3>1 DEF PointerInv
      <4>3. <<comparison>>[1] = comparison /\ Len(<<comparison>>) = 1
            /\ <<comparison>> # <<>>
        OBVIOUS
      <4>4. Parts(<<comparison>>, "loading") /\ OneRun(<<comparison>>)
        BY <3>1, <4>3 DEF Parts, OneRun, Reading, Returned
      <4> QED
        BY <4>1, <4>2, <4>3, <4>4
    <3>2. CASE comparison \notin Executions
      <4>1. p \in {"not_found", "error"}
        BY <2>1, <3>2 DEF LoadComparison, TypeOK, Contents
      <4> QED
        BY <1>c, <2>0, <4>1
    <3> QED
      BY <3>1, <3>2
  <2>2. CASE rpc[r] = "loading" /\ LoadNext(r)
    <3>0. CASE p = "error"
      BY <1>c, <2>0, <3>0
    <3>1. CASE p # "error"
      <4>1. PICK c \in Executions : view' = [view EXCEPT ![r] = Append(view[r], c)]
        BY <2>2, <3>1, LoadNextGoesOn DEF TypeOK
      <4>2. c \in Contents /\ rpc[r] \in Reading
        BY <2>2 DEF Contents, Reading
      <4>3. /\ s # <<>> /\ s[1] = view[r][1] /\ Len(s) = Len(view[r]) + 1
        BY <4>1, <4>2, OneMore
      <4>4. p = IF Len(view[r]) = 4 THEN "dataset" ELSE "loading"
        BY <2>2, <3>1, LoadNextGoesOn DEF TypeOK
      <4>5. view[r][1] \in Executions /\ Len(view[r]) \in 1..4
            /\ (Alone(view[r][1]) => Complete(view[r][1]))
        BY <1>b, <2>2 DEF Parts, Reading
      <4>6. Alone(view[r][1]) => OneRun(s)
        BY <2>2, OneMoreOfRun DEF OneRun
      <4> DEFINE k == Len(view[r])
                 l == Len(s)
      <4>a. k \in 1..4 /\ l = k + 1 /\ p = IF k = 4 THEN "dataset" ELSE "loading"
        BY <4>3, <4>4, <4>5
      <4> HIDE DEF k, l, s, p
      <4>7. p = "loading" => l \in 1..4
        BY <4>a
      <4>8. p = "dataset" => l = 5
        BY <4>a
      <4> USE DEF l
      <4>9. p \notin Returned
        BY <4>a DEF Returned
      <4>10. Parts(s, p)
        BY <4>3, <4>5, <4>7, <4>8, <4>9 DEF Parts
      <4> QED
        BY <4>3, <4>5, <4>6, <4>10
    <3> QED
      BY <3>0, <3>1
  <2>3. CASE LoadDataset(r)
    <3>0. rpc[r] \in Reading /\ rpc[r] = "dataset"
      BY <2>3 DEF LoadDataset, Reading
    <3>1. /\ s # <<>> /\ s[1] = view[r][1] /\ Len(s) = Len(view[r]) + 1
      BY <2>3, <3>0, LoadDatasetGoesOn, OneMore
    <3>2. p = "view"
      BY <2>3, LoadDatasetGoesOn DEF TypeOK
    <3>3. view[r][1] \in Executions /\ Len(view[r]) = 5
          /\ (Alone(view[r][1]) => Complete(view[r][1]))
      BY <1>b, <3>0 DEF Parts
    <3>4. Alone(view[r][1]) => OneRun(s)
      BY <2>3, OneMoreOfRun DEF OneRun
    <3>5. Parts(s, p)
      BY <3>1, <3>2, <3>3 DEF Parts
    <3> QED
      BY <3>1, <3>3, <3>4, <3>5
  <2>4. CASE StartDownload(r) \/ ZipComparison(r) \/ ZipRuns(r)
    <3>1. s = view[r] /\ rpc[r] \in Returned
          /\ p \in Returned \cup {"error"}
      BY <2>4 DEF StartDownload, ZipComparison, ZipRuns, TypeOK, Returned
    <3>2. Parts(s, p)
      BY <1>b, <1>c, <2>0, <3>1 DEF Parts, Reading
    <3> QED
      BY <1>b, <1>c, <3>1, <3>2
  <2>5. CASE Respond(r) \/ ReadFails(r)
    <3>1. p \in {"idle", "error"}
      BY <2>5 DEF Respond, ReadFails, TypeOK
    <3> QED
      BY <1>c, <2>0, <3>1
  <2> QED
    BY <2>1, <2>2, <2>3, <2>4, <2>5 DEF Read, LoadManifest, LoadResults
<1>2. \A o \in Readers :
        /\ Parts(view'[o], rpc'[o])
        /\ rpc'[o] \in Reading \cup Returned /\ Solo(view'[o][1]) =>
             Whole(view'[o][1]) /\ OneRun(view'[o])
  BY <1>1, <1>a, <1>b, <1>d
<1> QED
  BY <1>2, NextReaderParts
-----------------------------------------------------------------------------
(***************************************************************************)
(* The bundles.                                                            *)
(***************************************************************************)

\* What a bundle of r holds when it is at p.
InBundle(z, s, p) ==
    /\ p \in {"idle", "not_found", "error", "view", "zip_comparison"}
         \cup Reading => z.runs = {} /\ z.count = 0
    /\ p = "zip_runs" => z.count \in 0..9
    /\ p = "zipped" => z.count = 10
    /\ p \in Returned /\ backend = "local" /\ Alone(s[1]) =>
         z.runs = Zipped(s[1], z.count)

LEMMA BundleParts ==
    BundleInv <=> \A r \in Readers : InBundle(zip[r], view[r], rpc[r])
  BY DEF BundleInv, InBundle

\* Readers are where they are, and who is alone was: so are the bundles.
LEMMA BundleSaved ==
    ASSUME TypeOK, ReaderInv, BundleInv, UNCHANGED backend,
           NEW x \in Executions, Save(x)
    PROVE  BundleInv'
<1>1. UNCHANGED <<rpc, view, zip>>
  BY DEF Save, CheckRunDir, OpenArtefact, WriteArtefact, OpenComparison,
         SaveComparison, Die, readerVars
<1>2. \A y \in Executions : Solo(y) => Alone(y)
  BY SoloIsAlone, WasAlone
<1>3. \A r \in Readers : rpc[r] \in Returned => view[r][1] \in Executions
  BY DEF ReaderInv
<1>4. \A r \in Readers :
        rpc'[r] \in Returned /\ backend' = "local" /\ Solo(view'[r][1]) =>
          zip'[r].runs = Zipped(view'[r][1], zip'[r].count)
  BY <1>1, <1>2, <1>3 DEF BundleInv
<1> QED
  BY <1>1, <1>4 DEF BundleInv, Zipped, Solo, Alone, Entered

\* A file more of a complete run is in the bundle.
LEMMA BundleGrows ==
    ASSUME TypeOK, ReaderInv, BundleInv, NEW r \in Readers, ZipRuns(r),
           backend = "local", Alone(view[r][1])
    PROVE  zip'[r].runs = Zipped(view[r][1], zip'[r].count)
<1> DEFINE x == view[r][1]
           k == zip[r].count + 1
           m == ZipOrder[k].mode
           n == ZipOrder[k].name
<1>1. rpc[r] = "zip_runs" /\ rpc[r] \in Returned
  BY DEF ZipRuns, Returned
<1>2. /\ x \in Executions /\ Complete(x) /\ Len(view[r]) = 6
      /\ \A i \in 1..Len(view[r]) : view[r][i] = x
  BY <1>1 DEF ReaderInv
<1>3. view[r][2] = x /\ view[r][3] = x
  BY <1>2
<1>4. k \in 1..10 /\ zip[r].count \in 0..9 /\ zip'[r].count = k
      /\ zip'[r].runs = zip[r].runs \cup Entry(r, ZipOrder[k])
  BY ZipStep
<1>5. m \in Modes /\ n \in ArtefactNames
  BY <1>4, EntryType
<1>6. x # Absent /\ x \in Contents
  BY <1>2, StoreAssumption DEF Contents
<1>7. OnDisk(files[Dir(x, m)][n]) = x
  BY <1>2, <1>5 DEF Complete, OnDisk
<1>8. Entry(r, ZipOrder[k]) = {[mode |-> m, name |-> n, of |-> x]}
  <2>1. view[r][IF m = "baseline" THEN 2 ELSE 3] = x
    BY <1>3
  <2>2. Entry(r, ZipOrder[k]) =
          {c \in [mode : {m}, name : {n}, of : Contents] :
             c.of = x /\ c.of # Absent}
    BY <1>7, <2>1 DEF Entry
  <2> HIDE DEF x, m, n
  <2> QED
    BY <1>6, <2>2
<1>9. zip[r].runs = Zipped(x, zip[r].count)
  BY <1>1 DEF BundleInv
<1>10. Zipped(x, k) = Zipped(x, zip[r].count)
                        \cup {[mode |-> m, name |-> n, of |-> x]}
  <2>1. \A i : i \in 1..k <=> i \in 1..zip[r].count \/ i = k
    BY <1>4
  <2> QED
    BY <2>1 DEF Zipped
<1> QED
  BY <1>4, <1>8, <1>9, <1>10

LEMMA BundleRead ==
    ASSUME TypeOK, ReaderInv, BundleInv, UNCHANGED backend,
           NEW r \in Readers, Read(r)
    PROVE  BundleInv'
<1> DEFINE z == zip'[r]
           s == view'[r]
           p == rpc'[r]
<1>a. UNCHANGED <<pc, mode>> /\ \A o \in Readers \ {r} :
        rpc'[o] = rpc[o] /\ view'[o] = view[o] /\ zip'[o] = zip[o]
  BY ReadOthers DEF writerVars
<1>b. \A o \in Readers : InBundle(zip[o], view[o], rpc[o])
  BY BundleParts
<1>c. /\ {"idle", "not_found", "error"} \cap Returned = {}
      /\ Reading \cap Returned = {} /\ Reading = {"loading", "dataset"}
      /\ Returned = {"view", "zip_comparison", "zip_runs", "zipped"}
  BY DEF Reading, Returned
<1>0. \A x : Zipped(x, 0) = {}
  BY DEF Zipped
<1>e. ASSUME NEW q \in {"idle", "not_found", "error", "view", "zip_comparison"}
                         \cup Reading,
             z.runs = {}, z.count = 0
      PROVE  InBundle(z, s, q)
  BY <1>0, <1>c, <1>e DEF InBundle
<1>1. InBundle(z, s, p)
  <2>1. CASE ReadFails(r) \/ LoadComparison(r)
               \/ (rpc[r] = "loading" /\ LoadNext(r)) \/ LoadDataset(r)
               \/ StartDownload(r)
    <3>1. zip'[r] = zip[r] /\ rpc[r] \in {"idle", "view"} \cup Reading
      BY <2>1 DEF ReadFails, LoadComparison, LoadNext, LoadDataset,
                  StartDownload, Reading
    <3>2. p \in {"idle", "not_found", "error", "view", "zip_comparison"}
                 \cup Reading
      BY <2>1, LoadNextGoesOn, LoadDatasetGoesOn
         DEF ReadFails, LoadComparison, StartDownload, TypeOK, Reading, Contents
    <3>3. z.runs = {} /\ z.count = 0
      BY <1>b, <3>1 DEF InBundle
    <3> QED
      BY <1>e, <3>2, <3>3
  <2>2. CASE ZipComparison(r)
    <3>1. rpc[r] = "zip_comparison" /\ p = "zip_runs"
          /\ z = [zip[r] EXCEPT !.comparison = OnDisk(comparison)]
      BY <2>2 DEF ZipComparison, TypeOK
    <3>2. zip[r].runs = {} /\ zip[r].count = 0
      BY <1>b, <3>1 DEF InBundle
    <3>3. z.runs = {} /\ z.count = 0
      <4>1. zip[r] \in [comparison : Contents,
                        runs : SUBSET [mode : Modes, name : ArtefactNames,
                                       of : Contents],
                        count : 0..10]
        BY DEF TypeOK
      <4> QED
        BY <3>1, <3>2, <4>1
    <3> QED
      BY <1>0, <1>c, <3>1, <3>3 DEF InBundle
  <2>3. CASE ZipRuns(r)
    <3>1. s = view[r] /\ rpc[r] = "zip_runs"
          /\ p = IF zip[r].count + 1 = 10 THEN "zipped" ELSE "zip_runs"
      BY <2>3 DEF ZipRuns, TypeOK
    <3>2. zip[r].count \in 0..9 /\ z.count = zip[r].count + 1
      BY <2>3, ZipStep
    <3>3. backend = "local" /\ Alone(s[1]) => z.runs = Zipped(s[1], z.count)
      BY <2>3, <3>1, BundleGrows
    <3>4. (p = "zip_runs" => z.count \in 0..9) /\ (p = "zipped" => z.count = 10)
      BY <3>1, <3>2
    <3>5. p \in {"zip_runs", "zipped"}
      BY <3>1
    <3> QED
      BY <1>c, <3>3, <3>4, <3>5 DEF InBundle
  <2>4. CASE Respond(r)
    <3>1. p = "idle" /\ z = NoZip
      BY <2>4 DEF Respond, TypeOK
    <3> QED
      BY <1>e, <3>1 DEF NoZip
  <2> QED
    BY <2>1, <2>2, <2>3, <2>4 DEF Read, LoadManifest, LoadResults
<1>2. \A o \in Readers : InBundle(zip'[o], view'[o], rpc'[o])
  BY <1>1, <1>a, <1>b
<1>3. \A y : Solo(y) <=> Alone(y)
  BY <1>a DEF Solo, Alone, Entered
<1> QED
  BY <1>2, <1>3 DEF BundleInv, InBundle, Zipped, Solo, Alone, Entered
-----------------------------------------------------------------------------
(***************************************************************************)
(* The invariant.                                                          *)
(***************************************************************************)

IInv == TypeOK /\ WriterInv /\ StartedInv /\ PointerInv /\ ReaderInv /\ BundleInv

\* IInv is an inductive invariant, whatever stamps the executions draw.
THEOREM Invariance == Spec => []IInv
<1>1. Init => IInv
  <2> SUFFICES ASSUME Init PROVE IInv
    OBVIOUS
  <2>1. TypeOK
    <3>1. <<>> \in Seq(Contents) /\ NoZip \in
            [comparison : Contents,
             runs : SUBSET [mode : Modes, name : ArtefactNames, of : Contents],
             count : 0..10]
      BY DEF NoZip, Contents
    <3>2. view \in [Readers -> Seq(Contents)]
      BY <3>1 DEF Init
    <3>3. zip \in [Readers ->
            [comparison : Contents,
             runs : SUBSET [mode : Modes, name : ArtefactNames, of : Contents],
             count : 0..10]]
      BY <3>1 DEF Init
    <3> QED
      BY <3>2, <3>3, StoreAssumption DEF Init, TypeOK, Contents, Modes
  <2>2. WriterInv
    <3>1. \A x \in Executions, m \in Modes, i \in 1..5 :
            files[Dir(x, m)][Artefacts[i]] = Absent
      BY DirsDiffer, ArtefactsDiffer DEF Init
    <3> QED
      BY <3>1 DEF Init, WriterInv, InOrder, Behind, Ahead, Modes
  <2>3. StartedInv
    BY DEF Init, StartedInv, NonEmpty, RunDirs, Modes
  <2>4. PointerInv /\ ReaderInv /\ BundleInv
    BY StoreAssumption
       DEF Init, PointerInv, ReaderInv, BundleInv, NoZip, Reading, Returned
  <2> QED
    BY <2>1, <2>2, <2>3, <2>4 DEF IInv
<1>2. IInv /\ [Next]_vars => IInv'
  <2> SUFFICES ASSUME IInv, [Next]_vars PROVE IInv'
    OBVIOUS
  <2>1. ASSUME NEW x \in Executions, Save(x), UNCHANGED backend PROVE IInv'
    <3>1. TypeOK'
      BY <2>1, SaveType DEF IInv
    <3> QED
      BY <2>1, <3>1, WriterStep, StartedStep, PointerSaved, ReaderSaved,
         BundleSaved DEF IInv
  <2>2. ASSUME NEW r \in Readers, Read(r), UNCHANGED backend PROVE IInv'
    <3>1. WriterInv' /\ StartedInv' /\ PointerInv'
      BY <2>2, ReadOthers
         DEF IInv, WriterInv, StartedInv, NonEmpty, InOrder, Behind, Ahead, Dir,
             Alone, Entered, PointerInv, Complete, storeVars, writerVars
    <3> QED
      BY <2>2, <3>1, ReadType, ReaderRead, BundleRead DEF IInv
  <2>3. CASE UNCHANGED vars
    <3>1. UNCHANGED <<backend, files, comparison, pc, mode, pos, opened, rpc,
                      view, zip, audit>>
      BY <2>3 DEF vars, storeVars, writerVars, readerVars
    <3>2. TypeOK'
      BY <3>1 DEF IInv, TypeOK
    <3>3. WriterInv' /\ StartedInv' /\ PointerInv'
      BY <3>1 DEF IInv, WriterInv, StartedInv, NonEmpty, InOrder, Behind,
           Ahead, Dir, Alone, Entered, PointerInv, Complete
    <3>4. ReaderInv' /\ BundleInv'
      BY <3>1 DEF IInv, ReaderInv, BundleInv, Alone, Entered, Complete, Dir
    <3> QED
      BY <3>2, <3>3, <3>4 DEF IInv
  <2> QED
    BY <2>1, <2>2, <2>3 DEF Next
<1> QED
  BY <1>1, <1>2, PTL DEF Spec

\* A bundle from the local backend holds every artefact of both runs of the
\* evidence that was loaded and audited.
THEOREM BundleWhole == Spec => []BundleHasRuns
<1>1. IInv => BundleHasRuns
  <2> SUFFICES ASSUME IInv, NEW r \in Readers, rpc[r] = "zipped",
                      backend = "local", Alone(view[r][1])
               PROVE  zip[r].runs = [mode : Modes, name : ArtefactNames,
                                     of : {view[r][1]}]
    BY DEF BundleHasRuns
  <2> DEFINE x == view[r][1]
  <2>1. zip[r].runs = Zipped(x, 10)
    BY DEF IInv, BundleInv, Returned
  <2>2. Zipped(x, 10) \subseteq [mode : Modes, name : ArtefactNames, of : {x}]
    <3>1. ASSUME NEW i \in 1..10
          PROVE  [mode |-> ZipOrder[i].mode, name |-> ZipOrder[i].name, of |-> x]
                   \in [mode : Modes, name : ArtefactNames, of : {x}]
      BY EntryType
    <3> HIDE DEF x
    <3> QED
      BY <3>1 DEF Zipped
  <2>3. ASSUME NEW c \in [mode : Modes, name : ArtefactNames, of : {x}]
        PROVE  c \in Zipped(x, 10)
    <3>1. PICK i \in 1..10 : ZipOrder[i].mode = c.mode /\ ZipOrder[i].name = c.name
      BY ListsAll
    <3> HIDE DEF x
    <3>2. c = [mode |-> ZipOrder[i].mode, name |-> ZipOrder[i].name, of |-> x]
      BY <3>1
    <3> QED
      BY <3>2 DEF Zipped
  <2> QED
    BY <2>1, <2>2, <2>3
<1> QED
  BY <1>1, Invariance, PTL

\* A file that an execution wrote while it was alone keeps its bytes, and
\* nobody enters its directories any more.
THEOREM EvidenceKept == Spec => EvidenceStays
<1> DEFINE Stays ==
      \A x \in Executions, m \in Modes, n \in ArtefactNames :
        Alone(x) /\ files[Dir(x, m)][n] = x =>
          (Alone(x) /\ files[Dir(x, m)][n] = x)'
<1>1. IInv /\ [Next]_vars => [Stays]_vars
  <2> SUFFICES ASSUME IInv, Next PROVE Stays
    OBVIOUS
  <2>1. ASSUME NEW x \in Executions, Save(x) PROVE Stays
    BY <2>1, FilesStay DEF IInv, Dir
  <2>2. ASSUME NEW r \in Readers, Read(r) PROVE Stays
    BY <2>2, ReadOthers
       DEF storeVars, writerVars, IInv, Alone, Entered, Dir
  <2> QED
    BY <2>1, <2>2 DEF Next
<1>2. Spec => [][Stays]_vars
  BY <1>1, Invariance, PTL DEF Spec
<1> QED
  BY <1>2 DEF EvidenceStays
-----------------------------------------------------------------------------
(***************************************************************************)
(* The refinement of EvidenceLedger: every step of an execution or of a    *)
(* request is a step of the ledger, or leaves the ledger as it is.         *)
(***************************************************************************)

\* The executions that are complete, the run the pointer leads to, and
\* whether two executions share their directories.
Completed == {x \in Executions : Alone(x) /\ Complete(x)}
Latest == IF comparison \in Executions /\ Alone(comparison) THEN comparison
          ELSE Absent
Collided == \E x \in Executions : Entered(x) /\ ~Alone(x)

\* A request that has begun returns parts of one run.
LEMMA ReturnsOneRun ==
    ASSUME ReaderInv, NEW r \in Readers, rpc[r] \in Reading \cup Returned,
           Alone(view[r][1])
    PROVE  RunOf(r) = view[r][1]
  BY DEF ReaderInv, RunOf

\* What the ledger's reader is while a request is at p with its run x, which
\* is alone (a) or not.
Phase(p, x, a) ==
    CASE p \in Reading /\ a  -> [phase |-> "reading", run |-> x]
      [] p \in Returned /\ a -> [phase |-> "returned", run |-> x]
      [] OTHER               -> [phase |-> "idle", run |-> Absent]

LEMMA ReaderPhase ==
    ReaderInv => LedgerReader =
      [r \in Readers |-> Phase(rpc[r], view[r][1], Alone(view[r][1]))]
<1> SUFFICES ASSUME ReaderInv
             PROVE  LedgerReader =
               [r \in Readers |-> Phase(rpc[r], view[r][1], Alone(view[r][1]))]
  OBVIOUS
<1>1. ASSUME NEW r \in Readers
      PROVE  (CASE rpc[r] \in {"loading", "dataset"} /\ Alone(view[r][1]) ->
                       [phase |-> "reading", run |-> RunOf(r)]
                [] rpc[r] \in {"view", "zip_comparison", "zip_runs", "zipped"}
                     /\ Alone(view[r][1]) ->
                       [phase |-> "returned", run |-> RunOf(r)]
                [] OTHER -> [phase |-> "idle", run |-> Absent])
             = Phase(rpc[r], view[r][1], Alone(view[r][1]))
  <2>1. CASE rpc[r] \in Reading /\ Alone(view[r][1])
    BY <2>1, ReturnsOneRun DEF Phase, Reading, Returned
  <2>2. CASE rpc[r] \in Returned /\ Alone(view[r][1])
    BY <2>2, ReturnsOneRun DEF Phase, Reading, Returned
  <2>3. CASE rpc[r] \notin Reading \cup Returned \/ ~Alone(view[r][1])
    BY <2>3 DEF Phase, Reading, Returned
  <2> QED
    BY <2>1, <2>2, <2>3
<1> QED
  BY <1>1 DEF LedgerReader

LEMMA NextReaderPhase ==
    ReaderInv' => LedgerReader' =
      [r \in Readers |-> Phase(rpc'[r], view'[r][1], Solo(view'[r][1]))]
<1>1. ReaderInv' =>
        (LedgerReader =
           [r \in Readers |-> Phase(rpc[r], view[r][1], Alone(view[r][1]))])'
  BY ReaderPhase, PTL
<1> QED
  BY <1>1 DEF Phase, Reading, Returned, Solo, Alone, Entered

\* An execution completes, or the complete ones are as before.
LEMMA CompletedStep ==
    ASSUME IInv, NEW x \in Executions, Save(x)
    PROVE  /\ Completed' = Completed \/ Completed' = Completed \cup {x}
           /\ UNCHANGED files => Completed' = Completed
<1> USE DEF IInv
<1>1. \A y \in Executions : Alone(y) /\ Complete(y) => Solo(y) /\ Whole(y)
  BY StaysWhole, SoloIsAlone
<1>2. \A y \in Executions : Solo(y) => Alone(y)
  BY WasAlone, SoloIsAlone
<1>3. \A y \in Executions : y # x /\ Alone(y) /\ Whole(y) => Complete(y)
  BY OthersKeepOff DEF Whole, Complete
<1>4. UNCHANGED files => \A y \in Executions : Whole(y) <=> Complete(y)
  BY DEF Whole, Complete
<1>5. Completed' = {y \in Executions : Solo(y) /\ Whole(y)}
  BY DEF Completed, Complete, Whole, Dir, Solo, Alone, Entered
<1> QED
  BY <1>1, <1>2, <1>3, <1>4, <1>5 DEF Completed

\* A complete pointer stays so while it is not moved, and who collided has.
LEMMA LatestStep ==
    ASSUME IInv, NEW x \in Executions, Save(x)
    PROVE  /\ UNCHANGED comparison => Latest' = Latest
           /\ Collided => Collided'
<1> USE DEF IInv
<1>1. Latest' = IF comparison' \in Executions /\ Solo(comparison')
                THEN comparison' ELSE Absent
  BY DEF Latest, Solo, Alone, Entered
<1>2. UNCHANGED comparison /\ comparison \in Executions =>
        (Solo(comparison) <=> Alone(comparison))
  BY StaysWhole, WasAlone, SoloIsAlone DEF PointerInv
<1>3. Collided => Collided'
  <2>1. \A y \in Executions : Entered(y) => Entered(y)'
    BY Entrance, OthersWait DEF Entered
  <2>2. \A y \in Executions : ~Alone(y) => ~(Alone(y)')
    BY WasAlone
  <2> QED
    BY <2>1, <2>2 DEF Collided
<1> QED
  BY <1>1, <1>2, <1>3 DEF Latest

\* The ledger's variables in one place.
LEMMA LedgerVars ==
    ASSUME ReaderInv, ReaderInv',
           Completed' = Completed, Latest' = Latest, Collided' = Collided,
           UNCHANGED backend,
           \A r \in Readers :
             Phase(rpc'[r], view'[r][1], Solo(view'[r][1]))
               = Phase(rpc[r], view[r][1], Alone(view[r][1]))
    PROVE  UNCHANGED Ledger!vars
  BY ReaderPhase, NextReaderPhase DEF Ledger!vars, Completed, Latest, Collided

LEMMA SaveImplements ==
    ASSUME IInv, ReaderInv', NEW x \in Executions, Save(x), UNCHANGED backend
    PROVE  [Ledger!Next]_(Ledger!vars)
<1> USE DEF IInv
<1>1. UNCHANGED <<rpc, view>>
  BY DEF Save, CheckRunDir, OpenArtefact, WriteArtefact, OpenComparison,
         SaveComparison, Die, readerVars
<1>2. \A r \in Readers :
        Phase(rpc'[r], view'[r][1], Solo(view'[r][1]))
          = Phase(rpc[r], view[r][1], Alone(view[r][1]))
  <2> SUFFICES ASSUME NEW r \in Readers
               PROVE  Phase(rpc'[r], view'[r][1], Solo(view'[r][1]))
                        = Phase(rpc[r], view[r][1], Alone(view[r][1]))
    OBVIOUS
  <2>1. CASE rpc[r] \in Reading \cup Returned
    <3>1. view[r][1] \in Executions
          /\ (Alone(view[r][1]) => Complete(view[r][1]))
      BY <2>1 DEF ReaderInv
    <3>2. Solo(view[r][1]) <=> Alone(view[r][1])
      BY <3>1, StaysWhole, WasAlone, SoloIsAlone
    <3>3. Solo(view[r][1]) = Alone(view[r][1])
      BY <3>2 DEF Solo, Alone
    <3> QED
      BY <1>1, <3>3
  <2>2. CASE rpc[r] \notin Reading \cup Returned
    BY <1>1, <2>2 DEF Phase
  <2> QED
    BY <2>1, <2>2
<1>3. LedgerReader' = LedgerReader
  BY <1>2, ReaderPhase, NextReaderPhase
<1>4. CASE UNCHANGED <<comparison, files>>
  <2>1. Latest' = Latest /\ Completed' = Completed /\ (Collided => Collided')
    BY <1>4, LatestStep, CompletedStep
  <2>2. CASE Collided' = Collided
    BY <1>2, <2>1, <2>2, LedgerVars
  <2>3. CASE Collided' # Collided
    <3>1. Collided' = TRUE
      BY <2>1, <2>3 DEF Collided
    <3>2. Ledger!Collide
      BY <1>3, <2>1, <3>1 DEF Ledger!Collide, Completed, Latest, Collided
    <3> QED
      BY <3>2 DEF Ledger!Next
  <2> QED
    BY <2>2, <2>3
<1>5. ASSUME ~UNCHANGED <<comparison, files>>
      PROVE  /\ Entered(x) /\ Collided' = Collided
             /\ \A y \in Executions : Alone(y)' <=> Alone(y)
  <2>1. Entered(x) /\ Entered(x)'
    BY <1>5, Entrance
  <2>2. \A y \in Executions : Entered(y)' <=> Entered(y)
    BY <2>1, OthersWait DEF Entered
  <2>3. \A y \in Executions : Alone(y)' <=> Alone(y)
    BY <2>2 DEF Alone
  <2>4. Collided' <=> Collided
    BY <2>2, <2>3 DEF Collided
  <2> QED
    BY <2>1, <2>3, <2>4 DEF Collided
<1>6. CASE UNCHANGED comparison /\ ~UNCHANGED files
  <2>1. Latest' = Latest /\ Collided' = Collided
    BY <1>5, <1>6, LatestStep
  <2>2. CASE Completed' = Completed
    BY <1>2, <2>1, <2>2, LedgerVars
  <2>3. CASE Completed' = Completed \cup {x}
    <3>1. Ledger!CompleteRun(x)
      BY <1>3, <2>1, <2>3
         DEF Ledger!CompleteRun, Completed, Latest, Collided
    <3> QED
      BY <3>1 DEF Ledger!Next
  <2> QED
    BY <2>2, <2>3, CompletedStep
<1>7. CASE OpenComparison(x) \/ SaveComparison(x)
  <2>1. UNCHANGED files /\ Completed' = Completed
    BY <1>7, CompletedStep DEF OpenComparison, SaveComparison
  <2>2. CASE UNCHANGED comparison
    BY <1>4, <2>1, <2>2
  <2>3. CASE ~UNCHANGED comparison
    <3>1. Collided' = Collided /\ Entered(x)
      BY <1>5, <2>3
    <3>2. Latest' = IF comparison' \in Executions /\ Solo(comparison')
                    THEN comparison' ELSE Absent
      BY DEF Latest, Solo, Alone, Entered
    <3>3. comparison' \in {x, Torn} /\ (backend # "local" => comparison' = x)
          /\ (comparison' = x => pc[x] = "compare")
      BY <1>7, WrittenType, StoreAssumption
         DEF OpenComparison, SaveComparison, TypeOK
    <3>4. CASE comparison' = x /\ Alone(x)
      <4>1. Latest' = x
        BY <1>5, <2>3, <3>2, <3>4, SoloIsAlone
      <4>2. x \in Completed
        BY <3>3, <3>4, ComparesComplete DEF Completed
      <4>3. Ledger!PublishRun(x)
        BY <1>3, <2>1, <3>1, <4>1, <4>2
           DEF Ledger!PublishRun, Completed, Latest, Collided
      <4> QED
        BY <4>3 DEF Ledger!Next
    <3>5. CASE comparison' # x \/ ~Alone(x)
      <4>1. Latest' = Absent
        BY <1>5, <2>3, <3>2, <3>3, <3>5, SoloIsAlone, StoreAssumption
      <4>2. backend # "minio" \/ Collided
        BY <3>1, <3>3, <3>5 DEF Collided, TypeOK
      <4>3. Ledger!LoseLatest
        BY <1>3, <2>1, <3>1, <4>1, <4>2
           DEF Ledger!LoseLatest, Completed, Latest, Collided
      <4> QED
        BY <4>3 DEF Ledger!Next
    <3> QED
      BY <3>4, <3>5
  <2> QED
    BY <2>2, <2>3
<1> QED
  BY <1>4, <1>6, <1>7
     DEF Save, CheckRunDir, OpenArtefact, WriteArtefact, Die, storeVars

\* One request moves from phase to phase of the ledger's reader.
LEMMA ReadImplements ==
    ASSUME IInv, ReaderInv', NEW r \in Readers, Read(r), UNCHANGED backend
    PROVE  [Ledger!Next]_(Ledger!vars)
<1> USE DEF IInv
<1> DEFINE old == Phase(rpc[r], view[r][1], Alone(view[r][1]))
           new == Phase(rpc'[r], view'[r][1], Alone(view'[r][1]))
           idle == [phase |-> "idle", run |-> Absent]
<1>1. UNCHANGED <<files, comparison, pc, mode>>
      /\ \A o \in Readers \ {r} : rpc'[o] = rpc[o] /\ view'[o] = view[o]
  BY ReadOthers DEF storeVars, writerVars
<1>2. Completed' = Completed /\ Latest' = Latest /\ Collided' = Collided
  BY <1>1 DEF Completed, Complete, Dir, Latest, Collided, Alone, Entered
<1>a. \A y : Solo(y) = Alone(y)
  BY <1>1 DEF Solo, Alone, Entered
<1>3. LedgerReader[r] = old /\ LedgerReader' = [LedgerReader EXCEPT ![r] = new]
  BY <1>1, <1>a, ReaderPhase, NextReaderPhase
<1>4. new = old => UNCHANGED Ledger!vars
  BY <1>1, <1>2, <1>a, LedgerVars
<1>5. \A p, x, a :
        /\ p \in Reading /\ a => Phase(p, x, a) = [phase |-> "reading", run |-> x]
        /\ p \in Returned /\ a => Phase(p, x, a) = [phase |-> "returned", run |-> x]
        /\ p \notin Reading \cup Returned \/ ~a => Phase(p, x, a) = idle
  BY DEF Phase, Reading, Returned
<1> HIDE DEF old, new
<1>6. ASSUME old = idle, Latest # Absent,
             new = [phase |-> "reading", run |-> Latest]
      PROVE  Ledger!Next
  <2>1. Ledger!BeginRead(r)
    BY <1>2, <1>3, <1>6
       DEF Ledger!BeginRead, Ledger!Idle, Completed, Latest, Collided
  <2> QED
    BY <2>1 DEF Ledger!Next
<1>7. ASSUME NEW x, old = [phase |-> "reading", run |-> x],
             new = [phase |-> "returned", run |-> x]
      PROVE  Ledger!Next
  <2>1. old.phase = "reading" /\ new = [old EXCEPT !.phase = "returned"]
    BY <1>7
  <2>2. Ledger!ReturnRead(r)
    BY <1>2, <1>3, <2>1 DEF Ledger!ReturnRead, Completed, Latest, Collided
  <2> QED
    BY <2>2 DEF Ledger!Next
<1>8. ASSUME NEW x, old = [phase |-> "returned", run |-> x], new = idle
      PROVE  Ledger!Next
  <2>1. old.phase = "returned"
    BY <1>8
  <2>2. Ledger!EndRead(r)
    BY <1>2, <1>3, <1>8, <2>1
       DEF Ledger!EndRead, Ledger!Idle, Completed, Latest, Collided
  <2> QED
    BY <2>2 DEF Ledger!Next
<1>14. ASSUME NEW x, old = [phase |-> "reading", run |-> x], new = idle,
              backend = "minio"
      PROVE  Ledger!Next
  <2>1. old.phase = "reading"
    BY <1>14
  <2>2. Ledger!FailRead(r)
    BY <1>2, <1>3, <1>14, <2>1
       DEF Ledger!FailRead, Ledger!Idle, Completed, Latest, Collided
  <2> QED
    BY <2>2 DEF Ledger!Next
<1> USE DEF old, new
<1>b. CASE view'[r] = view[r] /\ rpc'[r] = rpc[r]
  BY <1>4, <1>b
<1>c. CASE ReadFails(r)
  <2>1. rpc'[r] = "error" /\ backend = "minio"
        /\ rpc[r] \in {"idle"} \cup Reading
    BY <1>c DEF ReadFails, TypeOK, Reading
  <2>2. new = idle
    BY <1>5, <2>1 DEF Reading, Returned
  <2>3. CASE rpc[r] \in Reading /\ Alone(view[r][1])
    <3>1. old = [phase |-> "reading", run |-> view[r][1]]
      BY <1>5, <2>3
    <3> QED
      BY <1>14, <2>1, <2>2, <3>1
  <2>4. CASE rpc[r] = "idle" \/ ~Alone(view[r][1])
    <3>1. old = idle
      BY <1>5, <2>4 DEF Reading, Returned
    <3> QED
      BY <1>4, <2>2, <3>1
  <2> QED
    BY <2>1, <2>3, <2>4
<1>9. CASE LoadComparison(r)
  <2>1. old = idle
    BY <1>5, <1>9 DEF LoadComparison, Reading, Returned
  <2>2. CASE comparison \in Executions /\ Alone(comparison)
    <3>1. rpc'[r] = "loading" /\ view'[r] = <<comparison>>
          /\ Latest = comparison /\ Latest # Absent
      BY <1>9, <2>2, StoreAssumption DEF LoadComparison, TypeOK, Latest
    <3>2. new = [phase |-> "reading", run |-> Latest]
      <4>1. view'[r][1] = comparison /\ rpc'[r] \in Reading
        BY <3>1 DEF Reading
      <4>2. Alone(view'[r][1])
        BY <2>2, <4>1
      <4>3. new = [phase |-> "reading", run |-> view'[r][1]]
        BY <1>5, <4>1, <4>2
      <4> QED
        BY <3>1, <4>1, <4>3
    <3> QED
      BY <1>6, <2>1, <3>1, <3>2
  <2>3. CASE comparison \in Executions /\ ~Alone(comparison)
    <3>1. view'[r] = <<comparison>>
      BY <1>9, <2>3 DEF LoadComparison, TypeOK
    <3>2. new = idle
      BY <1>5, <2>3, <3>1
    <3> QED
      BY <1>4, <2>1, <3>2
  <2>4. CASE comparison \notin Executions
    <3>1. rpc'[r] \in {"not_found", "error"}
      BY <1>9, <2>4 DEF LoadComparison, TypeOK, Contents
    <3>2. new = idle
      BY <1>5, <3>1 DEF Reading, Returned
    <3> QED
      BY <1>4, <2>1, <3>2
  <2> QED
    BY <2>2, <2>3, <2>4
<1>10. CASE rpc[r] = "loading" /\ LoadNext(r)
  <2>1. CASE Alone(view[r][1])
    <3>1. view[r][1] \in Contents
      BY <1>10 DEF ReaderInv, Reading, Contents
    <3>2. view'[r][1] = view[r][1] /\ rpc'[r] \in Reading
      BY <1>10, <2>1, <3>1, LoadNextFinds, OneMore DEF TypeOK, Reading
    <3>3. rpc[r] \in Reading
      BY <1>10 DEF Reading
    <3>4. /\ old = [phase |-> "reading", run |-> view[r][1]]
          /\ new = [phase |-> "reading", run |-> view[r][1]]
      BY <1>5, <2>1, <3>2, <3>3
    <3> QED
      BY <1>4, <3>4
  <2>2. CASE ~Alone(view[r][1])
    <3>1. old = idle
      BY <1>5, <2>2
    <3>2. CASE rpc'[r] = "error"
      <4>1. new = idle
        BY <1>5, <3>2 DEF Reading, Returned
      <4> QED
        BY <1>4, <3>1, <4>1
    <3>3. CASE rpc'[r] # "error"
      <4>1. PICK c \in Executions : view' = [view EXCEPT ![r] = Append(view[r], c)]
        BY <1>10, <3>3, LoadNextGoesOn DEF TypeOK
      <4>2. view'[r][1] = view[r][1]
        BY <1>10, <4>1, OneMore DEF Contents, Reading
      <4>3. new = idle
        BY <1>5, <2>2, <4>2
      <4> QED
        BY <1>4, <3>1, <4>3
    <3> QED
      BY <3>2, <3>3
  <2> QED
    BY <2>1, <2>2
<1>11. CASE LoadDataset(r)
  <2>1. view'[r][1] = view[r][1] /\ rpc'[r] = "view" /\ rpc[r] = "dataset"
    <3>1. PICK c \in Contents : view' = [view EXCEPT ![r] = Append(view[r], c)]
      BY <1>11, LoadDatasetGoesOn
    <3>2. rpc[r] = "dataset" /\ rpc[r] \in Reading
      BY <1>11 DEF LoadDataset, Reading
    <3>3. rpc'[r] = "view"
      BY <1>11, LoadDatasetGoesOn DEF TypeOK
    <3> QED
      BY <3>1, <3>2, <3>3, OneMore
  <2>2. CASE Alone(view[r][1])
    <3>1. rpc[r] \in Reading /\ rpc'[r] \in Returned
      BY <2>1 DEF Reading, Returned
    <3>2. /\ old = [phase |-> "reading", run |-> view[r][1]]
          /\ new = [phase |-> "returned", run |-> view[r][1]]
      BY <1>5, <2>1, <2>2, <3>1
    <3> QED
      BY <1>7, <3>2
  <2>3. CASE ~Alone(view[r][1])
    BY <1>4, <1>5, <2>1, <2>3
  <2> QED
    BY <2>2, <2>3
<1>12. CASE StartDownload(r) \/ ZipComparison(r) \/ ZipRuns(r)
  <2>1. view'[r] = view[r] /\ rpc[r] \in Returned
        /\ rpc'[r] \in Returned \cup {"error"}
    BY <1>12 DEF StartDownload, ZipComparison, ZipRuns, TypeOK, Returned
  <2>2. CASE rpc'[r] \in Returned
    <3>1. new = old
      <4>1. CASE Alone(view[r][1])
        <5>1. view'[r][1] = view[r][1] /\ Alone(view'[r][1])
          BY <2>1, <4>1
        <5>2. new = [phase |-> "returned", run |-> view'[r][1]]
          BY <1>5, <2>2, <5>1
        <5>3. old = [phase |-> "returned", run |-> view[r][1]]
          BY <1>5, <2>1, <4>1
        <5> QED
          BY <5>1, <5>2, <5>3
      <4>2. CASE ~Alone(view[r][1])
        BY <1>5, <2>1, <2>2, <4>2
      <4> QED
        BY <4>1, <4>2
    <3> QED
      BY <1>4, <3>1
  <2>3. CASE rpc'[r] = "error"
    <3>1. new = idle
      BY <1>5, <2>3 DEF Reading, Returned
    <3>2. CASE Alone(view[r][1])
      <4>1. old = [phase |-> "returned", run |-> view[r][1]]
        BY <1>5, <2>1, <3>2
      <4> QED
        BY <1>8, <3>1, <4>1
    <3>3. CASE ~Alone(view[r][1])
      BY <1>4, <1>5, <3>1, <3>3
    <3> QED
      BY <3>2, <3>3
  <2> QED
    BY <2>1, <2>2, <2>3
<1>13. CASE Respond(r)
  <2>1. rpc'[r] = "idle" /\ rpc[r] \in {"view", "zipped", "not_found", "error"}
    BY <1>13 DEF Respond, TypeOK
  <2>2. new = idle
    BY <1>5, <2>1 DEF Reading, Returned
  <2>3. CASE rpc[r] \in Returned /\ Alone(view[r][1])
    <3>1. old = [phase |-> "returned", run |-> view[r][1]]
      BY <1>5, <2>3
    <3> QED
      BY <1>8, <2>2, <3>1
  <2>4. CASE rpc[r] \in {"not_found", "error"} \/ ~Alone(view[r][1])
    <3>1. old = idle
      BY <1>5, <2>4 DEF Reading, Returned
    <3> QED
      BY <1>4, <2>2, <3>1
  <2> QED
    BY <2>1, <2>3, <2>4 DEF Returned
<1> QED
  BY <1>c, <1>9, <1>10, <1>11, <1>12, <1>13 DEF Read, LoadManifest, LoadResults

\* Executions and the requests that read what they save implement the ledger:
\* a read of five files is atomic.
THEOREM ImplementsTheLedger == Spec => ImplementsLedger
<1>1. Init => Ledger!Init
  <2> SUFFICES ASSUME Init PROVE Ledger!Init
    OBVIOUS
  <2>1. Completed = {}
    <3>1. ASSUME NEW x \in Executions PROVE ~Complete(x)
      <4>1. "baseline" \in Modes /\ Artefacts[5] \in ArtefactNames
            /\ Dir(x, "baseline") \in RunDirs
        BY ArtefactsDiffer, DirsDiffer DEF Modes
      <4>2. files[Dir(x, "baseline")][Artefacts[5]] = Absent
        BY <4>1 DEF Init
      <4> QED
        BY <4>1, <4>2, StoreAssumption DEF Complete
    <3> QED
      BY <3>1 DEF Completed
  <2>2. LedgerReader = [r \in Readers |-> Ledger!Idle]
    BY DEF Init, LedgerReader, Ledger!Idle
  <2>3. Latest = Absent
    BY StoreAssumption DEF Init, Latest
  <2>4. Collided = FALSE
    BY DEF Init, Collided, Entered
  <2> QED
    BY <2>1, <2>2, <2>3, <2>4 DEF Ledger!Init, Completed, Latest, Collided
<1>2. IInv /\ IInv' /\ [Next]_vars => [Ledger!Next]_(Ledger!vars)
  <2> SUFFICES ASSUME IInv, IInv', [Next]_vars
               PROVE  [Ledger!Next]_(Ledger!vars)
    OBVIOUS
  <2>1. ReaderInv'
    BY DEF IInv
  <2>2. CASE Next
    BY <2>1, <2>2, SaveImplements, ReadImplements DEF Next
  <2>3. CASE UNCHANGED vars
    BY <2>3 DEF vars, storeVars, writerVars, readerVars, Ledger!vars, Complete,
                Dir, Alone, Entered, LedgerReader, RunOf
  <2> QED
    BY <2>2, <2>3
<1> QED
  BY <1>1, <1>2, Invariance, PTL DEF Spec, ImplementsLedger, Ledger!Spec
=============================================================================
