----------------------- MODULE ResearchAnalystProofs -----------------------
(***************************************************************************)
(* Proofs about ControlAssurance and ResearchAnalyst, for every number of  *)
(* runs, versions, scans, decisions and requests and every budget.         *)
(***************************************************************************)
EXTENDS ResearchAnalyst, FiniteSetTheorems, WellFoundedInduction, TLAPS

-----------------------------------------------------------------------------
(***************************************************************************)
(* Facts about the operators.                                              *)
(***************************************************************************)

LEMMA ScanOrderFacts ==
    /\ ScanOrder \in Seq(Triggers \ {"regression"})
    /\ Len(ScanOrder) \in Nat /\ Len(ScanOrder) >= 2
    /\ DOMAIN ScanOrder = 1..Len(ScanOrder)
    /\ \A k \in 1..Len(ScanOrder) :
         ScanOrder[k] \in Triggers /\ ScanOrder[k] # "regression"
    /\ \A t \in Triggers \ {"regression"} :
         \E k \in 1..Len(ScanOrder) : ScanOrder[k] = t
    /\ "regression" \in Triggers
<1> DEFINE T == {"scheduled", "version_change", "kev_state_change",
                 "epss_material_change", "advisory_update", "new_related_cve"}
<1>1. NewsTriggers \in Seq(T)
  BY AssuranceAssumption
<1>2. <<"scheduled", "version_change">> \in Seq(T)
  OBVIOUS
<1>3. /\ ScanOrder \in Seq(T)
      /\ Len(ScanOrder) = 2 + Len(NewsTriggers)
  <2> HIDE DEF T
  <2> QED
    BY <1>1, <1>2 DEF ScanOrder
<1>4. /\ Len(ScanOrder) \in Nat /\ Len(ScanOrder) >= 2
      /\ DOMAIN ScanOrder = 1..Len(ScanOrder)
  BY <1>1, <1>3
<1>5. \A k \in 1..Len(ScanOrder) : ScanOrder[k] \in T
  BY <1>3, <1>4
<1>6. "regression" \notin T
  OBVIOUS
<1>7. \A k \in 1..Len(ScanOrder) :
        ScanOrder[k] \in Triggers /\ ScanOrder[k] # "regression"
  BY <1>4, <1>5, <1>6 DEF Triggers
<1>8. ScanOrder \in Seq(Triggers \ {"regression"})
  BY <1>3, <1>7
<1> QED
  BY <1>4, <1>7, <1>8 DEF Triggers

LEMMA BoundedFacts ==
    {"overlap", "scan", "manual", "fail"} \subseteq BoundedEvents
  BY DEF BoundedEvents

\* What a step that spends does to the counters.
LEMMA SpendFacts ==
    ASSUME spent \in [BoundedEvents -> Nat], NEW K, Spend(K)
    PROVE  /\ spent' \in [BoundedEvents -> Nat]
           /\ \A k \in BoundedEvents :
                spent'[k] = IF k \in K THEN spent[k] + 1 ELSE spent[k]
<1> HIDE DEF BoundedEvents
<1>1. spent' = [k \in BoundedEvents |-> spent[k] + (IF k \in K THEN 1 ELSE 0)]
  BY DEF Spend
<1> QED
  BY <1>1

\* An IF in a record field is no obstacle: the counters either count or stay.
LEMMA CounterFacts ==
    ASSUME spent \in [BoundedEvents -> Nat], NEW K, Spend(K)
    PROVE  \A k \in {"overlap", "scan", "manual", "fail"} :
             /\ spent[k] \in Nat
             /\ k \in K => spent'[k] = spent[k] + 1
             /\ k \notin K => spent'[k] = spent[k]
  BY SpendFacts, BoundedFacts

\* The last two of a finite set of validations.
LEMMA LastTwoFacts ==
    ASSUME NEW S, IsFiniteSet(S), \A v \in S : v.at \in Nat,
           NEW p \in S, NEW l \in S,
           Cardinality(Before(l, S)) = Cardinality(S) - 1,
           Cardinality(Before(p, S)) = Cardinality(S) - 2
    PROVE  /\ p.at < l.at
           /\ Before(l, S) = S \ {l}
           /\ Before(p, S) = S \ {l, p}
<1> DEFINE L == Before(l, S)
           P == Before(p, S)
           n == Cardinality(S)
<1>1. L \subseteq S \ {l} /\ P \subseteq S \ {p}
  BY DEF Before
<1>2. n \in Nat /\ IsFiniteSet(S \ {l}) /\ Cardinality(S \ {l}) = n - 1
  BY FS_CardinalityType, FS_RemoveElement
<1>3. L = S \ {l}
  <2> HIDE DEF L, n
  <2>1. Cardinality(L) = Cardinality(S \ {l})
    BY <1>2 DEF L, n
  <2> QED
    BY <1>1, <1>2, <2>1, FS_Subset
<1>4. p.at < l.at
  <2>1. p # l
    <3>1. ASSUME p = l PROVE FALSE
      <4>1. n - 1 = n - 2
        BY <3>1
      <4> HIDE DEF n
      <4> QED
        BY <1>2, <4>1
    <3> QED
      BY <3>1
  <2>2. p \in L
    BY <1>3, <2>1
  <2> QED
    BY <2>2 DEF Before
<1>5. p # l /\ P \subseteq S \ {l, p}
  BY <1>1, <1>4 DEF Before
<1>6. /\ IsFiniteSet((S \ {l}) \ {p})
      /\ Cardinality((S \ {l}) \ {p}) = n - 2
      /\ (S \ {l}) \ {p} = S \ {l, p}
  <2>1. p \in S \ {l}
    BY <1>5
  <2>2. /\ IsFiniteSet((S \ {l}) \ {p})
        /\ Cardinality((S \ {l}) \ {p}) = Cardinality(S \ {l}) - 1
    BY <1>2, <2>1, FS_RemoveElement
  <2> HIDE DEF n
  <2>3. Cardinality(S \ {l}) - 1 = n - 2
    BY <1>2
  <2> QED
    BY <2>2, <2>3
<1>7. P = S \ {l, p}
  <2>1. Cardinality(P) = Cardinality(S \ {l, p})
    BY <1>6
  <2> HIDE DEF P
  <2> QED
    BY <1>5, <1>6, <2>1, FS_Subset
<1> QED
  BY <1>3, <1>4, <1>7

LEMMA LastTwoConverse ==
    ASSUME NEW S, IsFiniteSet(S), NEW p \in S, NEW l \in S, p # l,
           Before(l, S) = S \ {l}, Before(p, S) = S \ {l, p}
    PROVE  /\ Cardinality(Before(l, S)) = Cardinality(S) - 1
           /\ Cardinality(Before(p, S)) = Cardinality(S) - 2
<1> DEFINE n == Cardinality(S)
<1>1. n \in Nat /\ IsFiniteSet(S \ {l}) /\ Cardinality(S \ {l}) = n - 1
  BY FS_CardinalityType, FS_RemoveElement
<1>2. (S \ {l}) \ {p} = S \ {l, p} /\ p \in S \ {l}
  OBVIOUS
<1>3. Cardinality((S \ {l}) \ {p}) = Cardinality(S \ {l}) - 1
  BY <1>1, <1>2, FS_RemoveElement
<1>4. Cardinality(S \ {l, p}) = n - 2
  <2> DEFINE k == Cardinality(S \ {l})
  <2>1. Cardinality(S \ {l, p}) = k - 1
    BY <1>2, <1>3, Zenon
  <2>2. k = n - 1 /\ n \in Nat
    BY <1>1
  <2> HIDE DEF k, n
  <2> QED
    BY <2>1, <2>2
<1> HIDE DEF n
<1>5. Cardinality(S \ {l}) = Cardinality(S) - 1
  BY <1>1 DEF n
<1>6. Cardinality(S \ {l, p}) = Cardinality(S) - 2
  BY <1>4 DEF n
<1> QED
  BY <1>5, <1>6
-----------------------------------------------------------------------------
(***************************************************************************)
(* What the worker's steps do to its run.                                  *)
(***************************************************************************)

RunPcs == {"get", "insert", "stamp", "record", "compare", "find", "create",
           "done"}

\* Run r is now at pc, and no other run has moved.
RunTo(r, pc) ==
    /\ run' \in [Runs -> Waiting \cup BusyRun]
    /\ run'[r] \in BusyRun /\ run'[r].pc = pc
    /\ \A x \in Runs \ {r} : run'[x] = run[x]

\* Run r is still the same run.
Kept(r) ==
    /\ run[r].pc \notin {"waiting", "done"}
    /\ run'[r].label = run[r].label
    /\ run'[r].measure = run[r].measure
    /\ run'[r].known = run[r].known

LEMMA RunTypes ==
    ASSUME TypeOK, NEW r \in Runs
    PROVE  /\ run[r].pc = "waiting" => run[r] \in Waiting
           /\ run[r].pc # "waiting" => run[r] \in BusyRun
           /\ run[r].pc \in RunPcs \cup {"waiting"}
<1>1. run[r] \in Waiting \cup BusyRun
  BY DEF TypeOK
<1> QED
  BY <1>1 DEF Waiting, BusyRun, RunPcs

LEMMA SetRun ==
    ASSUME TypeOK, NEW r \in Runs, NEW q \in BusyRun,
           run' = [run EXCEPT ![r] = q]
    PROVE  RunTo(r, q.pc) /\ run'[r] = q
<1>1. run \in [Runs -> Waiting \cup BusyRun]
  BY DEF TypeOK
<1> HIDE DEF BusyRun, Waiting
<1> QED
  BY <1>1 DEF RunTo

LEMMA BusyExcept ==
    ASSUME NEW q \in BusyRun, NEW pc \in RunPcs, NEW row \in Labels \cup {"control"},
           NEW at \in Nat, NEW pair \in Pairs \cup {None}
    PROVE  LET n == [q EXCEPT !.pc = pc, !.row = row, !.at = at, !.pair = pair]
           IN /\ n \in BusyRun
              /\ n.pc = pc /\ n.row = row /\ n.at = at /\ n.pair = pair
              /\ n.label = q.label /\ n.measure = q.measure /\ n.known = q.known
<1> HIDE DEF Pairs
<1> QED
  BY DEF BusyRun, RunPcs

LEMMA GotoFacts ==
    ASSUME TypeOK, NEW r \in Runs, run[r].pc \notin {"waiting", "done"},
           NEW pc \in RunPcs, GotoRun(r, pc)
    PROVE  /\ RunTo(r, pc) /\ Kept(r)
           /\ run'[r].row = run[r].row /\ run'[r].at = run[r].at
           /\ run'[r].pair = run[r].pair
<1> DEFINE q == run[r]
           n == [q EXCEPT !.pc = pc]
<1>1. q \in BusyRun
  BY RunTypes
<1>2. n \in BusyRun /\ n.pc = pc /\ n.row = q.row /\ n.label = q.label
      /\ n.measure = q.measure /\ n.at = q.at /\ n.pair = q.pair
      /\ n.known = q.known
  <2> HIDE DEF q
  <2> QED
    BY <1>1 DEF BusyRun, RunPcs
<1>3. run' = [run EXCEPT ![r] = n]
  BY DEF GotoRun
<1> HIDE DEF n
<1>4. RunTo(r, pc) /\ run'[r] = n
  BY <1>2, <1>3, SetRun
<1> QED
  BY <1>2, <1>4 DEF Kept

LEMMA CompleteFacts ==
    ASSUME TypeOK, NEW r \in Runs, Complete(r)
    PROVE  /\ run[r].pc = "waiting"
           /\ RunTo(r, "get")
           /\ run'[r].row = "control" /\ run'[r].at = 0 /\ run'[r].pair = None
           /\ run'[r].known => {"control", run'[r].label} \subseteq rows
<1>1. PICK label \in Labels, m \in Measured :
        run' = [run EXCEPT ![r] =
                  [pc |-> "get", row |-> "control", label |-> label,
                   measure |-> m, at |-> 0, pair |-> None,
                   known |-> {"control", label} \subseteq rows]]
  BY DEF Complete
<1> DEFINE k == {"control", label} \subseteq rows
           n == [pc |-> "get", row |-> "control", label |-> label,
                 measure |-> m, at |-> 0, pair |-> None, known |-> k]
<1>2. k \in BOOLEAN
  OBVIOUS
<1>3. n \in BusyRun /\ n.pc = "get" /\ n.row = "control" /\ n.label = label
      /\ n.at = 0 /\ n.pair = None /\ n.known = k
  <2> HIDE DEF k
  <2> QED
    BY <1>2 DEF BusyRun
<1>4. run' = [run EXCEPT ![r] = n]
  BY <1>1
<1> HIDE DEF n
<1>5. RunTo(r, n.pc) /\ run'[r] = n
  BY <1>3, <1>4, SetRun
<1>6. run[r].pc = "waiting"
  BY DEF Complete
<1>7. RunTo(r, "get")
  BY <1>3, <1>5
<1> QED
  BY <1>3, <1>5, <1>6, <1>7

LEMMA BoundFacts ==
    ASSUME TypeOK, NEW r \in Runs, run[r].pc \in {"get", "insert"},
           run' = [run EXCEPT ![r] = Bound(@)]
    PROVE  /\ RunTo(r, "get") \/ RunTo(r, "stamp")
           /\ Kept(r)
           /\ run'[r].row \in {run[r].row, run[r].label}
<1> DEFINE q == run[r]
           n == Bound(q)
<1>1. q \in BusyRun
  BY RunTypes
<1>2. /\ n \in BusyRun /\ n.pc \in {"get", "stamp"} /\ n.label = q.label
      /\ n.measure = q.measure /\ n.known = q.known
      /\ n.row \in {q.row, q.label}
  <2> HIDE DEF q
  <2>1. CASE q.row = "control"
    <3>1. n = [q EXCEPT !.pc = "get", !.row = q.label]
      BY <2>1 DEF Bound
    <3> QED
      BY <1>1, <3>1 DEF BusyRun
  <2>2. CASE q.row # "control"
    <3>1. n = [q EXCEPT !.pc = "stamp"]
      BY <2>2 DEF Bound
    <3> QED
      BY <1>1, <3>1 DEF BusyRun
  <2> QED
    BY <2>1, <2>2
<1>3. run' = [run EXCEPT ![r] = n]
  BY DEF TypeOK
<1> HIDE DEF n
<1>4. RunTo(r, n.pc) /\ run'[r] = n
  BY <1>2, <1>3, SetRun
<1> QED
  BY <1>2, <1>4 DEF Kept

LEMMA StampFacts ==
    ASSUME TypeOK, NEW r \in Runs, Stamp(r)
    PROVE  /\ run[r].pc = "stamp"
           /\ RunTo(r, "record") /\ Kept(r)
           /\ run'[r].row = run[r].row /\ run'[r].at = clock + 1
<1> DEFINE q == run[r]
           n == [q EXCEPT !.pc = "record", !.at = clock + 1]
<1>1. q \in BusyRun /\ q.pc = "stamp" /\ clock + 1 \in Nat
  BY RunTypes DEF Stamp, TypeOK
<1>2. n \in BusyRun /\ n.pc = "record" /\ n.row = q.row /\ n.label = q.label
      /\ n.measure = q.measure /\ n.at = clock + 1 /\ n.known = q.known
  <2> HIDE DEF q
  <2> QED
    BY <1>1 DEF BusyRun
<1>3. run' = [run EXCEPT ![r] = n]
  BY DEF Stamp, TypeOK
<1> HIDE DEF n
<1>4. RunTo(r, "record") /\ run'[r] = n
  BY <1>2, <1>3, SetRun
<1> QED
  BY <1>1, <1>2, <1>4 DEF Kept

\* The comparison either ends the run or hands a regression on.
LEMMA CompareFacts ==
    ASSUME TypeOK, NEW r \in Runs, Compare(r)
    PROVE  /\ run[r].pc = "compare"
           /\ LastTwo(run[r].label) \subseteq Pairs
           /\ compared' = compared \cup LastTwo(run[r].label)
           /\ Kept(r)
           /\ run'[r].row = run[r].row
           /\ \/ /\ RunTo(r, "done")
                 /\ \A pr \in LastTwo(run[r].label) : ~Worse(pr)
              \/ /\ RunTo(r, "find")
                 /\ run'[r].pair \in LastTwo(run[r].label)
                 /\ Worse(run'[r].pair)
<1> DEFINE q == run[r]
           L == LastTwo(q.label)
           W == {pr \in L : detect_regressions(pr[1].measure, pr[2].measure)}
<1>1. q \in BusyRun /\ q.pc = "compare"
  BY RunTypes DEF Compare
<1>2. L \subseteq Pairs
  BY DEF LastTwo, LastTwoOf, SameVersion, TypeOK, Pairs
<1>3. /\ compared' = compared \cup L
      /\ \/ W = {} /\ GotoRun(r, "done")
         \/ \E pr \in W : run' = [run EXCEPT ![r].pc = "find", ![r].pair = pr]
  BY DEF Compare
<1>4. CASE W = {} /\ GotoRun(r, "done")
  <2>1. \A pr \in L : ~Worse(pr)
    BY <1>4 DEF Worse
  <2>2. RunTo(r, "done") /\ Kept(r) /\ run'[r].row = run[r].row
    BY <1>1, <1>4, GotoFacts DEF RunPcs
  <2> QED
    BY <1>1, <1>2, <1>3, <2>1, <2>2
<1>5. CASE \E pr \in W : run' = [run EXCEPT ![r].pc = "find", ![r].pair = pr]
  <2>1. PICK pr \in W : run' = [run EXCEPT ![r].pc = "find", ![r].pair = pr]
    BY <1>5
  <2>2. pr \in L /\ Worse(pr) /\ pr \in Pairs
    BY <1>2, <2>1 DEF Worse
  <2> DEFINE n == [q EXCEPT !.pc = "find", !.pair = pr]
  <2>3. n \in BusyRun /\ n.pc = "find" /\ n.row = q.row /\ n.label = q.label
        /\ n.measure = q.measure /\ n.pair = pr /\ n.known = q.known
    <3> HIDE DEF q
    <3> QED
      BY <1>1, <2>2 DEF BusyRun
  <2>4. run' = [run EXCEPT ![r] = n]
    BY <2>1 DEF TypeOK
  <2> HIDE DEF n
  <2>5. RunTo(r, "find") /\ run'[r] = n
    BY <2>3, <2>4, SetRun
  <2> QED
    BY <1>1, <1>2, <1>3, <2>2, <2>3, <2>5 DEF Kept
<1> QED
  BY <1>3, <1>4, <1>5
-----------------------------------------------------------------------------
(***************************************************************************)
(* What the steps of a scan do to it.                                      *)
(***************************************************************************)

\* A set of naturals with a bound has a greatest element.
LEMMA GreatestOfBounded ==
    ASSUME NEW Y \in SUBSET Nat, Y # {}, NEW n \in Nat, \A y \in Y : y <= n
    PROVE  \E x \in Y : \A y \in Y : y <= x
<1> DEFINE R == OpToRel(<, Nat)
           T == {n - y : y \in Y}
<1>1. T \subseteq Nat /\ T # {}
  <2>1. \A y \in Y : y \in Nat /\ n - y \in Nat
    OBVIOUS
  <2> QED
    BY <2>1
<1>2. PICK x \in T : \A y \in T : ~(<<y, x>> \in R)
  <2> HIDE DEF R, T
  <2>1. IsWellFoundedOn(R, Nat)
    BY NatLessThanWellFounded DEF R
  <2> QED
    BY <1>1, <2>1, WFMin
<1>3. \A y \in T : x <= y
  <2>1. \A y \in T : y \in Nat /\ x \in Nat
    BY <1>1, <1>2
  <2>2. \A y \in T : y < x => <<y, x>> \in R
    BY <2>1 DEF OpToRel
  <2> HIDE DEF R, T
  <2>3. \A y \in T : ~(y < x)
    BY <1>2, <2>2
  <2> QED
    BY <2>1, <2>3
<1>4. PICK y \in Y : x = n - y
  BY <1>2
<1>5. \A z \in Y : n - y <= n - z
  BY <1>3, <1>4
<1>6. \A z \in Y : z <= y
  BY <1>5
<1> QED
  BY <1>6

\* Of bounded stamps one is the latest.
LEMMA LatestOfBounded ==
    ASSUME NEW S, NEW n \in Nat, S # {},
           \A v \in S : v.at \in Nat /\ v.at <= n
    PROVE  \E v \in S : \A u \in S : u.at <= v.at
<1> DEFINE Y == {v.at : v \in S}
<1>1. Y \in SUBSET Nat /\ Y # {} /\ \A y \in Y : y <= n
  OBVIOUS
<1>2. \E x \in Y : \A y \in Y : y <= x
  <2> HIDE DEF Y
  <2> QED
    BY <1>1, GreatestOfBounded
<1> QED
  BY <1>2

LEMMA LatestCreated ==
    ASSUME NEW S, NEW n \in Nat, S # {},
           \A s \in S : s.created_at \in Nat /\ s.created_at <= n
    PROVE  \E s \in S : \A u \in S : u.created_at <= s.created_at
<1> DEFINE Y == {s.created_at : s \in S}
<1>1. Y \in SUBSET Nat /\ Y # {} /\ \A y \in Y : y <= n
  OBVIOUS
<1>2. \E x \in Y : \A y \in Y : y <= x
  <2> HIDE DEF Y
  <2> QED
    BY <1>1, GreatestOfBounded
<1> QED
  BY <1>2

BusyScanPcs == {"look", "find", "create", "failed", "done"}

\* Scan s is now q, and no other scan has moved.
ScanTo(s, q) ==
    /\ scan' \in [Scans -> IdleScan \cup BusyScan]
    /\ scan'[s] = q
    /\ \A x \in Scans \ {s} : scan'[x] = scan[x]

\* q sees what scan p has seen.
SameView(q, p) ==
    /\ q.due = p.due /\ q.found = p.found
    /\ q.validated = p.validated /\ q.latest = p.latest

LEMMA ScanTypes ==
    ASSUME TypeOK, NEW s \in Scans
    PROVE  /\ scan[s].pc = "waiting" => scan[s] \in IdleScan
           /\ scan[s].pc \notin {"waiting", "done"} => scan[s] \in BusyScan
           /\ scan[s].due \subseteq Triggers
<1>1. scan[s] \in IdleScan \cup BusyScan
  BY DEF TypeOK
<1> QED
  BY <1>1 DEF IdleScan, BusyScan

LEMMA SetScan ==
    ASSUME TypeOK, NEW s \in Scans, NEW q \in IdleScan \cup BusyScan,
           scan' = [scan EXCEPT ![s] = q]
    PROVE  ScanTo(s, q)
<1>1. scan \in [Scans -> IdleScan \cup BusyScan]
  BY DEF TypeOK
<1> HIDE DEF IdleScan, BusyScan
<1> QED
  BY <1>1 DEF ScanTo

LEMMA ScanGoto ==
    ASSUME NEW q \in BusyScan, NEW pc \in BusyScanPcs
    PROVE  LET n == [q EXCEPT !.pc = pc]
           IN /\ n \in BusyScan /\ n.pc = pc /\ n.pos = q.pos
              /\ SameView(n, q)
  BY DEF BusyScan, BusyScanPcs, SameView

LEMMA AdvanceFacts ==
    ASSUME NEW q \in BusyScan
    PROVE  /\ Advance(q) \in BusyScan /\ SameView(Advance(q), q)
           /\ \/ q.pos = Len(ScanOrder) /\ Advance(q).pc = "done"
              \/ /\ q.pos # Len(ScanOrder) /\ Advance(q).pc = "look"
                 /\ Advance(q).pos = q.pos + 1
<1>1. q.pos \in 1..Len(ScanOrder)
  BY DEF BusyScan
<1>2. CASE q.pos = Len(ScanOrder)
  <2>1. Advance(q) = [q EXCEPT !.pc = "done"]
    BY <1>2 DEF Advance
  <2> QED
    BY <1>2, <2>1, ScanGoto DEF BusyScanPcs
<1>3. CASE q.pos # Len(ScanOrder)
  <2> DEFINE k == q.pos + 1
             n == [q EXCEPT !.pc = "look", !.pos = k]
  <2>1. Advance(q) = n
    BY <1>3 DEF Advance
  <2>2. k \in 1..Len(ScanOrder)
    BY <1>1, <1>3, ScanOrderFacts
  <2>3. n \in BusyScan /\ SameView(n, q) /\ n.pc = "look" /\ n.pos = k
    <3> HIDE DEF k
    <3> QED
      BY <2>2 DEF BusyScan, SameView
  <2> QED
    BY <1>3, <2>1, <2>3
<1> QED
  BY <1>2, <1>3

LEMMA BeginScanFacts ==
    ASSUME TypeOK, StampInv, NEW s \in Scans, NEW found \in BOOLEAN,
           BeginScan(s, found)
    PROVE  /\ scan[s].pc = "waiting"
           /\ \E q \in IdleScan \cup BusyScan :
                /\ ScanTo(s, q)
                /\ \/ q.pc = "done" /\ q.due = {}
                   \/ /\ q \in BusyScan /\ q.pc = "look" /\ q.pos = 1
                      /\ q.due = {t \in Triggers : Due(q, t)}
<1>1. scan[s].pc = "waiting" /\ scan[s] \in IdleScan
  BY ScanTypes DEF BeginScan
<1>2. CASE validations = {}
  <2> DEFINE n == [scan[s] EXCEPT !.pc = "done"]
  <2>1. n \in IdleScan /\ n.pc = "done" /\ n.due = {}
    BY <1>1 DEF IdleScan
  <2>2. scan' = [scan EXCEPT ![s] = n]
    BY <1>2 DEF BeginScan, TypeOK
  <2> HIDE DEF n
  <2>3. ScanTo(s, n)
    BY <2>1, <2>2, SetScan
  <2> QED
    BY <1>1, <2>1, <2>3
<1>3. CASE validations # {}
  <2> DEFINE m == CHOOSE v \in validations : \A u \in validations : u.at <= v.at
             seen == {v.label : v \in validations}
             late == m.at
             q0 == [pc |-> "look", pos |-> 1, found |-> found, due |-> {},
                    validated |-> seen, latest |-> late]
             D == {t \in Triggers : Due(q0, t)}
             n == [q0 EXCEPT !.due = D]
  <2>1. m \in validations
    <3>1. \A v \in validations : v.at \in Nat /\ v.at <= clock
      BY DEF TypeOK, StampInv, ValidationRows
    <3>2. clock \in Nat
      BY DEF TypeOK
    <3>3. \E v \in validations : \A u \in validations : u.at <= v.at
      BY <1>3, <3>1, <3>2, LatestOfBounded
    <3> QED
      BY <3>3
  <2>2. late \in Nat /\ seen \subseteq Labels
    <3> HIDE DEF m
    <3> QED
      BY <2>1 DEF TypeOK, ValidationRows
  <2>3. D \subseteq Triggers /\ 1 \in 1..Len(ScanOrder)
    BY ScanOrderFacts
  <2>4. scan' = [scan EXCEPT ![s] = n]
    BY <1>3 DEF BeginScan
  <2> HIDE DEF m, late, seen
  <2>5. \A t : Due(n, t) <=> Due(q0, t)
    <3> HIDE DEF D
    <3> QED
      BY DEF Due
  <2>6. n.due = D
    <3> HIDE DEF D
    <3> QED
      OBVIOUS
  <2>7. n.due = {t \in Triggers : Due(n, t)}
    <3>1. D = {t \in Triggers : Due(n, t)}
      <4> HIDE DEF n, q0
      <4> QED
        BY <2>5
    <3> QED
      BY <2>6, <3>1
  <2> HIDE DEF D
  <2>8. n \in BusyScan /\ n.pc = "look" /\ n.pos = 1
    BY <2>2, <2>3 DEF BusyScan
  <2> HIDE DEF n
  <2>9. ScanTo(s, n)
    BY <2>4, <2>8, SetScan
  <2> QED
    BY <1>1, <2>7, <2>8, <2>9
<1> QED
  BY <1>2, <1>3

\* A look goes on to the next trigger unless this one is due.
LEMMA LookFacts ==
    ASSUME TypeOK, NEW s \in Scans, Look(s)
    PROVE  /\ scan[s] \in BusyScan /\ scan[s].pc = "look"
           /\ \E q \in BusyScan :
                /\ ScanTo(s, q) /\ SameView(q, scan[s])
                /\ \/ q.pc = "find" /\ q.pos = scan[s].pos
                   \/ ~Due(scan[s], ScanOrder[scan[s].pos])
                        /\ q = Advance(scan[s])
<1> DEFINE p == scan[s]
           t == ScanOrder[p.pos]
           n == IF Due(p, t) THEN [p EXCEPT !.pc = "find"] ELSE Advance(p)
<1>1. p \in BusyScan /\ p.pc = "look"
  BY ScanTypes DEF Look
<1>2. scan' = [scan EXCEPT ![s] = n]
  BY DEF Look
<1>3. CASE Due(p, t)
  <2> DEFINE m == [p EXCEPT !.pc = "find"]
  <2>1. m \in BusyScan /\ m.pc = "find" /\ m.pos = p.pos /\ SameView(m, p)
    BY <1>1, ScanGoto DEF BusyScanPcs
  <2>2. n \in BusyScan /\ n.pc = "find" /\ n.pos = p.pos /\ SameView(n, p)
    <3> HIDE DEF m
    <3>1. n = m
      BY <1>3 DEF m
    <3> QED
      BY <2>1, <3>1
  <2> HIDE DEF n
  <2>3. ScanTo(s, n)
    BY <1>2, <2>2, SetScan
  <2> QED
    BY <1>1, <2>2, <2>3
<1>4. CASE ~Due(p, t)
  <2>1. n = Advance(p)
    BY <1>4
  <2>2. n \in BusyScan /\ SameView(n, p)
    BY <1>1, <2>1, AdvanceFacts
  <2> HIDE DEF n
  <2>3. ScanTo(s, n)
    BY <1>2, <2>2, SetScan
  <2> QED
    BY <1>1, <1>4, <2>1, <2>2, <2>3
<1> QED
  BY <1>3, <1>4

LEMMA FindFacts ==
    ASSUME TypeOK, NEW s \in Scans, Find(s)
    PROVE  /\ scan[s] \in BusyScan /\ scan[s].pc = "find"
           /\ \E q \in BusyScan :
                /\ ScanTo(s, q) /\ SameView(q, scan[s])
                /\ \/ q.pc = "failed"
                   \/ /\ AlreadyPending(ScanOrder[scan[s].pos])
                      /\ q = Advance(scan[s])
                   \/ /\ ~Ambiguous(ScanOrder[scan[s].pos])
                      /\ ~AlreadyPending(ScanOrder[scan[s].pos])
                      /\ q.pc = "create" /\ q.pos = scan[s].pos
<1> DEFINE p == scan[s]
           t == ScanOrder[p.pos]
           n == IF Ambiguous(t) THEN [p EXCEPT !.pc = "failed"]
                ELSE IF AlreadyPending(t) THEN Advance(p)
                ELSE [p EXCEPT !.pc = "create"]
<1>1. p \in BusyScan /\ p.pc = "find"
  BY ScanTypes DEF Find
<1>2. scan' = [scan EXCEPT ![s] = n]
  BY DEF Find
<1>3. CASE Ambiguous(t)
  <2>1. n \in BusyScan /\ n.pc = "failed" /\ SameView(n, p)
    BY <1>1, <1>3, ScanGoto DEF BusyScanPcs
  <2> HIDE DEF n
  <2> QED
    BY <1>1, <1>2, <2>1, SetScan
<1>4. CASE ~Ambiguous(t) /\ AlreadyPending(t)
  <2>1. n = Advance(p)
    BY <1>4
  <2>2. n \in BusyScan /\ SameView(n, p)
    BY <1>1, <2>1, AdvanceFacts
  <2> HIDE DEF n
  <2> QED
    BY <1>1, <1>2, <1>4, <2>1, <2>2, SetScan
<1>5. CASE ~Ambiguous(t) /\ ~AlreadyPending(t)
  <2>1. n \in BusyScan /\ n.pc = "create" /\ n.pos = p.pos /\ SameView(n, p)
    BY <1>1, <1>5, ScanGoto DEF BusyScanPcs
  <2> HIDE DEF n
  <2> QED
    BY <1>1, <1>2, <1>5, <2>1, SetScan
<1> QED
  BY <1>3, <1>4, <1>5

LEMMA CreateFacts ==
    ASSUME TypeOK, NEW s \in Scans, Create(s)
    PROVE  /\ scan[s] \in BusyScan /\ scan[s].pc = "create"
           /\ ScanTo(s, Advance(scan[s]))
<1> DEFINE n == Advance(scan[s])
<1>1. scan[s] \in BusyScan /\ scan[s].pc = "create"
  BY ScanTypes DEF Create
<1>2. scan' = [scan EXCEPT ![s] = n]
  BY DEF Create, TypeOK
<1>3. n \in BusyScan
  BY <1>1, AdvanceFacts
<1> HIDE DEF n
<1>4. ScanTo(s, n)
  BY <1>2, <1>3, SetScan
<1> QED
  BY <1>1, <1>4 DEF n
-----------------------------------------------------------------------------
(***************************************************************************)
(* Types and stamps.                                                       *)
(***************************************************************************)

BaseInv == TypeOK /\ StampInv

\* What a step of the analyst is to the assurance record: time may pass, and
\* only counters of its own are spent.
Aside ==
    /\ UNCHANGED storeVars
    /\ clock' \in Nat /\ clock' >= clock
    /\ spent' \in [BoundedEvents -> Nat]
    /\ \A k \in {"overlap", "scan", "manual", "fail"} : spent'[k] = spent[k]

LEMMA AsideFacts ==
    ASSUME TypeOK, [AnalystNext]_allVars
    PROVE  (Next /\ UNCHANGED analystVars) \/ Aside
<1> HIDE DEF BoundedEvents
<1>1. clock \in Nat /\ spent \in [BoundedEvents -> Nat]
  BY DEF TypeOK
<1>2. ASSUME UNCHANGED storeVars, UNCHANGED spent,
             clock' = clock \/ clock' = clock + 1
      PROVE  Aside
  BY <1>1, <1>2 DEF Aside
<1>3. ASSUME UNCHANGED storeVars, clock' = clock \/ clock' = clock + 1,
             NEW K, K \cap {"overlap", "scan", "manual", "fail"} = {}, Spend(K)
      PROVE  Aside
  <2>1. \A k \in {"overlap", "scan", "manual", "fail"} : spent'[k] = spent[k]
    BY <1>1, <1>3, CounterFacts
  <2>2. spent' \in [BoundedEvents -> Nat]
    BY <1>1, <1>3, SpendFacts
  <2> QED
    BY <1>1, <1>3, <2>1, <2>2 DEF Aside
<1>4. CASE Next /\ UNCHANGED analystVars
  BY <1>4
<1>5. CASE Sync
  <2>1. UNCHANGED storeVars /\ clock' = clock + 1 /\ Spend({"sync"})
    BY <1>5 DEF Sync
  <2> QED
    BY <1>3, <2>1
<1>6. ASSUME NEW a \in AnalystRequests, Ask(a)
      PROVE  Aside
  <2>1. UNCHANGED storeVars /\ clock' = clock /\ Spend({"ask"})
    BY <1>6 DEF Ask
  <2> QED
    BY <1>3, <2>1
<1>7. ASSUME NEW a \in AnalystRequests, explain_regression(a)
      PROVE  Aside
  <2>1. UNCHANGED storeVars /\ clock' = clock /\ Spend({"explain"})
    BY <1>7 DEF explain_regression
  <2> QED
    BY <1>3, <2>1
<1>8. ASSUME NEW a \in AnalystRequests,
             ReadCandidates(a) \/ ReadPattern(a) \/ NoAnswer(a) \/ Answer(a)
               \/ save_assessment(a)
      PROVE  Aside
  <2>1. /\ UNCHANGED storeVars /\ UNCHANGED spent
        /\ clock' = clock \/ clock' = clock + 1
    BY <1>8 DEF ReadCandidates, ReadPattern, NoAnswer, Answer, save_assessment
  <2> QED
    BY <1>2, <2>1
<1>9. ASSUME NEW q \in Reviews,
             \/ \E s \in assessments : mark_assessment_reviewed(q, s)
             \/ AuditReview(q)
      PROVE  Aside
  <2>1. CASE AuditReview(q)
    <3>1. UNCHANGED storeVars /\ UNCHANGED spent /\ clock' = clock
      BY <2>1 DEF AuditReview
    <3> QED
      BY <1>2, <3>1
  <2>2. CASE \E s \in assessments : mark_assessment_reviewed(q, s)
    <3>1. UNCHANGED storeVars /\ clock' = clock /\ Spend({"review"})
      BY <2>2 DEF mark_assessment_reviewed
    <3> QED
      BY <1>3, <3>1
  <2> QED
    BY <1>9, <2>1, <2>2
<1>10. CASE UNCHANGED allVars
  <2>1. UNCHANGED storeVars /\ UNCHANGED spent /\ clock' = clock
    BY <1>10 DEF allVars, vars, storeVars
  <2> QED
    BY <1>2, <2>1
<1> QED
  BY <1>4, <1>5, <1>6, <1>7, <1>8, <1>9, <1>10 DEF AnalystNext

\* The steps of a worker.
RunStep(r) ==
    \/ Complete(r) \/ GetRow(r) \/ InsertRow(r) \/ Stamp(r)
    \/ record_validation(r) \/ Compare(r) \/ FindRegression(r)
    \/ CreateRegression(r) \/ Fail(r)

\* Where run r goes, whatever else a step of its worker does.
LEMMA RunMoves ==
    ASSUME TypeOK, NEW r \in Runs, RunStep(r)
    PROVE  /\ run' \in [Runs -> Waiting \cup BusyRun]
           /\ run'[r] \in BusyRun
           /\ \A x \in Runs \ {r} : run'[x] = run[x]
           /\ Complete(r) \/ Kept(r)
<1>1. CASE Complete(r)
  BY <1>1, CompleteFacts DEF RunTo
<1>2. CASE GetRow(r)
  <2>1. CASE run[r].row \in rows
    <3>1. run' = [run EXCEPT ![r] = Bound(@)] /\ run[r].pc = "get"
      BY <1>2, <2>1 DEF GetRow
    <3> QED
      BY <3>1, BoundFacts DEF RunTo
  <2>2. CASE run[r].row \notin rows
    <3>1. GotoRun(r, "insert") /\ run[r].pc = "get"
      BY <1>2, <2>2 DEF GetRow
    <3> QED
      BY <3>1, GotoFacts DEF RunTo, RunPcs
  <2> QED
    BY <2>1, <2>2
<1>3. CASE InsertRow(r)
  <2>1. CASE run[r].row \notin rows
    <3>1. run' = [run EXCEPT ![r] = Bound(@)] /\ run[r].pc = "insert"
      BY <1>3, <2>1 DEF InsertRow
    <3> QED
      BY <3>1, BoundFacts DEF RunTo
  <2>2. CASE run[r].row \in rows
    <3>1. GotoRun(r, "done") /\ run[r].pc = "insert"
      BY <1>3, <2>2 DEF InsertRow
    <3> QED
      BY <3>1, GotoFacts DEF RunTo, RunPcs
  <2> QED
    BY <2>1, <2>2
<1>4. CASE Stamp(r)
  BY <1>4, StampFacts DEF RunTo
<1>5. CASE Compare(r)
  BY <1>5, CompareFacts DEF RunTo
<1>6. CASE record_validation(r)
  <2>1. GotoRun(r, "compare") /\ run[r].pc = "record"
    BY <1>6 DEF record_validation
  <2> QED
    BY <2>1, GotoFacts DEF RunTo, RunPcs
<1>7. CASE FindRegression(r)
  <2>1. run[r].pc = "find" /\ (GotoRun(r, "done") \/ GotoRun(r, "create"))
    BY <1>7 DEF FindRegression
  <2> QED
    BY <2>1, GotoFacts DEF RunTo, RunPcs
<1>8. CASE CreateRegression(r)
  <2>1. GotoRun(r, "done") /\ run[r].pc = "create"
    BY <1>8 DEF CreateRegression
  <2> QED
    BY <2>1, GotoFacts DEF RunTo, RunPcs
<1>9. CASE Fail(r)
  <2>1. GotoRun(r, "done") /\ run[r].pc \notin {"waiting", "done"}
    BY <1>9 DEF Fail, Active
  <2> QED
    BY <2>1, GotoFacts DEF RunTo, RunPcs
<1> QED
  BY <1>1, <1>2, <1>3, <1>4, <1>5, <1>6, <1>7, <1>8, <1>9 DEF RunStep

\* By which step a run comes where it is.
LEMMA Arrivals ==
    ASSUME TypeOK, NEW r \in Runs, RunStep(r)
    PROVE  /\ run'[r].pc # "waiting"
           /\ run'[r].pc = "insert" => GetRow(r) /\ run[r].row \notin rows
           /\ run'[r].pc = "record" => Stamp(r)
           /\ run'[r].pc = "compare" => record_validation(r)
           /\ run'[r].pc = "find" => Compare(r)
           /\ run'[r].pc = "create" => FindRegression(r)
<1>1. CASE Complete(r)
  BY <1>1, CompleteFacts DEF RunTo
<1>2. CASE GetRow(r)
  <2>1. CASE run[r].row \in rows
    <3>1. run' = [run EXCEPT ![r] = Bound(@)] /\ run[r].pc = "get"
      BY <1>2, <2>1 DEF GetRow
    <3> QED
      BY <3>1, BoundFacts DEF RunTo
  <2>2. CASE run[r].row \notin rows
    <3>1. GotoRun(r, "insert") /\ run[r].pc = "get"
      BY <1>2, <2>2 DEF GetRow
    <3> QED
      BY <1>2, <2>2, <3>1, GotoFacts DEF RunTo, RunPcs
  <2> QED
    BY <2>1, <2>2
<1>3. CASE InsertRow(r)
  <2>1. CASE run[r].row \notin rows
    <3>1. run' = [run EXCEPT ![r] = Bound(@)] /\ run[r].pc = "insert"
      BY <1>3, <2>1 DEF InsertRow
    <3> QED
      BY <3>1, BoundFacts DEF RunTo
  <2>2. CASE run[r].row \in rows
    <3>1. GotoRun(r, "done") /\ run[r].pc = "insert"
      BY <1>3, <2>2 DEF InsertRow
    <3> QED
      BY <3>1, GotoFacts DEF RunTo, RunPcs
  <2> QED
    BY <2>1, <2>2
<1>4. CASE Stamp(r)
  BY <1>4, StampFacts DEF RunTo
<1>5. CASE Compare(r)
  BY <1>5, CompareFacts DEF RunTo
<1>6. CASE record_validation(r)
  <2>1. GotoRun(r, "compare") /\ run[r].pc = "record"
    BY <1>6 DEF record_validation
  <2> QED
    BY <1>6, <2>1, GotoFacts DEF RunTo, RunPcs
<1>7. CASE FindRegression(r)
  <2>1. run[r].pc = "find" /\ (GotoRun(r, "done") \/ GotoRun(r, "create"))
    BY <1>7 DEF FindRegression
  <2> QED
    BY <1>7, <2>1, GotoFacts DEF RunTo, RunPcs
<1>8. CASE CreateRegression(r) \/ Fail(r)
  <2>1. run[r].pc \notin {"waiting", "done"} /\ GotoRun(r, "done")
    BY <1>8 DEF CreateRegression, Fail, Active
  <2> QED
    BY <2>1, GotoFacts DEF RunTo, RunPcs
<1> QED
  BY <1>1, <1>2, <1>3, <1>4, <1>5, <1>6, <1>7, <1>8 DEF RunStep

\* The validation that run r records.
NewValidation(r) ==
    [run |-> r, label |-> run[r].label, measure |-> run[r].measure,
     at |-> run[r].at]

LEMMA RecordFacts ==
    ASSUME TypeOK, NEW r \in Runs, record_validation(r)
    PROVE  /\ run[r].pc = "record" /\ RunTo(r, "compare") /\ Kept(r)
           /\ validations' = validations \cup {NewValidation(r)}
           /\ NewValidation(r) \in ValidationRows
           /\ NewValidation(r).label = run[r].label
           /\ NewValidation(r).at = run[r].at
<1>1. run[r].pc = "record" /\ GotoRun(r, "compare")
  BY DEF record_validation
<1>2. run[r] \in BusyRun
  BY <1>1, RunTypes
<1>3. RunTo(r, "compare") /\ Kept(r)
  BY <1>1, GotoFacts DEF RunPcs
<1>4. /\ NewValidation(r) \in ValidationRows
      /\ NewValidation(r).label = run[r].label
      /\ NewValidation(r).at = run[r].at
  BY <1>2 DEF NewValidation, ValidationRows, BusyRun
<1>5. validations' = validations \cup {NewValidation(r)}
  BY DEF record_validation, NewValidation
<1> QED
  BY <1>1, <1>3, <1>4, <1>5

LEMMA CandidateFacts ==
    ASSUME NEW t \in Triggers, NEW pair \in Pairs \cup {None}
    PROVE  /\ Candidate(t, pair) \in CandidateRows
           /\ Candidate(t, pair).trigger = t
           /\ Candidate(t, pair).status = "pending"
           /\ Candidate(t, pair).pair = pair
<1> HIDE DEF Pairs, Triggers
<1> QED
  BY DEF Candidate, CandidateRows

LEMMA AppendFacts ==
    ASSUME NEW S, NEW C \in Seq(S), NEW c \in S
    PROVE  /\ Append(C, c) \in Seq(S)
           /\ DOMAIN C = 1..Len(C) /\ Len(C) \in Nat
           /\ DOMAIN Append(C, c) = 1..(Len(C) + 1)
           /\ \A i \in 1..Len(C) : Append(C, c)[i] = C[i]
           /\ Append(C, c)[Len(C) + 1] = c
  OBVIOUS

\* What a decision does to the candidates: one of them gets its status.
LEMMA UpdateFacts ==
    ASSUME TypeOK, NEW d \in Decisions, update_candidate_status(d)
    PROVE  /\ candidates' \in Seq(CandidateRows)
           /\ DOMAIN candidates' = DOMAIN candidates
           /\ \A i \in DOMAIN candidates :
                /\ candidates'[i].trigger = candidates[i].trigger
                /\ candidates'[i].pair = candidates[i].pair
                /\ candidates'[i].status = "pending" =>
                     candidates[i].status = "pending"
           /\ decision' \in [Decisions -> Waiting \cup BusyDecision]
<1> DEFINE q == decision[d]
           c == q.candidate
           n == [q EXCEPT !.pc = "audit"]
<1>1. q \in BusyDecision
  BY DEF TypeOK, update_candidate_status, Waiting
<1>2. q.status \in {"approved", "dismissed"} /\ n \in BusyDecision
  <2> HIDE DEF q
  <2> QED
    BY <1>1 DEF BusyDecision
<1>3. decision' = [decision EXCEPT ![d] = n]
  BY DEF update_candidate_status, TypeOK
<1>4. decision' \in [Decisions -> Waiting \cup BusyDecision]
  <2> HIDE DEF n
  <2>1. decision \in [Decisions -> Waiting \cup BusyDecision]
    BY DEF TypeOK
  <2> HIDE DEF BusyDecision, Waiting
  <2> QED
    BY <1>2, <1>3, <2>1
<1>5. candidates' = [candidates EXCEPT ![c].status = q.status]
  BY DEF update_candidate_status
<1> HIDE DEF q, c
<1>6. /\ candidates \in Seq(CandidateRows) /\ Len(candidates) \in Nat
      /\ DOMAIN candidates = 1..Len(candidates)
      /\ \A i \in 1..Len(candidates) : candidates[i] \in CandidateRows
  <2>1. candidates \in Seq(CandidateRows)
    BY DEF TypeOK
  <2> HIDE DEF CandidateRows
  <2> QED
    BY <2>1
<1>7. \A i \in 1..Len(candidates) :
        candidates'[i] = IF i = c THEN [candidates[i] EXCEPT !.status = q.status]
                         ELSE candidates[i]
  <2> HIDE DEF CandidateRows
  <2> QED
    BY <1>5, <1>6
<1>8. \A i \in 1..Len(candidates) :
        /\ candidates'[i] \in CandidateRows
        /\ candidates'[i].trigger = candidates[i].trigger
        /\ candidates'[i].pair = candidates[i].pair
        /\ candidates'[i].status = "pending" => candidates[i].status = "pending"
  <2> SUFFICES ASSUME NEW i \in 1..Len(candidates)
               PROVE  /\ candidates'[i] \in CandidateRows
                      /\ candidates'[i].trigger = candidates[i].trigger
                      /\ candidates'[i].pair = candidates[i].pair
                      /\ candidates'[i].status = "pending" =>
                           candidates[i].status = "pending"
    OBVIOUS
  <2> DEFINE x == candidates[i]
             y == [x EXCEPT !.status = q.status]
  <2>1. x \in CandidateRows
    BY <1>6
  <2>2. y \in CandidateRows /\ y.trigger = x.trigger /\ y.pair = x.pair
        /\ y.status = q.status
    <3> HIDE DEF x, Pairs, Triggers
    <3> QED
      BY <1>2, <2>1 DEF CandidateRows
  <2>3. candidates'[i] = x \/ candidates'[i] = y
    BY <1>7
  <2> HIDE DEF y
  <2> QED
    BY <1>2, <2>1, <2>2, <2>3
<1>9. candidates' \in Seq(CandidateRows) /\ DOMAIN candidates' = DOMAIN candidates
  <2>1. DOMAIN candidates' = 1..Len(candidates) /\ candidates' =
          [i \in 1..Len(candidates) |-> candidates'[i]]
    BY <1>5, <1>6
  <2> HIDE DEF CandidateRows
  <2>2. [i \in 1..Len(candidates) |-> candidates'[i]] \in Seq(CandidateRows)
    BY <1>6, <1>8
  <2> QED
    BY <1>6, <2>1, <2>2
<1> QED
  BY <1>4, <1>6, <1>8, <1>9

LEMMA BaseInit == Init => BaseInv
<1> SUFFICES ASSUME Init PROVE BaseInv
  OBVIOUS
<1>1. /\ rows \subseteq Labels \cup {"control"}
      /\ validations \subseteq ValidationRows /\ IsFiniteSet(validations)
      /\ candidates \in Seq(CandidateRows) /\ clock \in Nat
      /\ audit \subseteq [candidate : Nat, status : {"approved", "dismissed"}]
      /\ compared \subseteq Pairs /\ lost \subseteq Runs
  BY FS_EmptySet DEF Init
<1>2. /\ news \in [Triggers -> Nat] /\ spent \in [BoundedEvents -> Nat]
      /\ decision \in [Decisions -> Waiting \cup BusyDecision]
      /\ run \in [Runs -> Waiting \cup BusyRun]
  <2> HIDE DEF Triggers, BoundedEvents, BusyDecision, BusyRun
  <2> QED
    BY DEF Init, Waiting
<1>3. scan \in [Scans -> IdleScan \cup BusyScan]
  <2> HIDE DEF BusyScan
  <2> QED
    BY DEF Init, IdleScan
<1>4. StampInv
  BY DEF Init, StampInv
<1> QED
  BY <1>1, <1>2, <1>3, <1>4 DEF BaseInv, TypeOK

LEMMA BaseAside == ASSUME BaseInv, Aside PROVE BaseInv'
<1>1. TypeOK'
  BY DEF BaseInv, TypeOK, Aside, storeVars, history
<1>2. StampInv'
  <2>1. /\ clock \in Nat
        /\ \A v \in validations : v.at \in Nat
        /\ \A r \in Runs : run[r].pc = "record" => run[r].at \in Nat
    BY RunTypes DEF BaseInv, TypeOK, ValidationRows, BusyRun
  <2> QED
    BY <2>1 DEF BaseInv, StampInv, Aside, storeVars
<1> QED
  BY <1>1, <1>2 DEF BaseInv

\* A worker's step changes at most one thing beside its run.
LEMMA RunFrame ==
    ASSUME BaseInv, NEW r \in Runs, RunStep(r)
    PROVE  /\ UNCHANGED <<audit, news, scan, decision>>
           /\ rows' \subseteq Labels \cup {"control"} /\ rows \subseteq rows'
           /\ lost' \in {lost, lost \cup {r}}
           /\ validations' \in {validations, validations \cup {NewValidation(r)}}
           /\ validations' # validations => record_validation(r)
           /\ clock' \in {clock, clock + 1}
           /\ compared' = compared \/ Compare(r)
           /\ spent' = spent \/ Complete(r) \/ Fail(r)
           /\ candidates' = candidates \/ CreateRegression(r)
<1>1. rows' \subseteq Labels \cup {"control"} /\ rows \subseteq rows'
  <2>1. CASE InsertRow(r)
    <3>1. run[r] \in BusyRun
      BY <2>1, RunTypes DEF InsertRow, BaseInv
    <3>2. rows' = rows \/ rows' = rows \cup {run[r].row}
      BY <2>1 DEF InsertRow
    <3> QED
      BY <3>1, <3>2 DEF BaseInv, TypeOK, BusyRun
  <2>2. CASE ~InsertRow(r)
    <3>1. rows' = rows
      BY <2>2 DEF RunStep, Complete, GetRow, Stamp, record_validation, Compare,
                  FindRegression, CreateRegression, Fail
    <3> QED
      BY <3>1 DEF BaseInv, TypeOK
  <2> QED
    BY <2>1, <2>2
<1>2. UNCHANGED <<audit, news, scan, decision>>
  BY DEF RunStep, Complete, GetRow, InsertRow, Stamp, record_validation, Compare,
         FindRegression, CreateRegression, Fail
<1>3. lost' \in {lost, lost \cup {r}}
  BY DEF RunStep, Complete, GetRow, InsertRow, Stamp, record_validation, Compare,
         FindRegression, CreateRegression, Fail, history
<1>4. clock' \in {clock, clock + 1}
  BY DEF RunStep, Complete, GetRow, InsertRow, Stamp, record_validation, Compare,
         FindRegression, CreateRegression, Fail
<1>5. \/ validations' = validations
      \/ /\ record_validation(r)
         /\ validations' = validations \cup {NewValidation(r)}
  BY DEF RunStep, Complete, GetRow, InsertRow, Stamp, record_validation, Compare,
         FindRegression, CreateRegression, Fail, NewValidation
<1>6. compared' = compared \/ Compare(r)
  BY DEF RunStep, Complete, GetRow, InsertRow, Stamp, record_validation,
         FindRegression, CreateRegression, Fail, history
<1>7. spent' = spent \/ Complete(r) \/ Fail(r)
  BY DEF RunStep, GetRow, InsertRow, Stamp, record_validation, Compare,
         FindRegression, CreateRegression
<1>8. candidates' = candidates \/ CreateRegression(r)
  BY DEF RunStep, Complete, GetRow, InsertRow, Stamp, record_validation, Compare,
         FindRegression, Fail
<1> QED
  BY <1>1, <1>2, <1>3, <1>4, <1>5, <1>6, <1>7, <1>8

\* A worker that raises a candidate ends with it.
LEMMA RaiseFacts ==
    ASSUME TypeOK, NEW r \in Runs, CreateRegression(r)
    PROVE  /\ run[r].pc = "create" /\ RunTo(r, "done") /\ Kept(r)
           /\ run[r].pair \in Pairs \cup {None}
           /\ candidates' =
                Append(candidates, Candidate("regression", run[r].pair))
<1>1. run[r].pc = "create" /\ GotoRun(r, "done") /\ run[r] \in BusyRun
  BY RunTypes DEF CreateRegression
<1>2. run[r].pair \in Pairs \cup {None}
  <2> HIDE DEF Pairs
  <2> QED
    BY <1>1 DEF BusyRun
<1> QED
  BY <1>1, <1>2, GotoFacts DEF CreateRegression, RunPcs

LEMMA BaseRun ==
    ASSUME BaseInv, NEW r \in Runs, RunStep(r)
    PROVE  BaseInv'
<1>1. TypeOK
  BY DEF BaseInv
<1>2. run' \in [Runs -> Waiting \cup BusyRun]
  BY <1>1, RunMoves
<1>3. validations' \subseteq ValidationRows /\ IsFiniteSet(validations')
  <2>1. CASE validations' = validations
    BY <1>1, <2>1 DEF TypeOK
  <2>2. CASE validations' # validations
    <3>1. record_validation(r)
      BY <2>2, RunFrame
    <3>2. /\ validations' = validations \cup {NewValidation(r)}
          /\ NewValidation(r) \in ValidationRows
      BY <1>1, <3>1, RecordFacts
    <3> QED
      BY <1>1, <3>2, FS_AddElement DEF TypeOK
  <2> QED
    BY <2>1, <2>2
<1>4. compared' \subseteq Pairs
  BY <1>1, RunFrame, CompareFacts DEF TypeOK
<1>5. spent' \in [BoundedEvents -> Nat]
  <2> HIDE DEF BoundedEvents
  <2>1. CASE Complete(r)
    <3>1. spent \in [BoundedEvents -> Nat]
      BY <1>1 DEF TypeOK
    <3> QED
      BY <2>1, <3>1, SpendFacts DEF Complete
  <2>2. CASE Fail(r)
    <3>1. spent \in [BoundedEvents -> Nat]
      BY <1>1 DEF TypeOK
    <3> QED
      BY <2>2, <3>1, SpendFacts DEF Fail
  <2>3. CASE spent' = spent
    BY <1>1, <2>3 DEF TypeOK
  <2> QED
    BY <2>1, <2>2, <2>3, RunFrame
<1>6. candidates' \in Seq(CandidateRows)
  <2>1. CASE candidates' = candidates
    BY <1>1, <2>1 DEF TypeOK
  <2>2. CASE CreateRegression(r)
    <3> DEFINE c == Candidate("regression", run[r].pair)
    <3>1. c \in CandidateRows
      BY <1>1, <2>2, RaiseFacts, CandidateFacts, ScanOrderFacts
    <3>2. candidates \in Seq(CandidateRows) /\ candidates' = Append(candidates, c)
      BY <1>1, <2>2, RaiseFacts DEF TypeOK
    <3> HIDE DEF c, CandidateRows
    <3> QED
      BY <3>1, <3>2, AppendFacts
  <2> QED
    BY <2>1, <2>2, RunFrame
<1>7. /\ rows' \subseteq Labels \cup {"control"} /\ clock' \in Nat
      /\ lost' \subseteq Runs
  <2>1. clock \in Nat /\ lost \subseteq Runs
    BY <1>1 DEF TypeOK
  <2>2. clock' \in {clock, clock + 1} /\ lost' \in {lost, lost \cup {r}}
    BY RunFrame
  <2> QED
    BY <2>1, <2>2, RunFrame
<1>8. /\ audit' \subseteq [candidate : Nat, status : {"approved", "dismissed"}]
      /\ news' \in [Triggers -> Nat]
      /\ scan' \in [Scans -> IdleScan \cup BusyScan]
      /\ decision' \in [Decisions -> Waiting \cup BusyDecision]
  BY <1>1, RunFrame DEF TypeOK
<1>9. TypeOK'
  BY <1>2, <1>3, <1>4, <1>5, <1>6, <1>7, <1>8 DEF TypeOK
<1>10. clock \in Nat /\ clock' \in {clock, clock + 1}
  BY <1>1, RunFrame DEF TypeOK
<1>11. \A v \in validations' : v.at <= clock'
  <2>1. \A v \in validations : v.at <= clock /\ v.at \in Nat
    BY <1>1 DEF BaseInv, StampInv, TypeOK, ValidationRows
  <2>2. CASE validations' = validations
    BY <1>10, <2>1, <2>2
  <2>3. CASE validations' # validations
    <3>1. record_validation(r)
      BY <2>3, RunFrame
    <3>2. /\ run[r].pc = "record"
          /\ validations' = validations \cup {NewValidation(r)}
          /\ NewValidation(r).at = run[r].at
      BY <1>1, <3>1, RecordFacts
    <3>3. run[r].at <= clock /\ clock' = clock
      BY <3>1, <3>2 DEF BaseInv, StampInv, record_validation
    <3> QED
      BY <2>1, <3>2, <3>3
  <2> QED
    BY <2>2, <2>3
<1>12. ASSUME NEW x \in Runs, run'[x].pc = "record"
       PROVE  run'[x].at <= clock'
  <2>1. CASE x # r
    <3>1. run'[x] = run[x]
      BY <1>1, <2>1, RunMoves
    <3>2. run[x].at \in Nat /\ run[x].at <= clock
      BY <1>1, <1>12, <3>1, RunTypes DEF BaseInv, StampInv, BusyRun
    <3> QED
      BY <1>10, <3>1, <3>2
  <2>2. CASE x = r
    <3>1. Stamp(r)
      BY <1>1, <1>12, <2>2, Arrivals
    <3>2. run'[r].at = clock + 1
      BY <1>1, <3>1, StampFacts
    <3>3. clock' = clock + 1
      BY <3>1 DEF Stamp
    <3> QED
      BY <1>10, <2>2, <3>2, <3>3
  <2> QED
    BY <2>1, <2>2
<1> QED
  BY <1>9, <1>11, <1>12 DEF BaseInv, StampInv

\* The steps of a scan.
ScanStep(s) ==
    (\E found \in BOOLEAN : BeginScan(s, found)) \/ Look(s) \/ Find(s) \/ Create(s)

LEMMA ScanMoves ==
    ASSUME BaseInv, NEW s \in Scans, ScanStep(s)
    PROVE  \E q \in IdleScan \cup BusyScan : ScanTo(s, q)
<1>1. TypeOK /\ StampInv
  BY DEF BaseInv
<1>2. CASE \E found \in BOOLEAN : BeginScan(s, found)
  BY <1>1, <1>2, BeginScanFacts
<1>3. CASE Look(s)
  BY <1>1, <1>3, LookFacts
<1>4. CASE Find(s)
  BY <1>1, <1>4, FindFacts
<1>5. CASE Create(s)
  <2>1. scan[s] \in BusyScan /\ ScanTo(s, Advance(scan[s]))
    BY <1>1, <1>5, CreateFacts
  <2> QED
    BY <2>1, AdvanceFacts
<1> QED
  BY <1>2, <1>3, <1>4, <1>5 DEF ScanStep

\* What a scan leaves alone, and what it adds.
LEMMA ScanFrame ==
    ASSUME BaseInv, NEW s \in Scans, ScanStep(s)
    PROVE  /\ UNCHANGED <<rows, validations, audit, clock, news, run, decision,
                          history>>
           /\ (candidates' = candidates /\ ~Create(s)) \/ Create(s)
           /\ Create(s) =>
                /\ ScanOrder[scan[s].pos] \in Triggers
                /\ ScanOrder[scan[s].pos] # "regression"
                /\ candidates' =
                     Append(candidates, Candidate(ScanOrder[scan[s].pos], None))
           /\ spent' \in [BoundedEvents -> Nat]
           /\ \A k \in {"overlap", "manual", "fail"} : spent'[k] = spent[k]
           /\ (\E found \in BOOLEAN : BeginScan(s, found)) =>
                spent'["scan"] = spent["scan"] + 1
           /\ ~(\E found \in BOOLEAN : BeginScan(s, found)) => spent' = spent
<1> HIDE DEF BoundedEvents
<1>1. spent \in [BoundedEvents -> Nat]
  BY DEF BaseInv, TypeOK
<1>2. UNCHANGED <<rows, validations, audit, clock, news, run, decision, history>>
  BY DEF ScanStep, BeginScan, Look, Find, Create
<1>3. (candidates' = candidates /\ ~Create(s)) \/ Create(s)
  BY DEF ScanStep, BeginScan, Look, Find
<1>4. Create(s) =>
        /\ ScanOrder[scan[s].pos] \in Triggers
        /\ ScanOrder[scan[s].pos] # "regression"
        /\ candidates' =
             Append(candidates, Candidate(ScanOrder[scan[s].pos], None))
  <2> SUFFICES ASSUME Create(s)
               PROVE  /\ ScanOrder[scan[s].pos] \in Triggers
                      /\ ScanOrder[scan[s].pos] # "regression"
                      /\ candidates' = Append(candidates,
                                         Candidate(ScanOrder[scan[s].pos], None))
    OBVIOUS
  <2>1. scan[s] \in BusyScan
    BY CreateFacts DEF BaseInv
  <2>2. scan[s].pos \in 1..Len(ScanOrder)
    BY <2>1 DEF BusyScan
  <2> QED
    BY <2>2, ScanOrderFacts DEF Create
<1>5. CASE \E found \in BOOLEAN : BeginScan(s, found)
  <2>1. Spend({"scan"})
    BY <1>5 DEF BeginScan
  <2>2. /\ spent' \in [BoundedEvents -> Nat]
        /\ \A k \in {"overlap", "manual", "fail"} : spent'[k] = spent[k]
        /\ spent'["scan"] = spent["scan"] + 1
    BY <1>1, <2>1, SpendFacts, CounterFacts
  <2> QED
    BY <1>2, <1>3, <1>4, <1>5, <2>2
<1>6. CASE ~\E found \in BOOLEAN : BeginScan(s, found)
  <2>1. spent' = spent
    BY <1>6 DEF ScanStep, Look, Find, Create
  <2> QED
    BY <1>1, <1>2, <1>3, <1>4, <1>6, <2>1
<1> QED
  BY <1>5, <1>6

LEMMA BaseScan ==
    ASSUME BaseInv, NEW s \in Scans, ScanStep(s)
    PROVE  BaseInv'
<1>1. scan' \in [Scans -> IdleScan \cup BusyScan]
  BY ScanMoves DEF ScanTo
<1>2. candidates' \in Seq(CandidateRows)
  <2>1. candidates \in Seq(CandidateRows)
    BY DEF BaseInv, TypeOK
  <2>2. CASE candidates' = candidates
    BY <2>1, <2>2
  <2>3. CASE Create(s)
    <3> DEFINE c == Candidate(ScanOrder[scan[s].pos], None)
    <3>1. c \in CandidateRows /\ candidates' = Append(candidates, c)
      BY <2>3, ScanFrame, CandidateFacts
    <3> HIDE DEF c, CandidateRows
    <3> QED
      BY <2>1, <3>1, AppendFacts
  <2> QED
    BY <2>2, <2>3, ScanFrame
<1>3. /\ UNCHANGED <<rows, validations, audit, clock, news, run, decision, history>>
      /\ spent' \in [BoundedEvents -> Nat]
  BY ScanFrame
<1>4. TypeOK'
  BY <1>1, <1>2, <1>3 DEF BaseInv, TypeOK, history
<1>5. StampInv'
  BY <1>3 DEF BaseInv, StampInv
<1> QED
  BY <1>4, <1>5 DEF BaseInv

\* The steps that neither a worker nor a scan takes.
OtherStep ==
    \/ \E t \in Triggers \ {"regression", "version_change"} : Happen(t)
    \/ Raise
    \/ \E d \in Decisions :
         \/ \E i \in DOMAIN candidates, status \in {"approved", "dismissed"} :
              Decide(d, i, status)
         \/ update_candidate_status(d) \/ AuditDecision(d)

LEMMA NextCases ==
    Next <=> \/ \E r \in Runs : RunStep(r)
             \/ \E s \in Scans : ScanStep(s)
             \/ OtherStep
  BY DEF Next, RunStep, ScanStep, OtherStep

\* What they do to the candidates, the clock, the news and the counters.
LEMMA OtherFacts ==
    ASSUME BaseInv, OtherStep
    PROVE  /\ UNCHANGED <<rows, validations, run, scan, compared, lost>>
           /\ clock' \in {clock, clock + 1}
           /\ \/ news' = news
              \/ \E t \in Triggers :
                   news[t] = 0 /\ news' = [news EXCEPT ![t] = clock + 1]
           /\ \/ candidates' = candidates
              \/ \E t \in Triggers :
                   /\ candidates' = Append(candidates, Candidate(t, None))
                   /\ spent'["manual"] # 0
              \/ \E d \in Decisions : update_candidate_status(d)
           /\ spent' \in [BoundedEvents -> Nat]
           /\ \A k \in {"overlap", "scan", "fail"} : spent'[k] = spent[k]
           /\ spent'["manual"] = 0 => spent["manual"] = 0
           /\ decision' \in [Decisions -> Waiting \cup BusyDecision]
           /\ audit' \subseteq [candidate : Nat, status : {"approved", "dismissed"}]
<1> HIDE DEF BoundedEvents
<1>1. /\ spent \in [BoundedEvents -> Nat]
      /\ decision \in [Decisions -> Waiting \cup BusyDecision]
      /\ audit \subseteq [candidate : Nat, status : {"approved", "dismissed"}]
  BY DEF BaseInv, TypeOK
<1>2. CASE \E t \in Triggers \ {"regression", "version_change"} : Happen(t)
  <2>1. PICK t \in Triggers : Happen(t)
    BY <1>2
  <2>2. Spend({"news"})
    BY <2>1 DEF Happen
  <2>3. /\ spent' \in [BoundedEvents -> Nat]
        /\ \A k \in {"overlap", "scan", "manual", "fail"} : spent'[k] = spent[k]
    BY <1>1, <2>2, SpendFacts, CounterFacts
  <2>4. /\ UNCHANGED <<rows, validations, candidates, audit, run, scan, decision,
                       compared, lost>>
        /\ clock' = clock + 1
        /\ news[t] = 0 /\ news' = [news EXCEPT ![t] = clock + 1]
    BY <2>1 DEF Happen, history
  <2> QED
    BY <1>1, <2>3, <2>4
<1>3. CASE Raise
  <2>1. Spend({"manual"})
    BY <1>3 DEF Raise
  <2>2. /\ spent' \in [BoundedEvents -> Nat]
        /\ \A k \in {"overlap", "scan", "fail"} : spent'[k] = spent[k]
        /\ spent'["manual"] = spent["manual"] + 1 /\ spent["manual"] \in Nat
    BY <1>1, <2>1, SpendFacts, CounterFacts
  <2>3. /\ UNCHANGED <<rows, validations, audit, clock, news, run, scan, decision,
                       compared, lost>>
        /\ \E t \in Triggers :
             candidates' = Append(candidates, Candidate(t, None))
    BY <1>3 DEF Raise, history
  <2>4. spent'["manual"] # 0
    BY <2>2
  <2> QED
    BY <1>1, <2>2, <2>3, <2>4
<1>4. ASSUME NEW d \in Decisions, NEW i \in DOMAIN candidates,
             NEW status \in {"approved", "dismissed"}, Decide(d, i, status)
      PROVE  /\ UNCHANGED <<rows, validations, candidates, audit, clock, news,
                            run, scan, compared, lost>>
             /\ spent' \in [BoundedEvents -> Nat]
             /\ \A k \in {"overlap", "scan", "manual", "fail"} :
                  spent'[k] = spent[k]
             /\ decision' \in [Decisions -> Waiting \cup BusyDecision]
  <2>1. Spend({"decision"})
    BY <1>4 DEF Decide
  <2>2. /\ spent' \in [BoundedEvents -> Nat]
        /\ \A k \in {"overlap", "scan", "manual", "fail"} : spent'[k] = spent[k]
    BY <1>1, <2>1, SpendFacts, CounterFacts
  <2>3. UNCHANGED <<rows, validations, candidates, audit, clock, news, run, scan,
                    compared, lost>>
    BY <1>4 DEF Decide, history
  <2> DEFINE n == [pc |-> "update", candidate |-> i, status |-> status]
  <2>4. i \in Nat
    <3>1. candidates \in Seq(CandidateRows)
      BY DEF BaseInv, TypeOK
    <3> HIDE DEF CandidateRows
    <3> QED
      BY <3>1
  <2>5. n \in BusyDecision /\ decision' = [decision EXCEPT ![d] = n]
    BY <1>4, <2>4 DEF Decide, BusyDecision
  <2> HIDE DEF n
  <2>6. decision' \in [Decisions -> Waiting \cup BusyDecision]
    <3> HIDE DEF BusyDecision, Waiting
    <3> QED
      BY <1>1, <2>5
  <2> QED
    BY <2>2, <2>3, <2>6
<1>5. ASSUME NEW d \in Decisions, update_candidate_status(d)
      PROVE  /\ UNCHANGED <<rows, validations, audit, clock, news, run, scan,
                            compared, lost, spent>>
             /\ decision' \in [Decisions -> Waiting \cup BusyDecision]
  BY <1>5, UpdateFacts DEF update_candidate_status, history, BaseInv
<1>6. ASSUME NEW d \in Decisions, AuditDecision(d)
      PROVE  /\ UNCHANGED <<rows, validations, candidates, clock, news, run,
                            scan, compared, lost, spent>>
             /\ decision' \in [Decisions -> Waiting \cup BusyDecision]
             /\ audit' \subseteq
                  [candidate : Nat, status : {"approved", "dismissed"}]
  <2> DEFINE q == decision[d]
             n == [q EXCEPT !.pc = "done"]
  <2>1. q \in BusyDecision
    BY <1>1, <1>6 DEF AuditDecision, Waiting
  <2>2. n \in BusyDecision
    <3> HIDE DEF q
    <3> QED
      BY <2>1 DEF BusyDecision
  <2>3. decision' = [decision EXCEPT ![d] = n]
    BY <1>6 DEF AuditDecision
  <2>4. decision' \in [Decisions -> Waiting \cup BusyDecision]
    <3> HIDE DEF n, BusyDecision, Waiting
    <3> QED
      BY <1>1, <2>2, <2>3
  <2>5. audit' = audit \cup {[candidate |-> q.candidate, status |-> q.status]}
    BY <1>6 DEF AuditDecision
  <2>6. q.candidate \in Nat /\ q.status \in {"approved", "dismissed"}
    <3> HIDE DEF q
    <3> QED
      BY <2>1 DEF BusyDecision
  <2>7. audit' \subseteq [candidate : Nat, status : {"approved", "dismissed"}]
    <3> HIDE DEF q
    <3> QED
      BY <1>1, <2>5, <2>6
  <2> QED
    BY <1>6, <2>4, <2>7 DEF AuditDecision, history
<1>7. CASE \E d \in Decisions, i \in DOMAIN candidates,
              status \in {"approved", "dismissed"} : Decide(d, i, status)
  BY <1>1, <1>4, <1>7
<1>8. CASE \E d \in Decisions : update_candidate_status(d)
  BY <1>1, <1>5, <1>8
<1>9. CASE \E d \in Decisions : AuditDecision(d)
  BY <1>1, <1>6, <1>9
<1> QED
  BY <1>2, <1>3, <1>7, <1>8, <1>9 DEF OtherStep

LEMMA BaseOther ==
    ASSUME BaseInv, OtherStep
    PROVE  BaseInv'
<1>1. clock \in Nat /\ clock' \in {clock, clock + 1}
  BY OtherFacts DEF BaseInv, TypeOK
<1>2. candidates' \in Seq(CandidateRows)
  <2>1. candidates \in Seq(CandidateRows)
    BY DEF BaseInv, TypeOK
  <2>2. CASE candidates' = candidates
    BY <2>1, <2>2
  <2>3. CASE \E t \in Triggers : candidates' = Append(candidates, Candidate(t, None))
    <3>1. PICK t \in Triggers : candidates' = Append(candidates, Candidate(t, None))
      BY <2>3
    <3> DEFINE c == Candidate(t, None)
    <3>2. c \in CandidateRows /\ candidates' = Append(candidates, c)
      BY <3>1, CandidateFacts
    <3> HIDE DEF c, CandidateRows
    <3> QED
      BY <2>1, <3>2, AppendFacts
  <2>4. CASE \E d \in Decisions : update_candidate_status(d)
    BY <2>4, UpdateFacts DEF BaseInv
  <2> QED
    BY <2>2, <2>3, <2>4, OtherFacts
<1>3. news' \in [Triggers -> Nat]
  <2>1. news \in [Triggers -> Nat] /\ clock + 1 \in Nat
    BY <1>1 DEF BaseInv, TypeOK
  <2>2. news' = news \/ \E t \in Triggers : news' = [news EXCEPT ![t] = clock + 1]
    BY OtherFacts
  <2> HIDE DEF Triggers
  <2> QED
    BY <2>1, <2>2
<1>4. /\ UNCHANGED <<rows, validations, run, scan, compared, lost>>
      /\ spent' \in [BoundedEvents -> Nat]
      /\ decision' \in [Decisions -> Waiting \cup BusyDecision]
      /\ audit' \subseteq [candidate : Nat, status : {"approved", "dismissed"}]
  BY OtherFacts
<1>5. TypeOK'
  <2>1. clock' \in Nat
    BY <1>1
  <2> QED
    BY <1>2, <1>3, <1>4, <2>1 DEF BaseInv, TypeOK
<1>6. StampInv'
  <2>1. /\ \A v \in validations : v.at \in Nat
        /\ \A r \in Runs : run[r].pc = "record" => run[r].at \in Nat
    BY RunTypes DEF BaseInv, TypeOK, ValidationRows, BusyRun
  <2> QED
    BY <1>1, <1>4, <2>1 DEF BaseInv, StampInv
<1> QED
  BY <1>5, <1>6 DEF BaseInv

\* The rows have their types and every stamp lies in the past.
THEOREM BaseInvariance == AnalystSpec => []BaseInv
<1>1. AnalystInit => BaseInv
  BY BaseInit DEF AnalystInit
<1>2. BaseInv /\ [AnalystNext]_allVars => BaseInv'
  <2> SUFFICES ASSUME BaseInv, [AnalystNext]_allVars PROVE BaseInv'
    OBVIOUS
  <2>1. Next \/ Aside
    BY AsideFacts DEF BaseInv
  <2> QED
    BY <2>1, NextCases, BaseRun, BaseScan, BaseOther, BaseAside
<1> QED
  BY <1>1, <1>2, PTL DEF AnalystSpec

\* TypeOK, of the analyst's specification.
THEOREM TypeCorrect == AnalystSpec => []TypeOK
<1>1. BaseInv => TypeOK
  BY DEF BaseInv
<1> QED
  BY <1>1, BaseInvariance, PTL
-----------------------------------------------------------------------------
(***************************************************************************)
(* Known rows are never lost, and who is alone.                            *)
(***************************************************************************)

\* By which step a run leaves where it is, unless it fails.
LEMMA Departures ==
    ASSUME TypeOK, NEW r \in Runs, RunStep(r)
    PROVE  /\ run[r].pc = "compare" => Compare(r) \/ Fail(r)
           /\ run[r].pc = "find" => FindRegression(r) \/ Fail(r)
           /\ run[r].pc = "create" => CreateRegression(r) \/ Fail(r)
  BY DEF RunStep, Complete, GetRow, InsertRow, Stamp, record_validation, Compare,
         FindRegression, CreateRegression

\* A worker counts a run that overlaps with another, and its failures.
LEMMA RunSpends ==
    ASSUME BaseInv, NEW r \in Runs, RunStep(r)
    PROVE  /\ spent'["scan"] = spent["scan"] /\ spent'["manual"] = spent["manual"]
           /\ spent'["overlap"] = 0 =>
                spent["overlap"] = 0 /\ (Complete(r) => Active = {})
           /\ spent'["fail"] = 0 => spent["fail"] = 0 /\ ~Fail(r)
<1> HIDE DEF BoundedEvents
<1>1. spent \in [BoundedEvents -> Nat]
  BY DEF BaseInv, TypeOK
<1>2. CASE Complete(r)
  <2> DEFINE K == {"run"} \cup IF Active = {} THEN {} ELSE {"overlap"}
  <2>1. Spend(K) /\ run[r].pc = "waiting"
    BY <1>2 DEF Complete
  <2>2. /\ "scan" \notin K /\ "manual" \notin K /\ "fail" \notin K
        /\ "overlap" \in K <=> Active # {}
    OBVIOUS
  <2> HIDE DEF K
  <2>3. \A k \in {"overlap", "scan", "manual", "fail"} :
          /\ spent[k] \in Nat
          /\ k \in K => spent'[k] = spent[k] + 1
          /\ k \notin K => spent'[k] = spent[k]
    BY <1>1, <2>1, CounterFacts
  <2>4. ~Fail(r)
    BY <2>1 DEF Fail, Active
  <2> QED
    BY <2>2, <2>3, <2>4
<1>3. CASE Fail(r)
  <2>1. Spend({"fail"}) /\ run[r].pc # "waiting"
    BY <1>3 DEF Fail, Active
  <2>2. /\ \A k \in {"overlap", "scan", "manual"} : spent'[k] = spent[k]
        /\ spent["fail"] \in Nat /\ spent'["fail"] = spent["fail"] + 1
    BY <1>1, <2>1, CounterFacts
  <2>3. ~Complete(r)
    BY <2>1 DEF Complete
  <2> QED
    BY <2>2, <2>3
<1>4. CASE ~Complete(r) /\ ~Fail(r)
  BY <1>4, RunFrame
<1> QED
  BY <1>2, <1>3, <1>4

\* The row that a run needs is the control's or its version's.
LEMMA RowFacts ==
    ASSUME TypeOK, NEW r \in Runs, RunStep(r)
    PROVE  /\ Complete(r) \/ run'[r].row \in {run[r].row, run[r].label}
           /\ \/ lost' = lost
              \/ /\ lost' = lost \cup {r} /\ run[r].pc = "insert"
                 /\ run'[r].pc = "done"
<1>1. CASE GetRow(r) \/ InsertRow(r)
  <2>1. CASE run' = [run EXCEPT ![r] = Bound(@)] /\ lost' = lost
    <3>1. run[r].pc \in {"get", "insert"}
      BY <1>1 DEF GetRow, InsertRow
    <3> QED
      BY <2>1, <3>1, BoundFacts
  <2>2. CASE GotoRun(r, "insert") /\ lost' = lost
    <3>1. run[r].pc \in {"get", "insert"}
      BY <1>1 DEF GetRow, InsertRow
    <3> QED
      BY <2>2, <3>1, GotoFacts DEF RunPcs
  <2>3. CASE /\ GotoRun(r, "done") /\ lost' = lost \cup {r}
             /\ run[r].pc = "insert"
    <3>1. RunTo(r, "done") /\ run'[r].row = run[r].row
      BY <2>3, GotoFacts DEF RunPcs
    <3> QED
      BY <2>3, <3>1 DEF RunTo
  <2> QED
    BY <1>1, <2>1, <2>2, <2>3 DEF GetRow, InsertRow, history
<1>2. CASE Stamp(r) \/ Compare(r)
  <2>1. lost' = lost
    BY <1>2 DEF Stamp, Compare, history
  <2> QED
    BY <1>2, <2>1, StampFacts, CompareFacts
<1>3. CASE \/ record_validation(r) \/ FindRegression(r) \/ CreateRegression(r)
           \/ Fail(r)
  <2>1. /\ lost' = lost
        /\ run[r].pc \notin {"waiting", "done"}
        /\ \E pc \in RunPcs : GotoRun(r, pc)
    BY <1>3 DEF record_validation, FindRegression, CreateRegression, Fail,
                Active, RunPcs, history
  <2> QED
    BY <2>1, GotoFacts
<1>4. CASE Complete(r)
  BY <1>4 DEF Complete, history
<1> QED
  BY <1>1, <1>2, <1>3, <1>4 DEF RunStep

LEMMA KnownStep ==
    ASSUME BaseInv, KnownInv, Next \/ Aside
    PROVE  KnownInv'
<1>1. CASE \E r \in Runs : RunStep(r)
  <2>1. PICK r \in Runs : RunStep(r)
    BY <1>1
  <2>2. TypeOK
    BY DEF BaseInv
  <2>3. rows \subseteq rows' /\ lost' \in {lost, lost \cup {r}}
    BY <2>1, RunFrame
  <2>4. /\ \A x \in Runs \ {r} : run'[x] = run[x]
        /\ Complete(r) \/ Kept(r)
    BY <2>1, <2>2, RunMoves
  <2>5. ASSUME NEW x \in Runs, run'[x].pc # "waiting"
        PROVE  /\ run'[x].known => {"control", run'[x].label} \subseteq rows'
               /\ run'[x].row \in {"control", run'[x].label}
               /\ run'[x].pc = "insert" => ~run'[x].known
    <3>1. CASE x # r
      BY <2>3, <2>4, <2>5, <3>1 DEF KnownInv
    <3>2. CASE x = r /\ Complete(r)
      BY <2>2, <2>3, <3>2, CompleteFacts DEF RunTo
    <3>3. CASE x = r /\ Kept(r) /\ ~Complete(r)
      <4>1. /\ run[r].known => {"control", run[r].label} \subseteq rows
            /\ run[r].row \in {"control", run[r].label}
        BY <3>3 DEF KnownInv, Kept
      <4>2. run'[r].row \in {run[r].row, run[r].label}
        BY <2>1, <2>2, <3>3, RowFacts
      <4>3. run'[r].pc = "insert" => run[r].row \notin rows
        BY <2>1, <2>2, Arrivals
      <4> QED
        BY <2>3, <3>3, <4>1, <4>2, <4>3 DEF Kept
    <3> QED
      BY <2>4, <3>1, <3>2, <3>3
  <2>6. ASSUME NEW x \in lost'
        PROVE  run'[x].pc = "done" /\ ~run'[x].known
    <3>1. run[r].pc # "done"
      BY <2>2, <2>4, CompleteFacts DEF Kept
    <3>2. CASE x \in lost
      <4>1. x \in Runs \ {r}
        BY <2>2, <3>1, <3>2 DEF KnownInv, TypeOK
      <4> QED
        BY <2>4, <3>2, <4>1 DEF KnownInv
    <3>3. CASE x \notin lost
      <4>1. x = r /\ run[r].pc = "insert" /\ run'[r].pc = "done"
        BY <2>1, <2>2, <2>3, <2>6, <3>3, RowFacts
      <4>2. Kept(r) /\ ~run[r].known
        BY <2>2, <2>4, <4>1, CompleteFacts DEF KnownInv
      <4> QED
        BY <4>1, <4>2 DEF Kept
    <3> QED
      BY <3>2, <3>3
  <2> QED
    BY <2>5, <2>6 DEF KnownInv
<1>2. CASE ~\E r \in Runs : RunStep(r)
  <2>1. UNCHANGED <<rows, run, lost>>
    BY <1>2, NextCases, ScanFrame, OtherFacts DEF Aside, storeVars, history
  <2> QED
    BY <2>1 DEF KnownInv
<1> QED
  BY <1>1, <1>2

LEMMA ActiveFacts ==
    ASSUME TypeOK, NEW r \in Runs, RunStep(r)
    PROVE  Active' \subseteq Active \cup {r} /\ (~Complete(r) => r \in Active)
<1>1. /\ \A x \in Runs \ {r} : run'[x] = run[x]
      /\ Complete(r) \/ Kept(r)
  BY RunMoves
<1> QED
  BY <1>1 DEF Active, Kept

LEMMA AloneStep ==
    ASSUME BaseInv, AloneInv, Next \/ Aside
    PROVE  AloneInv'
<1>1. TypeOK
  BY DEF BaseInv
<1>2. CASE \E r \in Runs : RunStep(r)
  <2>1. PICK r \in Runs : RunStep(r)
    BY <1>2
  <2>2. spent'["overlap"] = 0 => \A q, x \in Active' : q = x
    <3>1. Active' \subseteq Active \cup {r} /\ (~Complete(r) => r \in Active)
      BY <1>1, <2>1, ActiveFacts
    <3>2. spent'["overlap"] = 0 =>
            spent["overlap"] = 0 /\ (Complete(r) => Active = {})
      BY <2>1, RunSpends
    <3> QED
      BY <3>1, <3>2 DEF AloneInv
  <2>3. spent'["scan"] = spent["scan"] /\ scan' = scan
    BY <2>1, RunSpends, RunFrame
  <2> QED
    BY <2>2, <2>3 DEF AloneInv
<1>3. CASE \E s \in Scans : ScanStep(s)
  <2>1. PICK s \in Scans : ScanStep(s)
    BY <1>3
  <2>2. run' = run /\ spent'["overlap"] = spent["overlap"]
    BY <2>1, ScanFrame
  <2>3. \A x \in Scans \ {s} : scan'[x] = scan[x]
    BY <2>1, ScanMoves DEF ScanTo
  <2>4. spent["scan"] \in Nat
    <3>1. spent \in [BoundedEvents -> Nat]
      BY <1>1 DEF TypeOK
    <3> HIDE DEF BoundedEvents
    <3> QED
      BY <3>1, BoundedFacts
  <2>5. CASE \E found \in BOOLEAN : BeginScan(s, found)
    <3>1. spent'["scan"] = spent["scan"] + 1
      BY <2>1, <2>5, ScanFrame
    <3>2. spent'["scan"] # 0 /\ (spent'["scan"] <= 1 => spent["scan"] = 0)
      BY <2>4, <3>1
    <3> QED
      BY <2>2, <2>3, <3>2 DEF AloneInv, Active
  <2>6. CASE ~\E found \in BOOLEAN : BeginScan(s, found)
    <3>1. spent' = spent
      BY <2>1, <2>6, ScanFrame
    <3>2. scan[s].pc # "waiting"
      BY <2>1, <2>6 DEF ScanStep, Look, Find, Create
    <3> QED
      BY <2>2, <2>3, <3>1, <3>2 DEF AloneInv, Active
  <2> QED
    BY <2>5, <2>6
<1>4. CASE OtherStep \/ Aside
  <2>1. /\ UNCHANGED <<run, scan>>
        /\ spent'["overlap"] = spent["overlap"] /\ spent'["scan"] = spent["scan"]
    BY <1>4, OtherFacts DEF Aside, storeVars
  <2> QED
    BY <2>1 DEF AloneInv, Active
<1> QED
  BY <1>2, <1>3, <1>4, NextCases

\* With no overlap a worker that takes a step is the only one.
LEMMA LoneWorker ==
    ASSUME BaseInv, AloneInv, NEW r \in Runs, RunStep(r), spent'["overlap"] = 0
    PROVE  /\ \A x \in Runs \ {r} : run[x].pc \in {"waiting", "done"}
           /\ spent["overlap"] = 0
<1>1. spent["overlap"] = 0 /\ (Complete(r) => Active = {})
  BY RunSpends
<1>2. ~Complete(r) => r \in Active
  BY ActiveFacts DEF BaseInv
<1> QED
  BY <1>1, <1>2 DEF AloneInv, Active
-----------------------------------------------------------------------------
(***************************************************************************)
(* Regressions are real, and what was due is raised.                       *)
(***************************************************************************)

\* What a step does to the candidates: it appends one that is pending, or it
\* decides one; no trigger and no pair of a candidate ever changes.
LEMMA CandidatesKept ==
    ASSUME BaseInv, Next \/ Aside
    PROVE  /\ DOMAIN candidates \subseteq DOMAIN candidates'
           /\ \A i \in DOMAIN candidates :
                /\ candidates'[i].trigger = candidates[i].trigger
                /\ candidates'[i].pair = candidates[i].pair
                /\ candidates'[i].status = "pending" =>
                     candidates[i].status = "pending"
<1>1. candidates \in Seq(CandidateRows)
  BY DEF BaseInv, TypeOK
<1>2. ASSUME NEW c \in CandidateRows, candidates' = Append(candidates, c)
      PROVE  /\ DOMAIN candidates \subseteq DOMAIN candidates'
             /\ \A i \in DOMAIN candidates : candidates'[i] = candidates[i]
  <2> HIDE DEF CandidateRows
  <2> QED
    BY <1>1, <1>2, AppendFacts
<1>3. CASE candidates' = candidates
  BY <1>3
<1>4. CASE \E c \in CandidateRows : candidates' = Append(candidates, c)
  <2> HIDE DEF CandidateRows
  <2> QED
    BY <1>2, <1>4
<1>5. CASE \E d \in Decisions : update_candidate_status(d)
  BY <1>5, UpdateFacts DEF BaseInv
<1>6. \/ candidates' = candidates
      \/ \E c \in CandidateRows : candidates' = Append(candidates, c)
      \/ \E d \in Decisions : update_candidate_status(d)
  <2>1. CASE \E r \in Runs : RunStep(r)
    <3>1. PICK r \in Runs : RunStep(r)
      BY <2>1
    <3>2. CASE CreateRegression(r)
      <4>1. Candidate("regression", run[r].pair) \in CandidateRows
        BY <3>2, RaiseFacts, CandidateFacts, ScanOrderFacts DEF BaseInv
      <4> QED
        BY <3>2, <4>1, RaiseFacts DEF BaseInv
    <3> QED
      BY <3>1, <3>2, RunFrame
  <2>2. CASE \E s \in Scans : ScanStep(s)
    <3>1. PICK s \in Scans : ScanStep(s)
      BY <2>2
    <3>2. CASE Create(s)
      <4>1. Candidate(ScanOrder[scan[s].pos], None) \in CandidateRows
        BY <3>1, <3>2, ScanFrame, CandidateFacts
      <4> QED
        BY <3>1, <3>2, <4>1, ScanFrame
    <3> QED
      BY <3>1, <3>2, ScanFrame
  <2>3. CASE OtherStep
    <3>1. \A t \in Triggers : Candidate(t, None) \in CandidateRows
      BY CandidateFacts
    <3> QED
      BY <2>3, <3>1, OtherFacts
  <2>4. CASE Aside
    BY <2>4 DEF Aside, storeVars
  <2> QED
    BY <2>1, <2>2, <2>3, <2>4, NextCases
<1> QED
  BY <1>3, <1>4, <1>5, <1>6

LEMMA RaisedKept ==
    ASSUME BaseInv, Next \/ Aside, NEW t, RaisedIn(candidates, t)
    PROVE  RaisedIn(candidates', t)
  BY CandidatesKept DEF RaisedIn

\* The last two validations of a version, the later of which is worse, are a
\* regression.
LEMMA LastTwoReal ==
    ASSUME BaseInv, NEW label, NEW pr \in LastTwo(label), Worse(pr)
    PROVE  RealIn(validations, pr)
<1> DEFINE S == SameVersion(label)
<1>1. S \subseteq validations /\ \A v \in S : v.label = label
  BY DEF SameVersion
<1>2. IsFiniteSet(S) /\ \A v \in S : v.at \in Nat
  BY <1>1, FS_Subset DEF BaseInv, TypeOK, ValidationRows
<1>3. /\ pr[1] \in S /\ pr[2] \in S
      /\ Cardinality(Before(pr[2], S)) = Cardinality(S) - 1
      /\ Cardinality(Before(pr[1], S)) = Cardinality(S) - 2
  BY DEF LastTwo, LastTwoOf
<1> HIDE DEF S
<1>4. pr[1].at < pr[2].at
  BY <1>2, <1>3, LastTwoFacts
<1> QED
  BY <1>1, <1>3, <1>4 DEF RealIn

LEMMA RealForm ==
    RegressionsAreReal <=>
      \A i \in DOMAIN candidates : candidates[i].pair # None =>
        candidates[i].trigger = "regression"
          /\ RealIn(validations, candidates[i].pair)
  BY DEF RegressionsAreReal, RealIn, Worse

LEMMA RealStep ==
    ASSUME BaseInv, RealInv, Next \/ Aside
    PROVE  RealInv'
<1>1. TypeOK
  BY DEF BaseInv
<1>2. validations \subseteq validations'
  BY RunFrame, NextCases, ScanFrame, OtherFacts DEF Aside, storeVars
<1>3. \A pr : RealIn(validations, pr) => RealIn(validations', pr)
  BY <1>2 DEF RealIn
<1>4. ASSUME NEW i \in DOMAIN candidates', candidates'[i].pair # None
      PROVE  /\ candidates'[i].trigger = "regression"
             /\ RealIn(validations', candidates'[i].pair)
  <2>1. \A j \in DOMAIN candidates : candidates[j].pair # None =>
          candidates[j].trigger = "regression"
            /\ RealIn(validations, candidates[j].pair)
    BY RealForm DEF RealInv
  <2>2. CASE i \in DOMAIN candidates
    BY <1>3, <1>4, <2>1, <2>2, CandidatesKept
  <2>3. CASE i \notin DOMAIN candidates
    <3>1. candidates \in Seq(CandidateRows)
      BY <1>1 DEF TypeOK
    <3>2. ASSUME NEW c \in CandidateRows, candidates' = Append(candidates, c)
          PROVE  candidates'[i] = c
      <4> HIDE DEF CandidateRows
      <4>1. /\ DOMAIN candidates = 1..Len(candidates)
            /\ DOMAIN candidates' = 1..(Len(candidates) + 1)
            /\ candidates'[Len(candidates) + 1] = c /\ Len(candidates) \in Nat
        BY <3>1, <3>2, AppendFacts
      <4>2. i = Len(candidates) + 1
        BY <1>4, <2>3, <4>1
      <4> QED
        BY <4>1, <4>2
    <3>3. \/ \E r \in Runs : CreateRegression(r)
          \/ \E t \in Triggers :
               candidates' = Append(candidates, Candidate(t, None))
      <4>1. candidates' # candidates
        BY <1>4, <2>3
      <4>2. ~\E d \in Decisions : update_candidate_status(d)
        BY <1>1, <1>4, <2>3, UpdateFacts
      <4> QED
        BY <4>1, <4>2, NextCases, RunFrame, ScanFrame, OtherFacts
           DEF Aside, storeVars
    <3>4. CASE \E r \in Runs : CreateRegression(r)
      <4>1. PICK r \in Runs : CreateRegression(r)
        BY <3>4
      <4> DEFINE c == Candidate("regression", run[r].pair)
      <4>2. /\ c \in CandidateRows /\ c.trigger = "regression"
            /\ c.pair = run[r].pair /\ candidates' = Append(candidates, c)
            /\ run[r].pc = "create"
        BY <1>1, <4>1, RaiseFacts, CandidateFacts, ScanOrderFacts
      <4>3. RealIn(validations, run[r].pair)
        BY <4>2 DEF RealInv
      <4> HIDE DEF c
      <4>4. candidates'[i] = c
        BY <3>2, <4>2
      <4> QED
        BY <1>3, <4>2, <4>3, <4>4
    <3>5. CASE \E t \in Triggers :
                 candidates' = Append(candidates, Candidate(t, None))
      <4>1. PICK t \in Triggers :
              candidates' = Append(candidates, Candidate(t, None))
        BY <3>5
      <4>2. Candidate(t, None) \in CandidateRows /\ Candidate(t, None).pair = None
        BY CandidateFacts
      <4>3. candidates'[i] = Candidate(t, None)
        BY <3>2, <4>1, <4>2
      <4> QED
        BY <1>4, <4>2, <4>3
    <3> QED
      BY <3>3, <3>4, <3>5
  <2> QED
    BY <2>2, <2>3
<1>5. ASSUME NEW x \in Runs, run'[x].pc \in {"find", "create"}
      PROVE  RealIn(validations', run'[x].pair)
  <2>1. CASE run'[x] = run[x]
    BY <1>3, <1>5, <2>1 DEF RealInv
  <2>2. CASE run'[x] # run[x]
    <3>1. RunStep(x)
      <4>1. \A r \in Runs : RunStep(r) => x = r
        BY <1>1, <2>2, RunMoves
      <4>2. \E r \in Runs : RunStep(r)
        BY <2>2, NextCases, ScanFrame, OtherFacts DEF Aside, storeVars
      <4> QED
        BY <4>1, <4>2
    <3>2. CASE run'[x].pc = "find"
      <4>1. Compare(x)
        BY <1>1, <3>1, <3>2, Arrivals
      <4>2. run'[x].pair \in LastTwo(run[x].label) /\ Worse(run'[x].pair)
        BY <1>1, <3>2, <4>1, CompareFacts DEF RunTo
      <4> QED
        BY <1>3, <4>2, LastTwoReal
    <3>3. CASE run'[x].pc = "create"
      <4>1. FindRegression(x)
        BY <1>1, <3>1, <3>3, Arrivals
      <4>2. run[x].pc = "find" /\ run'[x].pair = run[x].pair
        <5>1. /\ run[x].pc = "find"
              /\ GotoRun(x, "done") \/ GotoRun(x, "create")
          BY <4>1 DEF FindRegression
        <5> QED
          BY <1>1, <5>1, GotoFacts DEF RunPcs
      <4> QED
        BY <1>3, <4>2 DEF RealInv
    <3> QED
      BY <1>5, <3>2, <3>3
  <2> QED
    BY <2>1, <2>2
<1>6. RegressionsAreReal'
  BY <1>4 DEF RegressionsAreReal, RealIn, Worse
<1> QED
  BY <1>5, <1>6 DEF RealInv

\* What a scan with view q calls for, given rows R and news N.
DueIn(R, N, q, t) ==
    CASE t = "version_change" -> \E l \in Labels : l \in R \ q.validated
      [] t = "scheduled"      -> N[t] > q.latest
      [] t = "regression"     -> FALSE
      [] OTHER                -> q.found /\ N[t] > q.latest

LEMMA DueKept ==
    ASSUME NEW R, NEW R2, R \subseteq R2, NEW N, NEW N2,
           NEW q \in BusyScan, NEW p, SameView(p, q),
           NEW t \in Triggers, N[t] = 0 \/ N2[t] = N[t], DueIn(R, N, q, t)
    PROVE  DueIn(R2, N2, p, t)
<1>1. q.latest \in Nat
  BY DEF BusyScan
<1>2. CASE t \in {"version_change", "regression"}
  BY <1>2 DEF DueIn, SameView
<1>3. CASE t \notin {"version_change", "regression"}
  <2>1. N[t] > q.latest /\ (t = "scheduled" \/ q.found)
    BY <1>3 DEF DueIn
  <2>2. N2[t] = N[t]
    BY <1>1, <2>1
  <2> QED
    BY <1>3, <2>1, <2>2 DEF DueIn, SameView
<1> QED
  BY <1>2, <1>3

\* What a step of any kind does to what scans look at.
LEMMA ViewKept ==
    ASSUME BaseInv, Next \/ Aside
    PROVE  /\ rows \subseteq rows'
           /\ \A t \in Triggers : news[t] = 0 \/ news'[t] = news[t]
<1>1. news \in [Triggers -> Nat]
  BY DEF BaseInv, TypeOK
<1>2. CASE \E r \in Runs : RunStep(r)
  BY <1>2, RunFrame
<1>3. CASE (\E s \in Scans : ScanStep(s)) \/ Aside
  BY <1>3, ScanFrame DEF Aside, storeVars
<1>4. CASE OtherStep
  <2>1. /\ rows' = rows
        /\ \/ news' = news
           \/ \E t \in Triggers :
                news[t] = 0 /\ news' = [news EXCEPT ![t] = clock + 1]
    BY <1>4, OtherFacts
  <2> HIDE DEF Triggers
  <2> QED
    BY <1>1, <2>1
<1> QED
  BY <1>2, <1>3, <1>4, NextCases

\* A pending candidate is a candidate.
LEMMA PendingFacts ==
    ASSUME TypeOK, NEW t
    PROVE  /\ IsFiniteSet(PendingFor(t))
           /\ AlreadyPending(t) \/ Ambiguous(t) => RaisedIn(candidates, t)
           /\ ~AlreadyPending(t) /\ ~Ambiguous(t) => PendingFor(t) = {}
<1> DEFINE P == PendingFor(t)
           n == Cardinality(P)
<1>1. candidates \in Seq(CandidateRows)
  BY DEF TypeOK
<1>2. DOMAIN candidates = 1..Len(candidates) /\ Len(candidates) \in Nat
  <2> HIDE DEF CandidateRows
  <2> QED
    BY <1>1
<1>3. IsFiniteSet(1..Len(candidates)) /\ P \subseteq 1..Len(candidates)
  BY <1>2, FS_Interval DEF PendingFor
<1>4. IsFiniteSet(P)
  BY <1>3, FS_Subset
<1>5. P # {} => RaisedIn(candidates, t)
  BY DEF PendingFor, RaisedIn
<1> HIDE DEF P
<1>6. n \in Nat /\ (n = 0 <=> P = {})
  BY <1>4, FS_CardinalityType, FS_EmptySet
<1>7. (AlreadyPending(t) <=> n = 1) /\ (Ambiguous(t) <=> n > 1)
  BY DEF AlreadyPending, Ambiguous, P
<1> HIDE DEF n
<1>8. /\ AlreadyPending(t) \/ Ambiguous(t) => P # {}
      /\ ~AlreadyPending(t) /\ ~Ambiguous(t) => P = {}
  BY <1>6, <1>7
<1> QED
  BY <1>4, <1>5, <1>8 DEF P

\* What DueInv says of a scan q, given the rows, the news and the candidates.
ScanOwes(R, N, C, q) ==
    \A t \in q.due :
        /\ q.pc = "done" => RaisedIn(C, t)
        /\ q.pc \in {"look", "find", "create"} =>
             /\ DueIn(R, N, q, t)
             /\ \/ RaisedIn(C, t)
                \/ \E k \in q.pos..Len(ScanOrder) : ScanOrder[k] = t

LEMMA DueForm ==
    DueInv <=> \A s \in Scans : ScanOwes(rows, news, candidates, scan[s])
  BY DEF DueInv, ScanOwes, Due, DueIn

\* A scan that goes on from a trigger that is raised or not due owes as before.
LEMMA OwesAdvance ==
    ASSUME NEW R, NEW N, NEW C, NEW q \in BusyScan, NEW p, SameView(p, q),
           \A t \in q.due : DueIn(R, N, q, t),
           \A t \in q.due : \/ RaisedIn(C, t)
                            \/ \E k \in q.pos..Len(ScanOrder) : ScanOrder[k] = t,
           ScanOrder[q.pos] \in q.due => RaisedIn(C, ScanOrder[q.pos]),
           p = Advance(q)
    PROVE  ScanOwes(R, N, C, p)
<1>1. q.pos \in 1..Len(ScanOrder) /\ Len(ScanOrder) \in Nat
  BY ScanOrderFacts DEF BusyScan
<1>2. \/ q.pos = Len(ScanOrder) /\ p.pc = "done"
      \/ q.pos # Len(ScanOrder) /\ p.pc = "look" /\ p.pos = q.pos + 1
  BY AdvanceFacts
<1>3. \A t : DueIn(R, N, q, t) <=> DueIn(R, N, p, t)
  BY DEF DueIn, SameView
<1>4. ASSUME NEW t \in q.due, ~RaisedIn(C, t)
      PROVE  \E k \in (q.pos + 1)..Len(ScanOrder) : ScanOrder[k] = t
  <2>1. PICK k \in q.pos..Len(ScanOrder) : ScanOrder[k] = t
    BY <1>4
  <2>2. k # q.pos
    BY <1>4, <2>1
  <2>3. k \in (q.pos + 1)..Len(ScanOrder)
    BY <1>1, <2>1, <2>2
  <2> QED
    BY <2>1, <2>3
<1>5. q.pos = Len(ScanOrder) => (q.pos + 1)..Len(ScanOrder) = {}
  BY <1>1
<1>6. p.due = q.due
  BY DEF SameView
<1> QED
  BY <1>2, <1>3, <1>4, <1>5, <1>6 DEF ScanOwes

LEMMA DueStep ==
    ASSUME BaseInv, DueInv, Next \/ Aside
    PROVE  DueInv'
<1>1. TypeOK /\ StampInv
  BY DEF BaseInv
<1>2. rows \subseteq rows' /\ \A t \in Triggers : news[t] = 0 \/ news'[t] = news[t]
  BY ViewKept
<1>3. \A t : RaisedIn(candidates, t) => RaisedIn(candidates', t)
  BY RaisedKept
<1>4. ASSUME NEW s \in Scans, scan'[s] = scan[s]
      PROVE  ScanOwes(rows', news', candidates', scan'[s])
  <2> DEFINE q == scan[s]
  <2>1. ScanOwes(rows, news, candidates, q) /\ q.due \subseteq Triggers
    BY <1>1, DueForm, ScanTypes
  <2>2. q.pc \in {"look", "find", "create"} => q \in BusyScan
    BY <1>1, ScanTypes
  <2>3. SameView(q, q)
    BY DEF SameView
  <2> HIDE DEF q
  <2>4. ASSUME NEW t \in q.due, q.pc \in {"look", "find", "create"}
        PROVE  DueIn(rows', news', q, t)
    <3>1. DueIn(rows, news, q, t) /\ t \in Triggers
      BY <2>1, <2>4 DEF ScanOwes
    <3> QED
      BY <1>2, <2>2, <2>3, <2>4, <3>1, DueKept
  <2>5. ScanOwes(rows', news', candidates', q)
    BY <1>3, <2>1, <2>4 DEF ScanOwes
  <2> QED
    BY <1>4, <2>5 DEF q
<1>5. ASSUME NEW s \in Scans, ScanStep(s)
      PROVE  ScanOwes(rows', news', candidates', scan'[s])
  <2> DEFINE q == scan[s]
             t0 == ScanOrder[q.pos]
  <2>1. ScanOwes(rows, news, candidates, q)
    BY DueForm
  <2>2. rows' = rows /\ news' = news
    BY <1>5, ScanFrame
  <2>3. ASSUME q \in BusyScan, q.pc \in {"look", "find", "create"},
               scan'[s] = Advance(q),
               t0 \in q.due => RaisedIn(candidates', t0)
        PROVE  ScanOwes(rows', news', candidates', scan'[s])
    <3>1. SameView(Advance(q), q)
      BY <2>3, AdvanceFacts
    <3>2. \A t \in q.due :
            /\ DueIn(rows', news', q, t)
            /\ \/ RaisedIn(candidates', t)
               \/ \E k \in q.pos..Len(ScanOrder) : ScanOrder[k] = t
      BY <1>3, <2>1, <2>2, <2>3 DEF ScanOwes
    <3> HIDE DEF q
    <3> QED
      BY <2>3, <3>1, <3>2, OwesAdvance DEF t0
  <2>4. ASSUME q.pc \in {"look", "find", "create"}, NEW n \in BusyScan,
               SameView(n, q), n.pc \in {"find", "create"}, n.pos = q.pos
        PROVE  ScanOwes(rows', news', candidates', n)
    <3>1. \A t \in q.due :
            /\ DueIn(rows', news', q, t)
            /\ \/ RaisedIn(candidates', t)
               \/ \E k \in q.pos..Len(ScanOrder) : ScanOrder[k] = t
      BY <1>3, <2>1, <2>2, <2>4 DEF ScanOwes
    <3>2. \A t : DueIn(rows', news', q, t) <=> DueIn(rows', news', n, t)
      BY <2>4 DEF DueIn, SameView
    <3>3. n.due = q.due
      BY <2>4 DEF SameView
    <3> HIDE DEF q
    <3> QED
      BY <2>4, <3>1, <3>2, <3>3 DEF ScanOwes
  <2>5. CASE \E found \in BOOLEAN : BeginScan(s, found)
    <3>1. PICK n \in IdleScan \cup BusyScan :
            /\ ScanTo(s, n)
            /\ \/ n.pc = "done" /\ n.due = {}
               \/ /\ n \in BusyScan /\ n.pc = "look" /\ n.pos = 1
                  /\ n.due = {t \in Triggers : Due(n, t)}
      BY <1>1, <2>5, BeginScanFacts
    <3>2. CASE n.due = {}
      BY <3>1, <3>2 DEF ScanTo, ScanOwes
    <3>3. CASE /\ n.pc = "look" /\ n.pos = 1
               /\ n.due = {t \in Triggers : Due(n, t)}
      <4>1. \A t \in n.due : t \in Triggers /\ DueIn(rows', news', n, t)
        BY <2>2, <3>3 DEF Due, DueIn
      <4>2. \A t \in n.due : t # "regression"
        BY <4>1 DEF DueIn
      <4>3. \A t \in n.due : \E k \in n.pos..Len(ScanOrder) : ScanOrder[k] = t
        BY <3>3, <4>1, <4>2, ScanOrderFacts
      <4> QED
        BY <3>1, <3>3, <4>1, <4>3 DEF ScanTo, ScanOwes
    <3> QED
      BY <3>1, <3>2, <3>3
  <2>6. CASE Look(s)
    <3>1. q \in BusyScan /\ q.pc = "look"
      BY <1>1, <2>6, LookFacts
    <3>2. PICK n \in BusyScan :
            /\ ScanTo(s, n) /\ SameView(n, q)
            /\ \/ n.pc = "find" /\ n.pos = q.pos
               \/ ~Due(q, t0) /\ n = Advance(q)
      BY <1>1, <2>6, LookFacts
    <3>3. CASE n.pc = "find" /\ n.pos = q.pos
      BY <2>4, <3>1, <3>2, <3>3 DEF ScanTo
    <3>4. CASE ~Due(q, t0) /\ n = Advance(q)
      <4>1. t0 \notin q.due
        BY <2>1, <3>1, <3>4 DEF ScanOwes, Due, DueIn
      <4> QED
        BY <2>3, <3>1, <3>2, <3>4, <4>1 DEF ScanTo
    <3> QED
      BY <3>2, <3>3, <3>4
  <2>7. CASE Find(s)
    <3>1. q \in BusyScan /\ q.pc = "find"
      BY <1>1, <2>7, FindFacts
    <3>2. PICK n \in BusyScan :
            /\ ScanTo(s, n) /\ SameView(n, q)
            /\ \/ n.pc = "failed"
               \/ AlreadyPending(t0) /\ n = Advance(q)
               \/ n.pc = "create" /\ n.pos = q.pos
      BY <1>1, <2>7, FindFacts
    <3>3. CASE n.pc = "failed"
      BY <3>2, <3>3 DEF ScanTo, ScanOwes
    <3>4. CASE AlreadyPending(t0) /\ n = Advance(q)
      <4>1. RaisedIn(candidates', t0)
        BY <1>1, <1>3, <3>4, PendingFacts
      <4> QED
        BY <2>3, <3>1, <3>2, <3>4, <4>1 DEF ScanTo
    <3>5. CASE n.pc = "create" /\ n.pos = q.pos
      BY <2>4, <3>1, <3>2, <3>5 DEF ScanTo
    <3> QED
      BY <3>2, <3>3, <3>4, <3>5
  <2>8. CASE Create(s)
    <3>1. q \in BusyScan /\ q.pc = "create" /\ ScanTo(s, Advance(q))
      BY <1>1, <2>8, CreateFacts
    <3>2. RaisedIn(candidates', t0)
      <4> DEFINE c == Candidate(t0, None)
      <4>1. c \in CandidateRows /\ c.trigger = t0
            /\ candidates' = Append(candidates, c)
        BY <1>5, <2>8, ScanFrame, CandidateFacts
      <4>2. candidates \in Seq(CandidateRows)
        BY <1>1 DEF TypeOK
      <4> HIDE DEF c, CandidateRows, t0
      <4>3. /\ Len(candidates) \in Nat
            /\ DOMAIN candidates' = 1..(Len(candidates) + 1)
            /\ candidates'[Len(candidates) + 1] = c
        BY <4>1, <4>2, AppendFacts
      <4>4. Len(candidates) + 1 \in DOMAIN candidates'
        BY <4>3
      <4> QED
        BY <4>1, <4>3, <4>4 DEF RaisedIn
    <3> QED
      BY <2>3, <3>1, <3>2 DEF ScanTo
  <2> QED
    BY <1>5, <2>5, <2>6, <2>7, <2>8 DEF ScanStep
<1>6. \A s \in Scans : scan'[s] = scan[s] \/ ScanStep(s)
  <2>1. CASE \E u \in Scans : ScanStep(u)
    BY <2>1, ScanMoves DEF ScanTo
  <2>2. CASE ~\E u \in Scans : ScanStep(u)
    BY <2>2, NextCases, RunFrame, OtherFacts DEF Aside, storeVars
  <2> QED
    BY <2>1, <2>2
<1>7. \A s \in Scans : ScanOwes(rows', news', candidates', scan'[s])
  BY <1>4, <1>5, <1>6
<1> QED
  BY <1>7 DEF DueInv, ScanOwes, Due, DueIn
-----------------------------------------------------------------------------
(***************************************************************************)
(* At most one pending candidate.                                          *)
(***************************************************************************)

PendingIn(C, t) ==
    {i \in DOMAIN C : C[i].trigger = t /\ C[i].status = "pending"}

\* A step that adds a pending candidate appends it; no other becomes pending.
LEMMA PendingSteps ==
    ASSUME BaseInv, Next \/ Aside, NEW t
    PROVE  \/ PendingIn(candidates', t) \subseteq PendingIn(candidates, t)
           \/ /\ \A i, j \in PendingIn(candidates', t) :
                   i \in PendingIn(candidates, t) \/ j \in PendingIn(candidates, t)
                     \/ i = j
              /\ \/ \E r \in Runs : CreateRegression(r) /\ t = "regression"
                 \/ \E s \in Scans : Create(s) /\ t = ScanOrder[scan[s].pos]
                 \/ spent'["manual"] # 0
<1>1. candidates \in Seq(CandidateRows)
  BY DEF BaseInv, TypeOK
<1>2. ASSUME DOMAIN candidates' = DOMAIN candidates
      PROVE  PendingIn(candidates', t) \subseteq PendingIn(candidates, t)
  BY <1>2, CandidatesKept DEF PendingIn
<1>3. ASSUME NEW u \in Triggers, NEW c \in CandidateRows, c.trigger = u,
             candidates' = Append(candidates, c)
      PROVE  /\ t # u => PendingIn(candidates', t) \subseteq PendingIn(candidates, t)
             /\ \A i, j \in PendingIn(candidates', t) :
                  i \in PendingIn(candidates, t) \/ j \in PendingIn(candidates, t)
                    \/ i = j
  <2>1. /\ DOMAIN candidates = 1..Len(candidates) /\ Len(candidates) \in Nat
        /\ DOMAIN candidates' = 1..(Len(candidates) + 1)
        /\ \A i \in 1..Len(candidates) : candidates'[i] = candidates[i]
        /\ candidates'[Len(candidates) + 1] = c
    <3> HIDE DEF CandidateRows
    <3> QED
      BY <1>1, <1>3, AppendFacts
  <2>2. \A i \in PendingIn(candidates', t) :
          \/ i \in PendingIn(candidates, t)
          \/ i = Len(candidates) + 1 /\ t = u
    BY <1>3, <2>1 DEF PendingIn
  <2> QED
    BY <2>2
<1>4. CASE \E r \in Runs : CreateRegression(r)
  <2>1. PICK r \in Runs : CreateRegression(r)
    BY <1>4
  <2>2. /\ Candidate("regression", run[r].pair) \in CandidateRows
        /\ Candidate("regression", run[r].pair).trigger = "regression"
        /\ candidates' = Append(candidates, Candidate("regression", run[r].pair))
        /\ "regression" \in Triggers
    BY <2>1, RaiseFacts, CandidateFacts, ScanOrderFacts DEF BaseInv
  <2> QED
    BY <1>3, <2>1, <2>2
<1>5. CASE \E s \in Scans : Create(s)
  <2>1. PICK s \in Scans : Create(s)
    BY <1>5
  <2>2. ScanStep(s)
    BY <2>1 DEF ScanStep
  <2> DEFINE u == ScanOrder[scan[s].pos]
  <2>3. /\ Candidate(u, None) \in CandidateRows /\ u \in Triggers
        /\ Candidate(u, None).trigger = u
        /\ candidates' = Append(candidates, Candidate(u, None))
    BY <2>1, <2>2, ScanFrame, CandidateFacts
  <2> QED
    BY <1>3, <2>1, <2>3
<1>6. CASE \E u \in Triggers : /\ candidates' = Append(candidates, Candidate(u, None))
                               /\ spent'["manual"] # 0
  <2>1. PICK u \in Triggers : /\ candidates' = Append(candidates, Candidate(u, None))
                              /\ spent'["manual"] # 0
    BY <1>6
  <2>2. /\ Candidate(u, None) \in CandidateRows
        /\ Candidate(u, None).trigger = u
    BY CandidateFacts
  <2> QED
    BY <1>3, <2>1, <2>2
<1>7. \/ DOMAIN candidates' = DOMAIN candidates
      \/ \E r \in Runs : CreateRegression(r)
      \/ \E s \in Scans : Create(s)
      \/ \E u \in Triggers : /\ candidates' = Append(candidates, Candidate(u, None))
                             /\ spent'["manual"] # 0
  <2>1. CASE \E d \in Decisions : update_candidate_status(d)
    BY <2>1, UpdateFacts DEF BaseInv
  <2>2. CASE OtherStep /\ ~\E d \in Decisions : update_candidate_status(d)
    BY <2>2, OtherFacts
  <2>3. CASE \E r \in Runs : RunStep(r)
    BY <2>3, RunFrame
  <2>4. CASE \E s \in Scans : ScanStep(s)
    BY <2>4, ScanFrame
  <2>5. CASE Aside
    BY <2>5 DEF Aside, storeVars
  <2> QED
    BY <2>1, <2>2, <2>3, <2>4, <2>5, NextCases
<1> QED
  BY <1>2, <1>4, <1>5, <1>6, <1>7

\* PendingInv, of the values of the variables it speaks of.
PendingOK(C, rs, ss) ==
    /\ \A t \in Triggers : \A i, j \in PendingIn(C, t) : i = j
    /\ \A r \in Runs : rs[r].pc = "create" => PendingIn(C, "regression") = {}
    /\ \A s \in Scans : ss[s].pc = "create" =>
         PendingIn(C, ScanOrder[ss[s].pos]) = {}

Calm(sp) == sp["manual"] = 0 /\ sp["scan"] <= 1 /\ sp["overlap"] = 0

LEMMA PendingForm == PendingInv <=> (Calm(spent) => PendingOK(candidates, run, scan))
  BY DEF PendingInv, PendingOK, Calm, PendingFor, PendingIn

LEMMA CalmKept ==
    ASSUME BaseInv, Next \/ Aside, Calm(spent')
    PROVE  Calm(spent)
<1>1. spent["scan"] \in Nat
  <2>1. spent \in [BoundedEvents -> Nat]
    BY DEF BaseInv, TypeOK
  <2> HIDE DEF BoundedEvents
  <2> QED
    BY <2>1, BoundedFacts
<1>2. CASE \E r \in Runs : RunStep(r)
  BY <1>2, RunSpends DEF Calm
<1>3. CASE \E s \in Scans : ScanStep(s)
  <2>1. PICK s \in Scans : ScanStep(s)
    BY <1>3
  <2>2. /\ spent'["manual"] = spent["manual"] /\ spent'["overlap"] = spent["overlap"]
        /\ spent'["scan"] = spent["scan"] \/ spent'["scan"] = spent["scan"] + 1
    BY <2>1, ScanFrame
  <2> QED
    BY <1>1, <2>2 DEF Calm
<1>4. CASE OtherStep
  BY <1>4, OtherFacts DEF Calm
<1>5. CASE Aside
  BY <1>5 DEF Aside, Calm
<1> QED
  BY <1>2, <1>3, <1>4, <1>5, NextCases

LEMMA PendingStep ==
    ASSUME BaseInv, AloneInv, PendingInv, Next \/ Aside
    PROVE  PendingInv'
<1>1. TypeOK
  BY DEF BaseInv
<1> SUFFICES ASSUME Calm(spent') PROVE PendingOK(candidates', run', scan')
  BY DEF PendingInv, PendingOK, Calm, PendingFor, PendingIn
<1>2. Calm(spent) /\ PendingOK(candidates, run, scan)
  BY CalmKept, PendingForm
<1>3. \A q, r \in Active : q = r
  BY <1>2 DEF AloneInv, Calm
<1>4. \A s, u \in Scans :
        scan[s].pc # "waiting" /\ scan[u].pc # "waiting" => s = u
  BY <1>2 DEF AloneInv, Calm
<1>5. ASSUME NEW r \in Runs, CreateRegression(r)
      PROVE  /\ PendingIn(candidates, "regression") = {}
             /\ \A x \in Runs : run'[x].pc # "create"
             /\ \A s \in Scans : scan'[s] = scan[s]
             /\ RunStep(r)
  <2>1. run[r].pc = "create" /\ RunTo(r, "done") /\ RunStep(r)
    BY <1>1, <1>5, RaiseFacts DEF RunStep
  <2>2. \A x \in Runs \ {r} : run[x].pc # "create"
    BY <1>3, <2>1 DEF Active
  <2>3. scan' = scan
    BY <2>1, RunFrame
  <2> QED
    BY <1>2, <2>1, <2>2, <2>3 DEF PendingOK, RunTo
<1>6. ASSUME NEW s \in Scans, Create(s)
      PROVE  /\ PendingIn(candidates, ScanOrder[scan[s].pos]) = {}
             /\ \A x \in Scans : scan'[x].pc # "create"
             /\ run' = run /\ ScanOrder[scan[s].pos] # "regression"
  <2>1. scan[s] \in BusyScan /\ scan[s].pc = "create" /\ ScanTo(s, Advance(scan[s]))
    BY <1>1, <1>6, CreateFacts
  <2>2. Advance(scan[s]).pc # "create"
    BY <2>1, AdvanceFacts
  <2>3. \A x \in Scans \ {s} : scan[x].pc # "create"
    BY <1>4, <2>1
  <2>4. ScanStep(s)
    BY <1>6 DEF ScanStep
  <2> QED
    BY <1>2, <1>6, <2>1, <2>2, <2>3, <2>4, ScanFrame DEF PendingOK, ScanTo
<1>7. ASSUME NEW t \in Triggers
      PROVE  \A i, j \in PendingIn(candidates', t) : i = j
  <2>1. CASE PendingIn(candidates', t) \subseteq PendingIn(candidates, t)
    BY <1>2, <2>1 DEF PendingOK
  <2>2. CASE ~(PendingIn(candidates', t) \subseteq PendingIn(candidates, t))
    <3>1. PendingIn(candidates, t) = {}
      BY <1>5, <1>6, <2>2, PendingSteps DEF Calm
    <3> QED
      BY <2>2, <3>1, PendingSteps
  <2> QED
    BY <2>1, <2>2
\* Who is about to create has looked and found nothing, now or before.
<1>8. ASSUME NEW x \in Runs, run'[x].pc = "create"
      PROVE  PendingIn(candidates', "regression") = {}
  <2>1. ~\E r \in Runs : CreateRegression(r)
    BY <1>5, <1>8
  <2>2. ~\E s \in Scans : Create(s) /\ "regression" = ScanOrder[scan[s].pos]
    BY <1>6
  <2>3. PendingIn(candidates', "regression") \subseteq
          PendingIn(candidates, "regression")
    BY <2>1, <2>2, PendingSteps DEF Calm
  <2>4. CASE run[x].pc = "create"
    BY <1>2, <2>3, <2>4 DEF PendingOK
  <2>5. CASE run[x].pc # "create"
    <3>1. RunStep(x)
      <4>1. \A r \in Runs : RunStep(r) => x = r
        BY <1>1, <1>8, <2>5, RunMoves
      <4>2. \E r \in Runs : RunStep(r)
        BY <1>8, <2>5, NextCases, ScanFrame, OtherFacts DEF Aside, storeVars
      <4> QED
        BY <4>1, <4>2
    <3>2. FindRegression(x)
      BY <1>1, <1>8, <3>1, Arrivals
    <3>3. ~AlreadyPending("regression") /\ ~Ambiguous("regression")
      <4>1. CASE AlreadyPending("regression") \/ Ambiguous("regression")
        <5>1. GotoRun(x, "done") /\ run[x].pc = "find"
          BY <3>2, <4>1 DEF FindRegression
        <5>2. run'[x].pc = "done"
          BY <1>1, <5>1, GotoFacts DEF RunPcs, RunTo
        <5> QED
          BY <1>8, <5>2
      <4> QED
        BY <4>1
    <3>4. PendingFor("regression") = {}
      BY <1>1, <3>3, PendingFacts
    <3> QED
      BY <2>3, <3>4 DEF PendingFor, PendingIn
  <2> QED
    BY <2>4, <2>5
<1>9. ASSUME NEW x \in Scans, scan'[x].pc = "create"
      PROVE  PendingIn(candidates', ScanOrder[scan'[x].pos]) = {}
  <2> DEFINE t == ScanOrder[scan'[x].pos]
  <2>1. ~\E s \in Scans : Create(s)
    BY <1>6, <1>9
  <2>2. CASE scan'[x] = scan[x]
    <3>1. scan[x].pos \in 1..Len(ScanOrder)
      BY <1>1, <1>9, <2>2, ScanTypes DEF BusyScan
    <3>2. t # "regression"
      BY <2>2, <3>1, ScanOrderFacts
    <3>3. PendingIn(candidates', t) \subseteq PendingIn(candidates, t)
      BY <2>1, <3>2, PendingSteps DEF Calm
    <3> QED
      BY <1>2, <1>9, <2>2, <3>3 DEF PendingOK
  <2>3. CASE scan'[x] # scan[x]
    <3>1. ScanStep(x)
      <4>1. \E s \in Scans : ScanStep(s)
        BY <2>3, NextCases, RunFrame, OtherFacts DEF Aside, storeVars
      <4> QED
        BY <2>3, <4>1, ScanMoves DEF ScanTo
    <3>2. Find(x)
      <4>1. CASE \E found \in BOOLEAN : BeginScan(x, found)
        BY <1>1, <1>9, <4>1, BeginScanFacts DEF BaseInv, ScanTo
      <4>2. CASE Look(x)
        BY <1>1, <1>9, <4>2, LookFacts, AdvanceFacts DEF ScanTo
      <4> QED
        BY <2>1, <3>1, <4>1, <4>2 DEF ScanStep
    <3>3. /\ scan[x] \in BusyScan /\ scan'[x].pos = scan[x].pos
          /\ ~Ambiguous(ScanOrder[scan[x].pos])
          /\ ~AlreadyPending(ScanOrder[scan[x].pos])
      BY <1>1, <1>9, <3>2, FindFacts, AdvanceFacts DEF ScanTo
    <3>4. PendingFor(t) = {}
      BY <1>1, <3>3, PendingFacts
    <3>5. candidates' = candidates
      BY <2>1, <3>1, ScanFrame
    <3> QED
      BY <3>4, <3>5 DEF PendingFor, PendingIn
  <2> QED
    BY <2>2, <2>3
<1> QED
  BY <1>7, <1>8, <1>9 DEF PendingOK
-----------------------------------------------------------------------------
(***************************************************************************)
(* One worker records in order, compares every pair and raises what it     *)
(* finds.                                                                  *)
(***************************************************************************)

\* Nothing but a worker records or compares validations.
LEMMA RestFrame ==
    ASSUME BaseInv, Next \/ Aside
    PROVE  \/ \E r \in Runs : RunStep(r)
           \/ /\ UNCHANGED <<run, validations, compared>>
              /\ spent'["overlap"] = spent["overlap"]
              /\ spent'["fail"] = spent["fail"]
<1>1. ASSUME NEW s \in Scans, ScanStep(s)
      PROVE  /\ UNCHANGED <<run, validations, compared>>
             /\ spent'["overlap"] = spent["overlap"]
             /\ spent'["fail"] = spent["fail"]
  BY <1>1, ScanFrame DEF history
<1>2. CASE OtherStep
  BY <1>2, OtherFacts
<1>3. CASE Aside
  BY <1>3 DEF Aside, storeVars, history
<1> QED
  BY <1>1, <1>2, <1>3, NextCases

\* Of V, when the workers are where rs says.
OrderIn(V, rs) ==
    /\ \A u, v \in V : u.at = v.at => u = v
    /\ \A r \in Runs :
         /\ rs[r].pc = "record" => \A v \in V : v.at < rs[r].at
         /\ rs[r].pc = "compare" =>
              \E l \in V : l.label = rs[r].label /\ NewestIn(V, l)

LEMMA OrderForm ==
    OrderInv <=> (spent["overlap"] = 0 => OrderIn(validations, run))
  BY DEF OrderInv, OrderIn

LEMMA AtFacts ==
    ASSUME BaseInv
    PROVE  /\ clock \in Nat
           /\ \A v \in validations : v.at \in Nat /\ v.at <= clock
           /\ \A r \in Runs : run[r].pc # "waiting" => run[r].at \in Nat
<1>1. TypeOK /\ StampInv
  BY DEF BaseInv
<1>2. \A r \in Runs : run[r].pc # "waiting" => run[r].at \in Nat
  BY <1>1, RunTypes DEF BusyRun
<1>3. \A v \in validations : v.at \in Nat
  BY <1>1 DEF TypeOK, ValidationRows
<1> QED
  BY <1>1, <1>2, <1>3 DEF TypeOK, StampInv

LEMMA OrderStep ==
    ASSUME BaseInv, AloneInv, OrderInv, Next \/ Aside
    PROVE  OrderInv'
<1>1. TypeOK
  BY DEF BaseInv
<1>2. CASE ~\E r \in Runs : RunStep(r)
  BY <1>2, RestFrame DEF OrderInv, NewestIn
<1>3. ASSUME NEW r \in Runs, RunStep(r), spent'["overlap"] = 0
      PROVE  OrderIn(validations', run')
  <2>1. /\ \A x \in Runs \ {r} : run[x].pc \in {"waiting", "done"}
        /\ spent["overlap"] = 0
    BY <1>3, LoneWorker
  <2>2. OrderIn(validations, run)
    BY <2>1, OrderForm
  <2>3. \A x \in Runs \ {r} : run'[x].pc \in {"waiting", "done"}
    BY <1>1, <1>3, <2>1, RunMoves
  <2>4. CASE record_validation(r)
    <3> DEFINE n == NewValidation(r)
    <3>1. /\ run[r].pc = "record" /\ run'[r].pc = "compare"
          /\ run'[r].label = run[r].label
          /\ validations' = validations \cup {n}
          /\ n.label = run[r].label /\ n.at = run[r].at
      BY <1>1, <2>4, RecordFacts DEF RunTo, Kept
    <3> HIDE DEF n
    <3>2. \A v \in validations : v.at < n.at /\ v.at \in Nat /\ n.at \in Nat
      BY <2>2, <3>1, AtFacts DEF OrderIn
    <3>3. \A u, v \in validations' : u.at = v.at => u = v
      BY <2>2, <3>1, <3>2 DEF OrderIn
    <3>4. NewestIn(validations', n)
      BY <3>1, <3>2 DEF NewestIn
    <3> QED
      BY <2>3, <3>1, <3>3, <3>4 DEF OrderIn
  <2>5. CASE ~record_validation(r)
    <3>1. validations' = validations
      BY <1>3, <2>5, RunFrame
    <3>2. run'[r].pc # "compare" /\ (run'[r].pc = "record" => Stamp(r))
      BY <1>1, <1>3, <2>5, Arrivals
    <3>3. Stamp(r) => \A v \in validations : v.at < run'[r].at
      BY <1>1, StampFacts, AtFacts
    <3> QED
      BY <2>2, <2>3, <3>1, <3>2, <3>3 DEF OrderIn
  <2> QED
    BY <2>4, <2>5
<1>4. OrderInv' <=> (spent'["overlap"] = 0 => OrderIn(validations', run'))
  BY DEF OrderInv, OrderIn, NewestIn
<1> QED
  BY <1>2, <1>3, <1>4

\* Of V, when C have been compared and the workers are where rs says.
PairIn(V, C, rs) ==
    \A p, l \in V : ConsecutiveIn(V, p, l) =>
        \/ <<p, l>> \in C
        \/ NewestIn(V, l) /\ \E r \in Runs : rs[r].pc = "compare"

\* A newer validation does not come between two others.
LEMMA StillConsecutive ==
    ASSUME NEW V, NEW n, \A v \in V : v.at \in Nat /\ n.at \in Nat /\ v.at < n.at,
           NEW p \in V \cup {n}, NEW l \in V
    PROVE  ConsecutiveIn(V \cup {n}, p, l) <=> p \in V /\ ConsecutiveIn(V, p, l)
<1> DEFINE S == {v \in V : v.label = l.label}
           T == {v \in V \cup {n} : v.label = l.label}
<1>1. Before(l, T) = Before(l, S)
  BY DEF Before
<1>2. p \in V => Before(p, T) = Before(p, S)
  BY DEF Before
<1>3. n \notin Before(l, T)
  BY DEF Before
<1> QED
  BY <1>1, <1>2, <1>3 DEF ConsecutiveIn

LEMMA PairStep ==
    ASSUME BaseInv, AloneInv, OrderInv, PairInv, Next \/ Aside
    PROVE  PairInv'
<1>1. TypeOK
  BY DEF BaseInv
<1>2. CASE ~\E r \in Runs : RunStep(r)
  BY <1>2, RestFrame DEF PairInv, NewestIn, ConsecutiveIn, Before
<1>3. ASSUME NEW r \in Runs, RunStep(r), spent'["overlap"] = 0, spent'["fail"] = 0
      PROVE  PairIn(validations', compared', run')
  <2>1. /\ \A x \in Runs \ {r} : run[x].pc \in {"waiting", "done"}
        /\ spent["overlap"] = 0 /\ spent["fail"] = 0 /\ ~Fail(r)
    BY <1>3, LoneWorker, RunSpends
  <2>2. PairIn(validations, compared, run) /\ OrderIn(validations, run)
    BY <2>1, OrderForm DEF PairInv, PairIn
  <2>3. CASE record_validation(r)
    <3> DEFINE n == NewValidation(r)
    <3>1. /\ run[r].pc = "record" /\ run'[r].pc = "compare"
          /\ validations' = validations \cup {n} /\ n.at = run[r].at
      BY <1>1, <2>3, RecordFacts DEF RunTo
    <3>2. compared' = compared
      BY <2>3 DEF record_validation, history
    <3> HIDE DEF n
    <3>3. \A v \in validations : v.at < n.at /\ v.at \in Nat /\ n.at \in Nat
      BY <2>2, <3>1, AtFacts DEF OrderIn
    <3>4. NewestIn(validations', n)
      BY <3>1, <3>3 DEF NewestIn
    <3>5. ~\E x \in Runs : run[x].pc = "compare"
      BY <2>1, <3>1
    <3>6. ASSUME NEW p \in validations', NEW l \in validations', l # n,
                 ConsecutiveIn(validations', p, l)
          PROVE  <<p, l>> \in compared
      <4>1. p \in validations /\ ConsecutiveIn(validations, p, l)
        BY <3>1, <3>3, <3>6, StillConsecutive
      <4> QED
        BY <2>2, <3>1, <3>5, <3>6, <4>1 DEF PairIn
    <3> QED
      BY <3>1, <3>2, <3>4, <3>6 DEF PairIn
  <2>4. CASE Compare(r)
    <3>1. /\ run[r].pc = "compare" /\ validations' = validations
          /\ compared' = compared \cup LastTwo(run[r].label)
      BY <1>1, <2>4, CompareFacts DEF Compare
    <3>2. PICK n \in validations :
            n.label = run[r].label /\ NewestIn(validations, n)
      BY <2>2, <3>1 DEF OrderIn
    <3>3. ASSUME NEW p \in validations, NEW l \in validations,
                 ConsecutiveIn(validations, p, l), <<p, l>> \notin compared
          PROVE  <<p, l>> \in LastTwo(run[r].label)
      <4>1. NewestIn(validations, l)
        BY <2>2, <3>3 DEF PairIn
      <4>2. l = n
        BY <3>2, <4>1, AtFacts DEF NewestIn
      <4> DEFINE S == SameVersion(run[r].label)
      <4>3. S = {v \in validations : v.label = l.label}
        BY <3>2, <4>2 DEF SameVersion
      <4>4. IsFiniteSet(S)
        BY <1>1, <4>3, FS_Subset DEF TypeOK
      <4>5. p \in S /\ l \in S /\ Before(l, S) = Before(p, S) \cup {p}
        BY <3>3, <4>3 DEF ConsecutiveIn
      <4>6. \A v \in S : v \in validations /\ v.at \in Nat
        BY <4>3, AtFacts
      <4> HIDE DEF S
      <4>7. p # l /\ Before(l, S) = S \ {l}
        BY <4>1, <4>5, <4>6 DEF NewestIn, Before
      <4>8. Before(p, S) = S \ {l, p}
        BY <4>5, <4>6, <4>7 DEF Before
      <4>9. /\ Cardinality(Before(l, S)) = Cardinality(S) - 1
            /\ Cardinality(Before(p, S)) = Cardinality(S) - 2
        BY <4>4, <4>5, <4>7, <4>8, LastTwoConverse
      <4> QED
        BY <4>5, <4>9 DEF LastTwo, LastTwoOf, S
    <3> QED
      BY <3>1, <3>3 DEF PairIn
  <2>5. CASE ~record_validation(r) /\ ~Compare(r)
    <3>1. validations' = validations /\ compared' = compared
      BY <1>3, <2>5, RunFrame
    <3>2. run[r].pc # "compare"
      BY <1>1, <1>3, <2>1, <2>5, Departures
    <3>3. ~\E x \in Runs : run[x].pc = "compare"
      BY <2>1, <3>2
    <3> QED
      BY <2>2, <3>1, <3>3 DEF PairIn
  <2> QED
    BY <2>3, <2>4, <2>5
<1>4. PairInv' <=> (spent'["overlap"] = 0 /\ spent'["fail"] = 0 =>
                      PairIn(validations', compared', run'))
  BY DEF PairInv, PairIn, ConsecutiveIn, NewestIn, Before
<1> QED
  BY <1>2, <1>3, <1>4

LEMMA RaisedStep ==
    ASSUME BaseInv, RaisedInv, Next \/ Aside
    PROVE  RaisedInv'
<1>1. TypeOK
  BY DEF BaseInv
<1>2. CASE ~\E r \in Runs : RunStep(r)
  <2>1. RaisedIn(candidates, "regression") => RaisedIn(candidates', "regression")
    BY RaisedKept
  <2> QED
    BY <1>2, <2>1, RestFrame DEF RaisedInv
<1>3. ASSUME NEW r \in Runs, RunStep(r), spent'["fail"] = 0,
             NEW pr \in compared', Worse(pr)
      PROVE  \/ RaisedIn(candidates', "regression")
             \/ \E x \in Runs : run'[x].pc \in {"find", "create"}
  <2>1. spent["fail"] = 0 /\ ~Fail(r)
    BY <1>3, RunSpends
  <2>2. \A x \in Runs \ {r} : run'[x] = run[x]
    BY <1>1, <1>3, RunMoves
  <2>3. CASE pr \notin compared
    <3>1. Compare(r) /\ pr \in LastTwo(run[r].label)
      BY <1>1, <1>3, <2>3, RunFrame, CompareFacts
    <3>2. RunTo(r, "find")
      BY <1>1, <1>3, <3>1, CompareFacts
    <3> QED
      BY <3>2 DEF RunTo
  <2>4. CASE RaisedIn(candidates, "regression")
    <3>1. RaisedIn(candidates', "regression")
      BY <1>3, <2>4, RaisedKept, NextCases
    <3> QED
      BY <3>1
  <2>5. CASE pr \in compared /\ ~RaisedIn(candidates, "regression")
    <3>1. PICK x \in Runs : run[x].pc \in {"find", "create"}
      BY <1>3, <2>1, <2>5 DEF RaisedInv
    <3>2. CASE x # r
      BY <2>2, <3>1, <3>2
    <3>3. CASE run[r].pc = "find"
      <4>1. FindRegression(r)
        BY <1>1, <1>3, <2>1, <3>3, Departures
      <4>2. ~(AlreadyPending("regression") \/ Ambiguous("regression"))
        BY <1>1, <2>5, PendingFacts
      <4>3. GotoRun(r, "create")
        BY <4>1, <4>2 DEF FindRegression
      <4>4. run'[r].pc = "create"
        BY <1>1, <3>3, <4>3, GotoFacts DEF RunTo, RunPcs
      <4> QED
        BY <4>4
    <3>4. CASE run[r].pc = "create"
      <4>1. CreateRegression(r)
        BY <1>1, <1>3, <2>1, <3>4, Departures
      <4> DEFINE c == Candidate("regression", run[r].pair)
      <4>2. /\ c \in CandidateRows /\ c.trigger = "regression"
            /\ candidates' = Append(candidates, c)
            /\ candidates \in Seq(CandidateRows)
        BY <1>1, <4>1, RaiseFacts, CandidateFacts, ScanOrderFacts DEF TypeOK
      <4> HIDE DEF c, CandidateRows
      <4>3. /\ Len(candidates) + 1 \in DOMAIN candidates'
            /\ candidates'[Len(candidates) + 1] = c
        BY <4>2, AppendFacts
      <4> QED
        BY <4>2, <4>3 DEF RaisedIn
    <3> QED
      BY <3>1, <3>2, <3>3, <3>4
  <2> QED
    BY <2>3, <2>4, <2>5
<1> QED
  BY <1>2, <1>3 DEF RaisedInv, Worse

AssuranceInv ==
    /\ BaseInv /\ KnownInv /\ AloneInv /\ RealInv /\ PendingInv /\ DueInv
    /\ OrderInv /\ PairInv /\ RaisedInv

LEMMA AssuranceStart == ASSUME Init PROVE AssuranceInv
<1>1. /\ validations = {} /\ candidates = <<>> /\ compared = {} /\ lost = {}
      /\ \A r \in Runs : run[r].pc = "waiting"
      /\ \A s \in Scans : scan[s].pc = "waiting" /\ scan[s].due = {}
  BY DEF Init
<1>2. DOMAIN candidates = {}
  BY <1>1
<1>3. BaseInv
  BY BaseInit
<1>4. KnownInv /\ DueInv /\ OrderInv /\ PairInv /\ RaisedInv
  BY <1>1 DEF KnownInv, DueInv, OrderInv, PairInv, RaisedInv
<1>5. AloneInv
  BY <1>1 DEF AloneInv, Active
<1>6. RealInv
  BY <1>1, <1>2 DEF RealInv, RegressionsAreReal
<1>7. PendingInv
  BY <1>1, <1>2 DEF PendingInv, PendingFor
<1> QED
  BY <1>3, <1>4, <1>5, <1>6, <1>7 DEF AssuranceInv

LEMMA AssuranceStep ==
    ASSUME AssuranceInv, [AnalystNext]_allVars
    PROVE  AssuranceInv'
<1>1. /\ BaseInv /\ KnownInv /\ AloneInv /\ RealInv /\ PendingInv /\ DueInv
      /\ OrderInv /\ PairInv /\ RaisedInv
  BY DEF AssuranceInv
<1>2. Next \/ Aside
  BY <1>1, AsideFacts DEF BaseInv
<1>3. BaseInv'
  BY <1>1, <1>2, NextCases, BaseRun, BaseScan, BaseOther, BaseAside
<1>4. KnownInv' /\ AloneInv' /\ RealInv'
  BY <1>1, <1>2, KnownStep, AloneStep, RealStep
<1>5. PendingInv' /\ DueInv'
  BY <1>1, <1>2, PendingStep, DueStep
<1>6. OrderInv' /\ PairInv' /\ RaisedInv'
  BY <1>1, <1>2, OrderStep, PairStep, RaisedStep
<1> QED
  BY <1>3, <1>4, <1>5, <1>6 DEF AssuranceInv

\* The inductive invariant of the assurance record, whatever the analyst does
\* beside it.
THEOREM AssuranceInvariance == AnalystSpec => []AssuranceInv
<1>1. AnalystInit => AssuranceInv
  BY AssuranceStart DEF AnalystInit
<1>2. AssuranceInv /\ [AnalystNext]_allVars => AssuranceInv'
  BY AssuranceStep
<1> QED
  BY <1>1, <1>2, PTL DEF AnalystSpec

\* A run whose control and version had their rows when it completed does not
\* lose its validation to a worker that inserts them at the same time
\* (get_or_create_control, get_or_create_control_version).
THEOREM KnownKept == AnalystSpec => []KnownControlKeepsValidation
<1>1. AssuranceInv => KnownControlKeepsValidation
  BY DEF AssuranceInv, KnownInv, KnownControlKeepsValidation
<1> QED
  BY <1>1, AssuranceInvariance, PTL

\* Every candidate that names a pair of validations rests on a regression
\* between them (record_control_validation_and_check_regression).
THEOREM RegressionsReal == AnalystSpec => []RegressionsAreReal
<1>1. AssuranceInv => RegressionsAreReal
  BY DEF AssuranceInv, RealInv
<1> QED
  BY <1>1, AssuranceInvariance, PTL

\* Without overlap the look before an insert is enough
\* (create_candidate_if_new).
THEOREM OneIsPending == AnalystSpec => []OnePending
<1>1. ASSUME AssuranceInv, spent["manual"] = 0, spent["scan"] <= 1,
             spent["overlap"] = 0, NEW t \in Triggers
      PROVE  Cardinality(PendingFor(t)) <= 1
  <2>1. \A i, j \in PendingFor(t) : i = j
    BY <1>1 DEF AssuranceInv, PendingInv
  <2>2. CASE PendingFor(t) = {}
    BY <2>2, FS_EmptySet
  <2>3. CASE PendingFor(t) # {}
    <3>1. PICK i \in PendingFor(t) : TRUE
      BY <2>3
    <3>2. PendingFor(t) = {i}
      BY <2>1, <3>1
    <3>3. Cardinality({i}) = 1
      BY FS_Singleton
    <3> QED
      BY <3>2, <3>3
  <2> QED
    BY <2>2, <2>3
<1>2. AssuranceInv => OnePending
  BY <1>1 DEF OnePending
<1> QED
  BY <1>2, AssuranceInvariance, PTL

\* A finished scan leaves nothing that was due without a candidate (scan).
THEOREM DueRaised == AnalystSpec => []ScanRaisesDue
<1>1. AssuranceInv => ScanRaisesDue
  BY DEF AssuranceInv, DueInv, ScanRaisesDue, RaisedIn
<1> QED
  BY <1>1, AssuranceInvariance, PTL

\* One worker that does not fail compares every validation with the one
\* before it (record_control_validation_and_check_regression).
THEOREM PairsCompared == AnalystSpec => []EveryPairCompared
<1>1. ASSUME AssuranceInv, Active = {}, spent["overlap"] = 0, spent["fail"] = 0,
             NEW l \in validations, NEW p \in SameVersion(l.label),
             Before(l, SameVersion(l.label)) =
               Before(p, SameVersion(l.label)) \cup {p}
      PROVE  <<p, l>> \in compared
  <2>1. p \in validations /\ ConsecutiveIn(validations, p, l)
    BY <1>1 DEF SameVersion, ConsecutiveIn
  <2>2. \A r \in Runs : run[r].pc # "compare"
    BY <1>1 DEF Active
  <2> QED
    BY <1>1, <2>1, <2>2 DEF AssuranceInv, PairInv
<1>2. AssuranceInv => EveryPairCompared
  BY <1>1 DEF EveryPairCompared
<1> QED
  BY <1>2, AssuranceInvariance, PTL
-----------------------------------------------------------------------------
(***************************************************************************)
(* The analyst: what an assessment names is real.                          *)
(***************************************************************************)

\* Request q at time n, and what it has gathered when H[v] were the domains
\* of v so far.
RequestOK(n, q) ==
    /\ q.pc \in {"waiting", "list", "pattern", "generate", "save", "done"}
    /\ q.pc \in {"list", "pattern", "generate"} =>
         /\ q = [pc |-> q.pc, type |-> q.type, subject |-> q.subject,
                 row |-> q.row, supplied |-> q.supplied,
                 pattern |-> q.pattern, pair |-> q.pair]
         /\ AboutOne(q.type, q.subject, q.pattern)
    /\ q.pc \in {"list", "pattern"} => q.type \in VulnerabilityTypes
    /\ q.pc = "save" => /\ AboutOne(q.type, q.subject, q.pattern)
                        /\ q.at \in Nat /\ q.at <= n

RequestReal(H, q) ==
    /\ q.pc \in {"list", "pattern", "generate"} =>
         /\ RealNames(H, q.type, q.subject, q.supplied)
         /\ q.type = "failure_pattern" /\ q.supplied = {} =>
              Unknown \in H[q.subject]
         /\ q.pc = "list" =>
              /\ q.type = "similarity"
              /\ q.row.domain_guess \in H[q.subject]
    /\ q.pc = "save" => RealNames(H, q.type, q.subject, q.names)
    /\ (q.pc \in {"list", "pattern", "generate", "save"} /\ q.pattern # {})
         => KnownPattern(H, q.subject, q.pattern)

RowOK(n, s) ==
    /\ s = [id |-> s.id, type |-> s.type, subject |-> s.subject,
            names |-> s.names, pattern |-> s.pattern, pair |-> s.pair,
            created_at |-> s.created_at, reviewed_by |-> s.reviewed_by]
    /\ AboutOne(s.type, s.subject, s.pattern)
    /\ s.created_at \in Nat /\ s.created_at <= n

RowReal(H, s) ==
    /\ RealNames(H, s.type, s.subject, s.names)
    /\ s.pattern # {} => KnownPattern(H, s.subject, s.pattern)

DomainsOK ==
    /\ vulnerabilities \in [CVEs -> [domain_guess : Domains \cup {Unknown},
                                     updated_at : Int]]
    /\ hadDomain \in [CVEs -> SUBSET (Domains \cup {Unknown})]
    /\ \A v \in CVEs : vulnerabilities[v].domain_guess \in hadDomain[v]

NamesInv == AnalystTypeOK /\ SuppliedInv /\ NamesAreReal

LEMMA NamesForm ==
    NamesInv <=>
      /\ DomainsOK
      /\ DOMAIN asked = AnalystRequests /\ DOMAIN review = Reviews
      /\ \A a \in AnalystRequests :
           RequestOK(clock, asked[a]) /\ RequestReal(hadDomain, asked[a])
      /\ \A s \in assessments : RowOK(clock, s) /\ RowReal(hadDomain, s)
<1>1. AnalystTypeOK <=>
        /\ DomainsOK
        /\ DOMAIN asked = AnalystRequests /\ DOMAIN review = Reviews
        /\ \A a \in AnalystRequests : RequestOK(clock, asked[a])
        /\ \A s \in assessments : RowOK(clock, s)
  BY DEF AnalystTypeOK, DomainsOK, RequestOK, RowOK
<1>2. SuppliedInv <=> \A a \in AnalystRequests : RequestReal(hadDomain, asked[a])
  BY DEF SuppliedInv, RequestReal
<1>3. NamesAreReal <=> \A s \in assessments : RowReal(hadDomain, s)
  BY DEF NamesAreReal, RowReal
<1> QED
  BY <1>1, <1>2, <1>3 DEF NamesInv

\* H2 knows of more domains than H.
Grown(H, H2) ==
    \A v \in CVEs : H[v] # {} /\ H[v] \subseteq H2[v]

LEMMA PatternKept ==
    ASSUME NEW H, NEW H2, Grown(H, H2), NEW v \in CVEs, NEW names,
           KnownPattern(H, v, names)
    PROVE  KnownPattern(H2, v, names)
  BY DEF Grown, KnownPattern

LEMMA NamesKept ==
    ASSUME NEW H, NEW H2, Grown(H, H2), NEW v \in CVEs, NEW type, NEW names,
           RealNames(H, type, v, names)
    PROVE  RealNames(H2, type, v, names)
<1>1. CASE type = "template_recommendation"
  <2>1. names \subseteq {t \in Templates : t.domain \in H[v]}
    BY <1>1 DEF RealNames
  <2>2. names \subseteq {t \in Templates : t.domain \in H2[v]}
    BY <2>1 DEF Grown
  <2> QED
    BY <1>1, <2>2 DEF RealNames
<1>2. CASE type = "similarity"
  <2>1. /\ names \subseteq CVEs \ {v}
        /\ \A d \in Domains : H[v] = {d} => \A u \in names : d \in H[u]
    BY <1>2 DEF RealNames
  <2>2. ASSUME NEW d \in Domains, H2[v] = {d}, NEW u \in names
        PROVE  d \in H2[u]
    <3>1. H[v] = {d}
      BY <2>2 DEF Grown
    <3> QED
      BY <2>1, <2>2, <3>1 DEF Grown
  <2> QED
    BY <1>2, <2>1, <2>2 DEF RealNames
<1>3. CASE type = "failure_pattern"
  <2>1. KnownPattern(H, v, names)
    BY <1>3 DEF RealNames
  <2>2. KnownPattern(H2, v, names)
    BY <2>1, PatternKept
  <2> QED
    BY <1>3, <2>2 DEF RealNames
<1>4. CASE type \notin {"template_recommendation", "similarity", "failure_pattern"}
  BY <1>4 DEF RealNames
<1> QED
  BY <1>1, <1>2, <1>3, <1>4

\* Fewer names are as real.
LEMMA FewerNames ==
    ASSUME NEW H, NEW v, NEW type, NEW names, NEW fewer, fewer \subseteq names,
           RealNames(H, type, v, names)
    PROVE  RealNames(H, type, v, fewer)
<1>1. CASE type = "template_recommendation"
  BY <1>1 DEF RealNames
<1>2. CASE type = "similarity"
  BY <1>2 DEF RealNames
<1>3. CASE type = "failure_pattern"
  BY <1>3 DEF RealNames, KnownPattern
<1>4. CASE type \notin {"template_recommendation", "similarity", "failure_pattern"}
  BY <1>4 DEF RealNames
<1> QED
  BY <1>1, <1>2, <1>3, <1>4

\* About a regression anything is real.
LEMMA OtherNames ==
    ASSUME NEW H, NEW v, NEW type, NEW names,
           type \notin {"template_recommendation", "similarity", "failure_pattern"}
    PROVE  RealNames(H, type, v, names)
  BY DEF RealNames

LEMMA RequestKept ==
    ASSUME NEW H, NEW H2, Grown(H, H2), NEW n \in Nat, NEW m \in Nat, n <= m,
           NEW q, RequestOK(n, q), RequestReal(H, q)
    PROVE  RequestOK(m, q) /\ RequestReal(H2, q)
<1>1. RequestOK(m, q)
  BY DEF RequestOK
<1>2. CASE q.pc \notin {"list", "pattern", "generate", "save"}
  BY <1>1, <1>2 DEF RequestReal
<1>3. CASE q.pc \in {"list", "pattern", "generate", "save"} /\ q.subject \in CVEs
  <2>1. \A names : RealNames(H, q.type, q.subject, names)
                     => RealNames(H2, q.type, q.subject, names)
    BY <1>3, NamesKept
  <2>2. \A names : KnownPattern(H, q.subject, names)
                     => KnownPattern(H2, q.subject, names)
    BY <1>3, PatternKept
  <2>3. H[q.subject] \subseteq H2[q.subject]
    BY <1>3 DEF Grown
  <2> QED
    BY <1>1, <1>3, <2>1, <2>2, <2>3 DEF RequestReal
<1>4. CASE q.pc \in {"list", "pattern", "generate", "save"} /\ q.subject \notin CVEs
  <2>1. q.type = "regression_explanation" /\ q.pattern = {}
    BY <1>4 DEF RequestOK, AboutOne
  <2>2. \A names : RealNames(H2, q.type, q.subject, names)
    BY <2>1, OtherNames
  <2> QED
    BY <1>1, <2>1, <2>2 DEF RequestReal
<1> QED
  BY <1>1, <1>2, <1>3, <1>4

LEMMA RowKept ==
    ASSUME NEW H, NEW H2, Grown(H, H2), NEW n \in Nat, NEW m \in Nat, n <= m,
           NEW s, RowOK(n, s), RowReal(H, s)
    PROVE  RowOK(m, s) /\ RowReal(H2, s)
<1>1. RowOK(m, s)
  BY DEF RowOK
<1>2. CASE s.subject \in CVEs
  BY <1>1, <1>2, NamesKept, PatternKept DEF RowReal
<1>3. CASE s.subject \notin CVEs
  <2>1. s.type = "regression_explanation" /\ s.pattern = {}
    BY <1>3 DEF RowOK, AboutOne
  <2>2. RealNames(H2, s.type, s.subject, s.names)
    BY <2>1, OtherNames
  <2> QED
    BY <1>1, <2>1, <2>2 DEF RowReal
<1> QED
  BY <1>1, <1>2, <1>3

LEMMA NoneGone ==
    ASSUME DomainsOK PROVE Grown(hadDomain, hadDomain)
  BY DEF DomainsOK, Grown

LEMMA EndedReal ==
    ASSUME NEW H, NEW n PROVE RequestOK(n, Ended) /\ RequestReal(H, Ended)
  BY DEF Ended, RequestOK, RequestReal

\* A request that has gathered what is real.
LEMMA FreshReal ==
    ASSUME NEW H, NEW n, NEW pc \in {"pattern", "generate"}, NEW type, NEW v,
           NEW supplied, AboutOne(type, v, {}), RealNames(H, type, v, supplied),
           type = "failure_pattern" /\ supplied = {} => Unknown \in H[v],
           type \in VulnerabilityTypes
    PROVE  /\ RequestOK(n, Request(pc, type, v, supplied))
           /\ RequestReal(H, Request(pc, type, v, supplied))
  BY DEF Request, RequestOK, RequestReal

\* What the routes gather.
LEMMA RouteFacts ==
    ASSUME DomainsOK, NEW v \in CVEs, NEW n,
           NEW q \in {classify_failure_pattern(v), analyze_mitigation_gap(v),
                      summarise_similarity(v), recommend_template(v)}
    PROVE  RequestOK(n, q) /\ RequestReal(hadDomain, q)
<1> DEFINE d == vulnerabilities[v].domain_guess
<1>1. d \in hadDomain[v] /\ d \in Domains \cup {Unknown}
  BY DEF DomainsOK
<1>2. CASE q = classify_failure_pattern(v)
  <2>1. KnownPattern(hadDomain, v, PatternsFor(d))
    BY <1>1 DEF KnownPattern, PatternsFor
  <2>2. RealNames(hadDomain, "failure_pattern", v, PatternsFor(d))
    BY <2>1 DEF RealNames
  <2>3. PatternsFor(d) = {} => Unknown \in hadDomain[v]
    BY <1>1, AnalystAssumption DEF PatternsFor
  <2>4. AboutOne("failure_pattern", v, {}) /\ "failure_pattern" \in VulnerabilityTypes
    BY DEF AboutOne, VulnerabilityTypes
  <2> QED
    BY <1>2, <2>2, <2>3, <2>4, FreshReal DEF classify_failure_pattern
<1>3. CASE q = analyze_mitigation_gap(v)
  <2>1. AboutOne("mitigation_gap", v, {}) /\ "mitigation_gap" \in VulnerabilityTypes
    BY DEF AboutOne, VulnerabilityTypes
  <2>2. RealNames(hadDomain, "mitigation_gap", v, {})
    BY OtherNames
  <2> QED
    BY <1>3, <2>1, <2>2, FreshReal DEF analyze_mitigation_gap
<1>4. CASE q = summarise_similarity(v)
  <2>1. AboutOne("similarity", v, {}) /\ "similarity" \in VulnerabilityTypes
    BY DEF AboutOne, VulnerabilityTypes
  <2>2. RealNames(hadDomain, "similarity", v, {})
    BY DEF RealNames
  <2>3. q = [pc |-> "list", type |-> "similarity", subject |-> v,
             row |-> vulnerabilities[v], supplied |-> {}, pattern |-> {},
             pair |-> None]
    BY <1>4 DEF summarise_similarity, Request
  <2> QED
    BY <1>1, <2>1, <2>2, <2>3 DEF RequestOK, RequestReal
<1>5. CASE q = recommend_template(v)
  <2>1. CASE d = Unknown
    BY <1>5, <2>1, EndedReal DEF recommend_template
  <2>2. CASE d # Unknown
    <3>1. q = Request("pattern", "template_recommendation", v, list_templates(d))
      BY <1>5, <2>2 DEF recommend_template
    <3>2. RealNames(hadDomain, "template_recommendation", v, list_templates(d))
      BY <1>1 DEF RealNames, list_templates
    <3>3. AboutOne("template_recommendation", v, {}) /\ "template_recommendation" \in VulnerabilityTypes
      BY DEF AboutOne, VulnerabilityTypes
    <3> QED
      BY <3>1, <3>2, <3>3, FreshReal
  <2> QED
    BY <2>1, <2>2
<1> QED
  BY <1>2, <1>3, <1>4, <1>5

LEMMA DraftFacts ==
    ASSUME NEW v \in CVEs, NEW d, NEW id, NEW n, NEW H
    PROVE  /\ RequestOK(n, draft_experiment_proposal(v, d, id))
           /\ RequestReal(H, draft_experiment_proposal(v, d, id))
<1>1. AboutOne("experiment_draft", v, {}) /\ "experiment_draft" \in VulnerabilityTypes
  BY DEF AboutOne, VulnerabilityTypes
<1>2. RealNames(H, "experiment_draft", v, {})
  BY OtherNames
<1>3. draft_experiment_proposal(v, d, id)
        \in {Ended, Request("pattern", "experiment_draft", v, {})}
  BY DEF draft_experiment_proposal
<1> QED
  BY <1>1, <1>2, <1>3, FreshReal, EndedReal

\* The correlations are with other vulnerabilities, of the subject's domain if
\* it has one.
LEMMA CorrelationFacts ==
    ASSUME NEW v \in CVEs, NEW row, NEW u \in Correlations(v, row)
    PROVE  /\ u \in CVEs \ {v}
           /\ row.domain_guess # Unknown =>
                vulnerabilities[u].domain_guess = row.domain_guess
<1> DEFINE subject == Vulnerability(v, row)
           listed == list_vulnerabilities(row.domain_guess)
           rs == {Vulnerability(w, vulnerabilities[w]) : w \in listed}
<1>1. subject.cve_id = v
  BY DEF Vulnerability
<1>2. u \in rank_correlations(subject, rs, 200, RankLimit)
  BY DEF Correlations
<1> HIDE DEF subject, rs
<1>3. \E c \in rs : c.cve_id = u /\ c.cve_id # subject.cve_id
  BY <1>2 DEF rank_correlations
<1>4. PICK w \in listed : Vulnerability(w, vulnerabilities[w]).cve_id = u
  BY <1>3 DEF rs
<1>5. u = w /\ u # v
  BY <1>1, <1>3, <1>4 DEF Vulnerability
<1>6. /\ w \in CVEs
      /\ row.domain_guess \in {Unknown, vulnerabilities[w].domain_guess}
  BY <1>4 DEF list_vulnerabilities
<1> QED
  BY <1>5, <1>6

LEMMA ListFacts ==
    ASSUME DomainsOK, NEW v \in CVEs, NEW row,
           row.domain_guess \in hadDomain[v]
    PROVE  RealNames(hadDomain, "similarity", v, Correlations(v, row))
<1>1. ASSUME NEW d \in Domains, hadDomain[v] = {d}, NEW u \in Correlations(v, row)
      PROVE  d \in hadDomain[u]
  <2>1. row.domain_guess = d /\ d # Unknown
    BY <1>1, AnalystAssumption
  <2>2. u \in CVEs /\ vulnerabilities[u].domain_guess = d
    BY <1>1, <2>1, CorrelationFacts
  <2> QED
    BY <2>2 DEF DomainsOK
<1>2. Correlations(v, row) \subseteq CVEs \ {v}
  BY CorrelationFacts
<1> QED
  BY <1>1, <1>2 DEF RealNames

\* The newest classification is one of the stored ones.
LEMMA LatestPattern ==
    ASSUME NamesInv, clock \in Nat, NEW v \in CVEs, latest_failure_pattern(v) # {}
    PROVE  KnownPattern(hadDomain, v, latest_failure_pattern(v))
<1> DEFINE S == {s \in assessments : s.type = "failure_pattern" /\ s.subject = v}
<1>1. \A s \in assessments : RowOK(clock, s) /\ RowReal(hadDomain, s)
  BY NamesForm
<1>2. \A s \in S : s.created_at \in Nat /\ s.created_at <= clock
  BY <1>1 DEF RowOK
<1>3. \A s \in S : KnownPattern(hadDomain, v, s.names)
  BY <1>1 DEF RowReal, RealNames
<1>4. S # {}
  BY DEF latest_failure_pattern
<1>5. latest_failure_pattern(v) =
        (CHOOSE s \in S : \A u \in S : u.created_at <= s.created_at).names
  BY <1>4 DEF latest_failure_pattern
<1> HIDE DEF S
<1>6. \E s \in S : \A u \in S : u.created_at <= s.created_at
  BY <1>2, <1>4, LatestCreated
<1> QED
  BY <1>3, <1>5, <1>6

RequestStep(a) ==
    \/ Ask(a) \/ explain_regression(a) \/ ReadCandidates(a) \/ ReadPattern(a)
    \/ NoAnswer(a) \/ Answer(a) \/ save_assessment(a)

LEMMA AnswerFacts ==
    ASSUME NEW H, NEW q, RequestReal(H, q), q.pc = "generate",
           NEW names \in Answers(q.type), Accepted(q.type, q.supplied, names)
    PROVE  RealNames(H, q.type, q.subject, names)
<1>1. RealNames(H, q.type, q.subject, q.supplied)
  BY DEF RequestReal
<1>2. CASE names \subseteq q.supplied
  BY <1>1, <1>2, FewerNames
<1>3. CASE q.type = "failure_pattern" /\ q.supplied = {}
  <2>1. Unknown \in H[q.subject]
    BY <1>3 DEF RequestReal
  <2> QED
    BY <1>3, <2>1 DEF RealNames, KnownPattern
<1> QED
  BY <1>2, <1>3 DEF Accepted

\* Records are functions: two that agree on every field are equal.
LEMMA SameFunction ==
    ASSUME NEW D, NEW f, NEW g, f = [x \in D |-> f[x]], g = [x \in D |-> g[x]],
           \A x \in D : f[x] = g[x]
    PROVE  f = g
  OBVIOUS

\* What a request that gathers something becomes.
LEMMA GatherFacts ==
    ASSUME NEW q, NEW found,
           q = [pc |-> q.pc, type |-> q.type, subject |-> q.subject,
                row |-> q.row, supplied |-> q.supplied,
                pattern |-> q.pattern, pair |-> q.pair]
    PROVE  /\ [q EXCEPT !.pc = "generate", !.supplied = found] =
                [pc |-> "generate", type |-> q.type, subject |-> q.subject,
                 row |-> q.row, supplied |-> found,
                 pattern |-> q.pattern, pair |-> q.pair]
           /\ [q EXCEPT !.pc = "generate", !.pattern = found] =
                [pc |-> "generate", type |-> q.type, subject |-> q.subject,
                 row |-> q.row, supplied |-> q.supplied,
                 pattern |-> found, pair |-> q.pair]
<1> DEFINE D == {"pc", "type", "subject", "row", "supplied", "pattern", "pair"}
<1>1. DOMAIN q = D
  OBVIOUS
<1>2. [q EXCEPT !.pc = "generate", !.supplied = found] =
       [pc |-> "generate", type |-> q.type, subject |-> q.subject,
        row |-> q.row, supplied |-> found,
        pattern |-> q.pattern, pair |-> q.pair]
  <2> DEFINE n == [q EXCEPT !.pc = "generate", !.supplied = found]
             m == [pc |-> "generate", type |-> q.type, subject |-> q.subject,
                   row |-> q.row, supplied |-> found,
                   pattern |-> q.pattern, pair |-> q.pair]
  <2>1. n = [f \in D |-> n[f]] /\ m = [f \in D |-> m[f]]
    BY <1>1
  <2>2. n.pc = "generate" /\ n.supplied = found
    BY <1>1
  <2>3. /\ n.type = q.type /\ n.subject = q.subject /\ n.row = q.row
        /\ n.pattern = q.pattern /\ n.pair = q.pair
    BY <1>1
  <2>4. /\ m.pc = "generate" /\ m.supplied = found
        /\ m.type = q.type /\ m.subject = q.subject /\ m.row = q.row
        /\ m.pattern = q.pattern /\ m.pair = q.pair
    OBVIOUS
  <2> HIDE DEF n, m
  <2>5. \A f \in D : n[f] = m[f]
    BY <2>2, <2>3, <2>4
  <2> HIDE DEF D
  <2>6. n = m
    BY <2>1, <2>5, SameFunction
  <2> QED
    BY <2>6 DEF n, m
<1>3. [q EXCEPT !.pc = "generate", !.pattern = found] =
       [pc |-> "generate", type |-> q.type, subject |-> q.subject,
        row |-> q.row, supplied |-> q.supplied,
        pattern |-> found, pair |-> q.pair]
  <2> DEFINE n == [q EXCEPT !.pc = "generate", !.pattern = found]
             m == [pc |-> "generate", type |-> q.type, subject |-> q.subject,
                   row |-> q.row, supplied |-> q.supplied,
                   pattern |-> found, pair |-> q.pair]
  <2>1. n = [f \in D |-> n[f]] /\ m = [f \in D |-> m[f]]
    BY <1>1
  <2>2. n.pc = "generate" /\ n.pattern = found
    BY <1>1
  <2>3. /\ n.type = q.type /\ n.subject = q.subject /\ n.row = q.row
        /\ n.supplied = q.supplied /\ n.pair = q.pair
    BY <1>1
  <2>4. /\ m.pc = "generate" /\ m.pattern = found
        /\ m.type = q.type /\ m.subject = q.subject /\ m.row = q.row
        /\ m.supplied = q.supplied /\ m.pair = q.pair
    OBVIOUS
  <2> HIDE DEF n, m
  <2>5. \A f \in D : n[f] = m[f]
    BY <2>2, <2>3, <2>4
  <2> HIDE DEF D
  <2>6. n = m
    BY <2>1, <2>5, SameFunction
  <2> QED
    BY <2>6 DEF n, m
<1> QED
  BY <1>2, <1>3

\* However a request goes on, what it has gathered is real.
LEMMA RequestMoves ==
    ASSUME NamesInv, clock \in Nat, NEW a \in AnalystRequests, RequestStep(a)
    PROVE  /\ \E q : /\ asked' = [asked EXCEPT ![a] = q]
                     /\ RequestOK(clock', q) /\ RequestReal(hadDomain, q)
           /\ clock' \in {clock, clock + 1}
           /\ UNCHANGED <<vulnerabilities, hadDomain, review>>
<1>1. /\ DomainsOK /\ RequestOK(clock, asked[a])
      /\ RequestReal(hadDomain, asked[a])
  BY NamesForm
<1>2. /\ clock' \in {clock, clock + 1}
      /\ UNCHANGED <<vulnerabilities, hadDomain, review>>
  BY DEF RequestStep, Ask, explain_regression, ReadCandidates, ReadPattern,
         NoAnswer, Answer, save_assessment
<1> SUFFICES \E q : /\ asked' = [asked EXCEPT ![a] = q]
                    /\ RequestOK(clock', q) /\ RequestReal(hadDomain, q)
  BY <1>2
<1>3. ASSUME Proceed(a, Ended)
      PROVE  \E q : /\ asked' = [asked EXCEPT ![a] = q]
                    /\ RequestOK(clock', q) /\ RequestReal(hadDomain, q)
  BY <1>3, EndedReal DEF Proceed
<1>4. CASE Ask(a)
  <2>1. PICK v \in CVEs :
          \/ Proceed(a, classify_failure_pattern(v))
          \/ Proceed(a, analyze_mitigation_gap(v))
          \/ Proceed(a, summarise_similarity(v))
          \/ Proceed(a, recommend_template(v))
          \/ \E d \in Domains, t \in Templates :
               Proceed(a, draft_experiment_proposal(v, d, t.id))
    BY <1>4 DEF Ask
  <2>2. ASSUME NEW q \in {classify_failure_pattern(v), analyze_mitigation_gap(v),
                          summarise_similarity(v), recommend_template(v)},
               Proceed(a, q)
        PROVE  \E p : /\ asked' = [asked EXCEPT ![a] = p]
                      /\ RequestOK(clock', p) /\ RequestReal(hadDomain, p)
    <3>1. RequestOK(clock', q) /\ RequestReal(hadDomain, q)
      BY <1>1, <2>2, RouteFacts
    <3> QED
      BY <2>2, <3>1 DEF Proceed
  <2>3. CASE \E d \in Domains, t \in Templates :
               Proceed(a, draft_experiment_proposal(v, d, t.id))
    <3>1. PICK d \in Domains, t \in Templates :
            Proceed(a, draft_experiment_proposal(v, d, t.id))
      BY <2>3
    <3> QED
      BY <3>1, DraftFacts DEF Proceed
  <2> QED
    BY <2>1, <2>2, <2>3
<1>5. CASE explain_regression(a)
  <2>1. CASE Proceed(a, Ended)
    BY <1>3, <2>1
  <2>2. ASSUME NEW pr,
               Proceed(a, [Request("generate", "regression_explanation",
                                   "control", {}) EXCEPT !.pair = pr])
        PROVE  \E q : /\ asked' = [asked EXCEPT ![a] = q]
                      /\ RequestOK(clock', q) /\ RequestReal(hadDomain, q)
    <3> DEFINE q == [pc |-> "generate", type |-> "regression_explanation",
                     subject |-> "control", row |-> None, supplied |-> {},
                     pattern |-> {}, pair |-> pr]
    <3>1. [Request("generate", "regression_explanation", "control", {})
             EXCEPT !.pair = pr] = q
      BY DEF Request
    <3>2. RealNames(hadDomain, "regression_explanation", "control", {})
      BY OtherNames
    <3>3. AboutOne("regression_explanation", "control", {})
      BY DEF AboutOne
    <3>4. RequestOK(clock', q) /\ RequestReal(hadDomain, q)
      BY <3>2, <3>3 DEF RequestOK, RequestReal
    <3> HIDE DEF q
    <3> QED
      BY <2>2, <3>1, <3>4 DEF Proceed
  <2> QED
    BY <1>5, <2>1, <2>2 DEF explain_regression
<1>6. CASE ReadCandidates(a)
  <2> DEFINE v == asked[a].subject
             found == Correlations(v, asked[a].row)
  <2>1. /\ asked[a].pc = "list" /\ clock' = clock
        /\ \/ Proceed(a, Ended)
           \/ Proceed(a, [asked[a] EXCEPT !.pc = "generate", !.supplied = found])
    BY <1>6 DEF ReadCandidates
  <2>2. /\ asked[a].type = "similarity" /\ asked[a].row.domain_guess \in hadDomain[v]
        /\ v \in CVEs
        /\ AboutOne("similarity", v, asked[a].pattern)
        /\ asked[a].pattern # {} => KnownPattern(hadDomain, v, asked[a].pattern)
    BY <1>1, <2>1 DEF RequestOK, RequestReal, AboutOne
  <2>3. RealNames(hadDomain, "similarity", v, found)
    BY <1>1, <2>2, ListFacts
  <2> HIDE DEF found
  <2> DEFINE q == [pc |-> "generate", type |-> "similarity", subject |-> v,
                   row |-> asked[a].row, supplied |-> found,
                   pattern |-> asked[a].pattern, pair |-> asked[a].pair]
  <2>4. [asked[a] EXCEPT !.pc = "generate", !.supplied = found] = q
    BY <1>1, <2>1, <2>2, GatherFacts DEF RequestOK
  <2>5. RequestOK(clock', q) /\ RequestReal(hadDomain, q)
    BY <2>2, <2>3 DEF RequestOK, RequestReal, VulnerabilityTypes
  <2> HIDE DEF q
  <2> QED
    BY <1>3, <2>1, <2>4, <2>5 DEF Proceed
<1>7. CASE ReadPattern(a)
  <2> DEFINE v == asked[a].subject
             found == latest_failure_pattern(v)
  <2>1. /\ asked[a].pc = "pattern" /\ clock' = clock
        /\ Proceed(a, [asked[a] EXCEPT !.pc = "generate", !.pattern = found])
    BY <1>7 DEF ReadPattern
  <2>2. /\ asked[a].type \in VulnerabilityTypes /\ v \in CVEs
        /\ RealNames(hadDomain, asked[a].type, v, asked[a].supplied)
        /\ asked[a].type = "failure_pattern" /\ asked[a].supplied = {} =>
             Unknown \in hadDomain[v]
    BY <1>1, <2>1 DEF RequestOK, RequestReal, AboutOne, VulnerabilityTypes
  <2>3. found # {} => KnownPattern(hadDomain, v, found)
    BY <2>2, LatestPattern
  <2>4. AboutOne(asked[a].type, v, found)
    BY <2>2 DEF AboutOne
  <2> HIDE DEF found
  <2> DEFINE q == [pc |-> "generate", type |-> asked[a].type, subject |-> v,
                   row |-> asked[a].row, supplied |-> asked[a].supplied,
                   pattern |-> found, pair |-> asked[a].pair]
  <2>6. [asked[a] EXCEPT !.pc = "generate", !.pattern = found] = q
    BY <1>1, <2>1, GatherFacts DEF RequestOK
  <2>7. RequestOK(clock', q) /\ RequestReal(hadDomain, q)
    BY <2>2, <2>3, <2>4 DEF RequestOK, RequestReal
  <2> HIDE DEF q
  <2> QED
    BY <2>1, <2>6, <2>7 DEF Proceed
<1>8. CASE NoAnswer(a)
  BY <1>3, <1>8 DEF NoAnswer
<1>9. CASE Answer(a)
  <2>1. /\ asked[a].pc = "generate"
        /\ \/ Proceed(a, Ended)
           \/ \E names \in Answers(asked[a].type) :
                /\ Accepted(asked[a].type, asked[a].supplied, names)
                /\ clock' = clock + 1
                /\ Proceed(a, [pc |-> "save", type |-> asked[a].type,
                               subject |-> asked[a].subject,
                               pattern |-> asked[a].pattern,
                               pair |-> asked[a].pair,
                               names |-> names, at |-> clock + 1])
    BY <1>9 DEF Answer
  <2>2. ASSUME NEW names \in Answers(asked[a].type),
               Accepted(asked[a].type, asked[a].supplied, names),
               clock' = clock + 1,
               Proceed(a, [pc |-> "save", type |-> asked[a].type,
                           subject |-> asked[a].subject,
                           pattern |-> asked[a].pattern,
                           pair |-> asked[a].pair,
                           names |-> names, at |-> clock + 1])
        PROVE  \E q : /\ asked' = [asked EXCEPT ![a] = q]
                      /\ RequestOK(clock', q) /\ RequestReal(hadDomain, q)
    <3> DEFINE q == [pc |-> "save", type |-> asked[a].type,
                     subject |-> asked[a].subject,
                     pattern |-> asked[a].pattern, pair |-> asked[a].pair,
                     names |-> names, at |-> clock + 1]
    <3>1. RealNames(hadDomain, asked[a].type, asked[a].subject, names)
      BY <1>1, <2>1, <2>2, AnswerFacts
    <3>2. /\ AboutOne(asked[a].type, asked[a].subject, asked[a].pattern)
          /\ asked[a].pattern # {} =>
               KnownPattern(hadDomain, asked[a].subject, asked[a].pattern)
      BY <1>1, <2>1 DEF RequestOK, RequestReal
    <3>3. RequestOK(clock', q) /\ RequestReal(hadDomain, q)
      BY <2>2, <3>1, <3>2 DEF RequestOK, RequestReal
    <3> HIDE DEF q
    <3>4. asked' = [asked EXCEPT ![a] = q]
      BY <2>2 DEF Proceed, q
    <3> QED
      BY <3>3, <3>4
  <2> QED
    BY <1>3, <2>1, <2>2
<1>10. CASE save_assessment(a)
  BY <1>3, <1>10 DEF save_assessment
<1> QED
  BY <1>4, <1>5, <1>6, <1>7, <1>8, <1>9, <1>10 DEF RequestStep

LEMMA NamesFormPrimed ==
    NamesInv' <=>
      /\ DomainsOK'
      /\ DOMAIN asked' = AnalystRequests /\ DOMAIN review' = Reviews
      /\ \A a \in AnalystRequests :
           RequestOK(clock', asked'[a]) /\ RequestReal(hadDomain', asked'[a])
      /\ \A s \in assessments' : RowOK(clock', s) /\ RowReal(hadDomain', s)
<1>1. AnalystTypeOK' <=>
        /\ DomainsOK'
        /\ DOMAIN asked' = AnalystRequests /\ DOMAIN review' = Reviews
        /\ \A a \in AnalystRequests : RequestOK(clock', asked'[a])
        /\ \A s \in assessments' : RowOK(clock', s)
  BY DEF AnalystTypeOK, DomainsOK, RequestOK, RowOK
<1>2. SuppliedInv' <=>
        \A a \in AnalystRequests : RequestReal(hadDomain', asked'[a])
  BY DEF SuppliedInv, RequestReal
<1>3. NamesAreReal' <=> \A s \in assessments' : RowReal(hadDomain', s)
  BY DEF NamesAreReal, RowReal
<1> QED
  BY <1>1, <1>2, <1>3 DEF NamesInv

\* A row that is marked reviewed is the same assessment.
LEMMA ReviewedFacts ==
    ASSUME NEW s, NEW by,
           s = [id |-> s.id, type |-> s.type, subject |-> s.subject,
                names |-> s.names, pattern |-> s.pattern, pair |-> s.pair,
                created_at |-> s.created_at, reviewed_by |-> s.reviewed_by]
    PROVE  [s EXCEPT !.reviewed_by = by] =
             [id |-> s.id, type |-> s.type, subject |-> s.subject,
              names |-> s.names, pattern |-> s.pattern, pair |-> s.pair,
              created_at |-> s.created_at, reviewed_by |-> by]
<1> DEFINE D == {"id", "type", "subject", "names", "pattern", "pair",
                 "created_at", "reviewed_by"}
           n == [s EXCEPT !.reviewed_by = by]
           m == [id |-> s.id, type |-> s.type, subject |-> s.subject,
                 names |-> s.names, pattern |-> s.pattern, pair |-> s.pair,
                 created_at |-> s.created_at, reviewed_by |-> by]
<1>1. DOMAIN s = D
  OBVIOUS
<1>2. n = [f \in D |-> n[f]] /\ m = [f \in D |-> m[f]]
  BY <1>1
<1>3. /\ n.id = s.id /\ n.type = s.type /\ n.subject = s.subject
      /\ n.names = s.names /\ n.pattern = s.pattern /\ n.pair = s.pair
      /\ n.created_at = s.created_at /\ n.reviewed_by = by
  BY <1>1
<1>4. /\ m.id = s.id /\ m.type = s.type /\ m.subject = s.subject
      /\ m.names = s.names /\ m.pattern = s.pattern /\ m.pair = s.pair
      /\ m.created_at = s.created_at /\ m.reviewed_by = by
  OBVIOUS
<1> HIDE DEF n, m
<1>5. \A f \in D : n[f] = m[f]
  BY <1>3, <1>4
<1> HIDE DEF D
<1>6. n = m
  BY <1>2, <1>5, SameFunction
<1> QED
  BY <1>6 DEF n, m

\* What is stored is what the request has: nothing is stored on any other way.
LEMMA SavedFacts ==
    ASSUME NEW a, RequestStep(a)
    PROVE  \/ assessments' = assessments
           \/ /\ asked[a].pc = "save" /\ UNCHANGED <<clock, spent, validations>>
              /\ assessments' = assessments \cup
                   {[id |-> a, type |-> asked[a].type, subject |-> asked[a].subject,
                     names |-> asked[a].names, pattern |-> asked[a].pattern,
                     pair |-> asked[a].pair, created_at |-> asked[a].at,
                     reviewed_by |-> None]}
  BY DEF RequestStep, Ask, explain_regression, ReadCandidates, ReadPattern,
         NoAnswer, Answer, save_assessment, storeVars

ReviewStep(q) ==
    (\E s \in assessments : mark_assessment_reviewed(q, s)) \/ AuditReview(q)

LEMMA AnalystCases ==
    ASSUME [AnalystNext]_allVars
    PROVE  \/ Next /\ UNCHANGED analystVars
           \/ Sync
           \/ \E a \in AnalystRequests : RequestStep(a)
           \/ \E q \in Reviews : ReviewStep(q)
           \/ UNCHANGED allVars
  BY DEF AnalystNext, RequestStep, ReviewStep

\* Rows, requests and assessments that only time has passed for.
LEMMA NamesPass ==
    ASSUME NamesInv, clock \in Nat, clock' \in Nat, clock <= clock',
           Grown(hadDomain, hadDomain'), UNCHANGED <<asked, assessments>>,
           DomainsOK', DOMAIN review' = Reviews
    PROVE  NamesInv'
<1>1. /\ DOMAIN asked = AnalystRequests
      /\ \A a \in AnalystRequests :
           RequestOK(clock, asked[a]) /\ RequestReal(hadDomain, asked[a])
      /\ \A s \in assessments : RowOK(clock, s) /\ RowReal(hadDomain, s)
  BY NamesForm
<1>2. /\ \A a \in AnalystRequests :
           RequestOK(clock', asked[a]) /\ RequestReal(hadDomain', asked[a])
      /\ \A s \in assessments : RowOK(clock', s) /\ RowReal(hadDomain', s)
  BY <1>1, RequestKept, RowKept
<1> QED
  BY <1>1, <1>2, NamesFormPrimed

LEMMA NamesStep ==
    ASSUME BaseInv, BaseInv', NamesInv, [AnalystNext]_allVars
    PROVE  NamesInv'
<1>1. clock \in Nat /\ clock' \in Nat
  BY DEF BaseInv, TypeOK
<1>2. clock <= clock'
  <2>1. Next \/ Aside
    BY AsideFacts DEF BaseInv
  <2>2. Aside => clock <= clock'
    BY <1>1 DEF Aside
  <2>3. Next => clock' \in {clock, clock + 1}
    BY NextCases, RunFrame, ScanFrame, OtherFacts
  <2> QED
    BY <1>1, <2>1, <2>2, <2>3
<1>3. /\ DomainsOK /\ DOMAIN asked = AnalystRequests /\ DOMAIN review = Reviews
      /\ \A a \in AnalystRequests :
           RequestOK(clock, asked[a]) /\ RequestReal(hadDomain, asked[a])
      /\ \A s \in assessments : RowOK(clock, s) /\ RowReal(hadDomain, s)
  BY NamesForm
<1>4. Grown(hadDomain, hadDomain)
  BY <1>3, NoneGone
<1>5. CASE (Next /\ UNCHANGED analystVars) \/ UNCHANGED allVars
  <2>1. UNCHANGED <<vulnerabilities, hadDomain, asked, assessments, review>>
    BY <1>5 DEF analystVars, allVars
  <2>2. DomainsOK'
    BY <1>3, <2>1 DEF DomainsOK
  <2>3. Grown(hadDomain, hadDomain')
    BY <1>4, <2>1
  <2> QED
    BY <1>1, <1>2, <1>3, <2>1, <2>2, <2>3, NamesPass
<1>6. CASE Sync
  <2>1. PICK v \in CVEs, d \in Domains \cup {Unknown} :
          /\ vulnerabilities' = [vulnerabilities EXCEPT
                                  ![v] = [domain_guess |-> d,
                                          updated_at |-> clock + 1]]
          /\ hadDomain' = [hadDomain EXCEPT ![v] = @ \cup {d}]
    BY <1>6 DEF Sync
  <2>2. UNCHANGED <<asked, assessments, review>>
    BY <1>6 DEF Sync
  <2>3. DomainsOK'
    BY <1>1, <1>3, <2>1 DEF DomainsOK
  <2>4. Grown(hadDomain, hadDomain')
    BY <1>3, <1>4, <2>1 DEF Grown, DomainsOK
  <2> QED
    BY <1>1, <1>2, <1>3, <2>2, <2>3, <2>4, NamesPass
<1>7. ASSUME NEW a \in AnalystRequests, RequestStep(a)
      PROVE  NamesInv'
  <2>1. UNCHANGED <<vulnerabilities, hadDomain, review>>
    BY <1>1, <1>7, RequestMoves
  <2>2. PICK q : /\ asked' = [asked EXCEPT ![a] = q]
                 /\ RequestOK(clock', q) /\ RequestReal(hadDomain, q)
    BY <1>1, <1>7, RequestMoves
  <2>3. \A x \in AnalystRequests :
          RequestOK(clock', asked'[x]) /\ RequestReal(hadDomain', asked'[x])
    <3>1. ASSUME NEW x \in AnalystRequests, x # a
          PROVE  RequestOK(clock', asked'[x]) /\ RequestReal(hadDomain, asked'[x])
      <4>1. asked'[x] = asked[x]
        BY <1>3, <2>2, <3>1
      <4> QED
        BY <1>1, <1>2, <1>3, <1>4, <4>1, RequestKept
    <3>2. asked'[a] = q
      BY <1>3, <2>2
    <3> QED
      BY <2>1, <2>2, <3>1, <3>2
  <2>4. \A s \in assessments : RowOK(clock', s) /\ RowReal(hadDomain, s)
    BY <1>1, <1>2, <1>3, <1>4, RowKept
  <2>5. ASSUME NEW s \in assessments', s \notin assessments
        PROVE  RowOK(clock', s) /\ RowReal(hadDomain, s)
    <3>1. /\ asked[a].pc = "save" /\ clock' = clock
          /\ s = [id |-> a, type |-> asked[a].type, subject |-> asked[a].subject,
                  names |-> asked[a].names, pattern |-> asked[a].pattern,
                  pair |-> asked[a].pair, created_at |-> asked[a].at,
                  reviewed_by |-> None]
      BY <1>7, <2>5, SavedFacts
    <3>2. /\ AboutOne(asked[a].type, asked[a].subject, asked[a].pattern)
          /\ asked[a].at \in Nat /\ asked[a].at <= clock
          /\ RealNames(hadDomain, asked[a].type, asked[a].subject, asked[a].names)
          /\ asked[a].pattern # {} =>
               KnownPattern(hadDomain, asked[a].subject, asked[a].pattern)
      BY <1>3, <3>1 DEF RequestOK, RequestReal
    <3> QED
      BY <3>1, <3>2 DEF RowOK, RowReal
  <2>6. DomainsOK'
    BY <1>3, <2>1 DEF DomainsOK
  <2>7. DOMAIN asked' = AnalystRequests
    BY <1>3, <2>2
  <2> QED
    BY <1>3, <2>1, <2>3, <2>4, <2>5, <2>6, <2>7, NamesFormPrimed
<1>8. ASSUME NEW q \in Reviews, ReviewStep(q)
      PROVE  NamesInv'
  <2>1. UNCHANGED <<vulnerabilities, hadDomain, asked, clock>>
    BY <1>8 DEF ReviewStep, mark_assessment_reviewed, AuditReview
  <2>2. DOMAIN review' = Reviews
    BY <1>3, <1>8 DEF ReviewStep, mark_assessment_reviewed, AuditReview
  <2>3. ASSUME NEW s \in assessments', s \notin assessments
        PROVE  RowOK(clock, s) /\ RowReal(hadDomain, s)
    <3>1. PICK u \in assessments : s = [u EXCEPT !.reviewed_by = q]
      BY <1>8, <2>3 DEF ReviewStep, mark_assessment_reviewed, AuditReview
    <3>2. RowOK(clock, u) /\ RowReal(hadDomain, u)
      BY <1>3
    <3>3. s = [id |-> u.id, type |-> u.type, subject |-> u.subject,
               names |-> u.names, pattern |-> u.pattern, pair |-> u.pair,
               created_at |-> u.created_at, reviewed_by |-> q]
      BY <3>1, <3>2, ReviewedFacts DEF RowOK
    <3> QED
      BY <3>2, <3>3 DEF RowOK, RowReal
  <2>4. DomainsOK'
    BY <1>3, <2>1 DEF DomainsOK
  <2> QED
    BY <1>3, <2>1, <2>2, <2>3, <2>4, NamesFormPrimed
<1> QED
  BY <1>5, <1>6, <1>7, <1>8, AnalystCases
-----------------------------------------------------------------------------
(***************************************************************************)
(* The analyst: what is explained as a regression was found as one.        *)
(***************************************************************************)

\* With stamps that differ the current version is the version of the newest
\* validation, and its last two are consecutive.
LEMMA EffectivenessFacts ==
    ASSUME BaseInv, OrderInv, spent["overlap"] = 0,
           NEW pr \in Effectiveness.regression
    PROVE  ExplainsIn(validations, pr)
<1> DEFINE S == current_version_validations
<1>1. pr \in LastTwoOf(S) /\ Worse(pr)
  BY DEF Effectiveness, Worse
<1>2. \A u, v \in validations : u.at = v.at => u = v
  BY DEF OrderInv
<1>3. /\ pr = <<pr[1], pr[2]>> /\ pr[1] \in S /\ pr[2] \in S
      /\ Cardinality(Before(pr[2], S)) = Cardinality(S) - 1
      /\ Cardinality(Before(pr[1], S)) = Cardinality(S) - 2
  BY <1>1 DEF LastTwoOf
<1>4. PICK l \in validations :
        l.label = pr[1].label /\ \A u \in validations : u.at <= l.at
  BY <1>3 DEF current_version_validations
<1>5. S = {v \in validations : v.label = l.label}
  <2>1. \A k \in validations : (\A u \in validations : u.at <= k.at) => k = l
    BY <1>2, <1>4, AtFacts
  <2> QED
    BY <1>4, <2>1 DEF current_version_validations
<1>6. IsFiniteSet(S) /\ \A v \in S : v.at \in Nat
  BY <1>5, AtFacts, FS_Subset DEF BaseInv, TypeOK
<1> HIDE DEF S
<1>7. /\ pr[1].at < pr[2].at
      /\ Before(pr[2], S) = S \ {pr[2]}
      /\ Before(pr[1], S) = S \ {pr[2], pr[1]}
  BY <1>3, <1>6, LastTwoFacts
<1>8. S = {v \in validations : v.label = pr[2].label}
  BY <1>3, <1>5
<1>9. pr[1] # pr[2]
  BY <1>3, <1>6, <1>7
<1>10. Before(pr[2], S) = Before(pr[1], S) \cup {pr[1]}
  BY <1>3, <1>7, <1>9
<1> QED
  BY <1>1, <1>3, <1>8, <1>10 DEF ExplainsIn, ConsecutiveIn

\* A pair that could be explained still can.
LEMMA ExplainsKept ==
    ASSUME BaseInv, AloneInv, OrderInv, Next \/ Aside, spent'["overlap"] = 0,
           NEW pr, ExplainsIn(validations, pr)
    PROVE  ExplainsIn(validations', pr)
<1>1. CASE validations' = validations
  BY <1>1
<1>2. ASSUME NEW r \in Runs, record_validation(r)
      PROVE  ExplainsIn(validations', pr)
  <2>1. spent["overlap"] = 0
    <3>1. RunStep(r)
      BY <1>2 DEF RunStep
    <3> QED
      BY <3>1, LoneWorker
  <2> DEFINE n == NewValidation(r)
  <2>2. validations' = validations \cup {n} /\ n.at = run[r].at
        /\ run[r].pc = "record"
    BY <1>2, RecordFacts DEF BaseInv
  <2>3. OrderIn(validations, run)
    BY <2>1, OrderForm
  <2> HIDE DEF n
  <2>4. \A v \in validations : v.at \in Nat /\ n.at \in Nat /\ v.at < n.at
    BY <2>2, <2>3, AtFacts DEF OrderIn
  <2>5. pr[1] \in validations /\ pr[2] \in validations
    BY DEF ExplainsIn, ConsecutiveIn
  <2>6. ConsecutiveIn(validations', pr[1], pr[2])
    BY <2>2, <2>4, <2>5, StillConsecutive DEF ExplainsIn
  <2> QED
    BY <2>6 DEF ExplainsIn
<1>3. \/ validations' = validations
      \/ \E r \in Runs : record_validation(r)
  <2>1. CASE \E r \in Runs : RunStep(r)
    BY <2>1, RunFrame
  <2>2. CASE ~\E r \in Runs : RunStep(r)
    BY <2>2, RestFrame
  <2> QED
    BY <2>1, <2>2
<1> QED
  BY <1>1, <1>2, <1>3

Busy == {"list", "pattern", "generate", "save"}

\* The pair of a request is None, was its pair before, or is a regression that
\* the rules find.
LEMMA PairMoves ==
    ASSUME NamesInv, NEW a \in AnalystRequests, RequestStep(a)
    PROVE  \E q : /\ asked' = [asked EXCEPT ![a] = q]
                  /\ \/ q.pc \notin Busy
                     \/ q.pair = None
                     \/ asked[a].pc \in Busy /\ q.pair = asked[a].pair
                     \/ q.pair \in Effectiveness.regression
<1> DEFINE Fine(q) == \/ q.pc \notin Busy
                      \/ q.pair = None
                      \/ asked[a].pc \in Busy /\ q.pair = asked[a].pair
                      \/ q.pair \in Effectiveness.regression
<1> SUFFICES \E q : Proceed(a, q) /\ Fine(q)
  BY DEF Proceed
<1>1. RequestOK(clock, asked[a])
  BY NamesForm
<1>2. Fine(Ended)
  BY DEF Ended, Busy
<1>3. \A pc, type, v, supplied : Fine(Request(pc, type, v, supplied))
  BY DEF Request
<1> HIDE DEF Fine
<1>4. CASE Ask(a)
  <2>1. PICK v \in CVEs :
          \/ Proceed(a, classify_failure_pattern(v))
          \/ Proceed(a, analyze_mitigation_gap(v))
          \/ Proceed(a, summarise_similarity(v))
          \/ Proceed(a, recommend_template(v))
          \/ \E d \in Domains, t \in Templates :
               Proceed(a, draft_experiment_proposal(v, d, t.id))
    BY <1>4 DEF Ask
  <2>2. Fine(classify_failure_pattern(v)) /\ Fine(analyze_mitigation_gap(v))
    BY <1>3 DEF classify_failure_pattern, analyze_mitigation_gap
  <2>3. Fine(summarise_similarity(v))
    BY DEF summarise_similarity, Request, Fine
  <2>4. Fine(recommend_template(v))
    BY <1>2, <1>3 DEF recommend_template
  <2>5. \A d, id : Fine(draft_experiment_proposal(v, d, id))
    BY <1>2, <1>3 DEF draft_experiment_proposal
  <2> QED
    BY <2>1, <2>2, <2>3, <2>4, <2>5
<1>5. CASE explain_regression(a)
  <2>1. ASSUME NEW pr \in Effectiveness.regression
        PROVE  Fine([Request("generate", "regression_explanation",
                             "control", {}) EXCEPT !.pair = pr])
    BY DEF Request, Fine
  <2> QED
    BY <1>2, <1>5, <2>1 DEF explain_regression
<1>6. CASE ReadCandidates(a)
  <2> DEFINE found == Correlations(asked[a].subject, asked[a].row)
  <2>1. /\ asked[a].pc = "list"
        /\ \/ Proceed(a, Ended)
           \/ Proceed(a, [asked[a] EXCEPT !.pc = "generate", !.supplied = found])
    BY <1>6 DEF ReadCandidates
  <2>2. [asked[a] EXCEPT !.pc = "generate", !.supplied = found].pair
          = asked[a].pair
    <3> HIDE DEF found
    <3> QED
      BY <1>1, <2>1, GatherFacts DEF RequestOK
  <2>3. Fine([asked[a] EXCEPT !.pc = "generate", !.supplied = found])
    BY <2>1, <2>2 DEF Fine, Busy
  <2> QED
    BY <1>2, <2>1, <2>3
<1>7. CASE ReadPattern(a)
  <2> DEFINE found == latest_failure_pattern(asked[a].subject)
  <2>1. /\ asked[a].pc = "pattern"
        /\ Proceed(a, [asked[a] EXCEPT !.pc = "generate", !.pattern = found])
    BY <1>7 DEF ReadPattern
  <2>2. [asked[a] EXCEPT !.pc = "generate", !.pattern = found].pair
          = asked[a].pair
    <3> HIDE DEF found
    <3> QED
      BY <1>1, <2>1, GatherFacts DEF RequestOK
  <2>3. Fine([asked[a] EXCEPT !.pc = "generate", !.pattern = found])
    BY <2>1, <2>2 DEF Fine, Busy
  <2> QED
    BY <2>1, <2>3
<1>8. CASE NoAnswer(a) \/ save_assessment(a)
  BY <1>2, <1>8 DEF NoAnswer, save_assessment
<1>9. CASE Answer(a)
  <2>1. /\ asked[a].pc = "generate"
        /\ \/ Proceed(a, Ended)
           \/ \E names, n :
                Proceed(a, [pc |-> "save", type |-> asked[a].type,
                            subject |-> asked[a].subject,
                            pattern |-> asked[a].pattern,
                            pair |-> asked[a].pair, names |-> names, at |-> n])
    BY <1>9 DEF Answer
  <2>2. ASSUME NEW names, NEW n
        PROVE  Fine([pc |-> "save", type |-> asked[a].type,
                     subject |-> asked[a].subject,
                     pattern |-> asked[a].pattern,
                     pair |-> asked[a].pair, names |-> names, at |-> n])
    BY <2>1 DEF Fine, Busy
  <2> QED
    BY <1>2, <2>1, <2>2
<1> QED
  BY <1>4, <1>5, <1>6, <1>7, <1>8, <1>9 DEF RequestStep

LEMMA ExplainedStep ==
    ASSUME BaseInv, AloneInv, OrderInv, NamesInv, ExplainedInv,
           [AnalystNext]_allVars
    PROVE  ExplainedInv'
<1>1. Next \/ Aside
  BY AsideFacts DEF BaseInv
<1>2. spent'["overlap"] = 0 => spent["overlap"] = 0
  <2>1. CASE \E r \in Runs : RunStep(r)
    BY <2>1, RunSpends
  <2>2. CASE ~\E r \in Runs : RunStep(r)
    BY <1>1, <2>2, RestFrame
  <2> QED
    BY <2>1, <2>2
<1> SUFFICES ASSUME spent'["overlap"] = 0
             PROVE  /\ \A s \in assessments' : s.pair # None =>
                         ExplainsIn(validations', s.pair)
                    /\ \A a \in AnalystRequests :
                         asked'[a].pc \in Busy /\ asked'[a].pair # None =>
                           ExplainsIn(validations', asked'[a].pair)
  BY DEF ExplainedInv, Busy, ExplainsIn, ConsecutiveIn, Before, Worse
<1>3. /\ \A s \in assessments : s.pair # None => ExplainsIn(validations, s.pair)
      /\ \A a \in AnalystRequests :
           asked[a].pc \in Busy /\ asked[a].pair # None =>
             ExplainsIn(validations, asked[a].pair)
  BY <1>2 DEF ExplainedInv, Busy
<1>4. \A pr : ExplainsIn(validations, pr) => ExplainsIn(validations', pr)
  BY <1>1, ExplainsKept
<1>5. CASE (Next /\ UNCHANGED analystVars) \/ Sync \/ UNCHANGED allVars
  <2>1. UNCHANGED <<asked, assessments>>
    BY <1>5 DEF analystVars, allVars, Sync
  <2> QED
    BY <1>3, <1>4, <2>1
<1>6. ASSUME NEW a \in AnalystRequests, RequestStep(a)
      PROVE  /\ \A s \in assessments' : s.pair # None =>
                  ExplainsIn(validations', s.pair)
             /\ \A x \in AnalystRequests :
                  asked'[x].pc \in Busy /\ asked'[x].pair # None =>
                    ExplainsIn(validations', asked'[x].pair)
  <2>1. PICK q : /\ asked' = [asked EXCEPT ![a] = q]
                 /\ \/ q.pc \notin Busy
                    \/ q.pair = None
                    \/ asked[a].pc \in Busy /\ q.pair = asked[a].pair
                    \/ q.pair \in Effectiveness.regression
    BY <1>6, PairMoves
  <2>2. DOMAIN asked = AnalystRequests
    BY NamesForm
  <2>3. \A pr \in Effectiveness.regression : ExplainsIn(validations, pr)
    BY <1>2, EffectivenessFacts
  <2>4. \A x \in AnalystRequests :
          asked'[x].pc \in Busy /\ asked'[x].pair # None =>
            ExplainsIn(validations', asked'[x].pair)
    BY <1>3, <1>4, <2>1, <2>2, <2>3
  <2>5. ASSUME NEW s \in assessments', s.pair # None
        PROVE  ExplainsIn(validations', s.pair)
    <3>1. s \in assessments \/ (asked[a].pc = "save" /\ s.pair = asked[a].pair)
      BY <1>6, <2>5, SavedFacts
    <3> QED
      BY <1>3, <1>4, <2>5, <3>1 DEF Busy
  <2> QED
    BY <2>4, <2>5
<1>7. ASSUME NEW q \in Reviews, ReviewStep(q)
      PROVE  /\ \A s \in assessments' : s.pair # None =>
                  ExplainsIn(validations', s.pair)
             /\ \A a \in AnalystRequests :
                  asked'[a].pc \in Busy /\ asked'[a].pair # None =>
                    ExplainsIn(validations', asked'[a].pair)
  <2>1. asked' = asked
    BY <1>7 DEF ReviewStep, mark_assessment_reviewed, AuditReview
  <2>2. ASSUME NEW s \in assessments', s.pair # None
        PROVE  ExplainsIn(validations', s.pair)
    <3>1. CASE s \in assessments
      BY <1>3, <1>4, <2>2, <3>1
    <3>2. CASE s \notin assessments
      <4>1. PICK u \in assessments : s = [u EXCEPT !.reviewed_by = q]
        BY <1>7, <3>2 DEF ReviewStep, mark_assessment_reviewed, AuditReview
      <4>2. s.pair = u.pair
        BY <4>1, NamesForm, ReviewedFacts DEF RowOK
      <4> QED
        BY <1>3, <1>4, <2>2, <4>2
    <3> QED
      BY <3>1, <3>2
  <2> QED
    BY <1>3, <1>4, <2>1, <2>2
<1> QED
  BY <1>5, <1>6, <1>7, AnalystCases

Inv == AssuranceInv /\ NamesInv /\ ExplainedInv

\* The inductive invariant of the analyst beside the assurance record.
THEOREM Invariance == AnalystSpec => []Inv
<1>1. AnalystInit => Inv
  <2> SUFFICES ASSUME AnalystInit PROVE Inv
    OBVIOUS
  <2>1. AssuranceInv
    BY AssuranceStart DEF AnalystInit
  <2>2. /\ assessments = {} /\ asked = [a \in AnalystRequests |-> [pc |-> "waiting"]]
        /\ DOMAIN review = Reviews
    BY DEF AnalystInit
  <2>3. DomainsOK
    BY AnalystAssumption DEF AnalystInit, DomainsOK
  <2>4. \A a \in AnalystRequests :
          RequestOK(clock, asked[a]) /\ RequestReal(hadDomain, asked[a])
    BY <2>2 DEF RequestOK, RequestReal
  <2>5. NamesInv
    BY <2>2, <2>3, <2>4, NamesForm
  <2>6. ExplainedInv
    BY <2>2 DEF ExplainedInv
  <2> QED
    BY <2>1, <2>5, <2>6 DEF Inv
<1>2. Inv /\ [AnalystNext]_allVars => Inv'
  <2> SUFFICES ASSUME Inv, [AnalystNext]_allVars PROVE Inv'
    OBVIOUS
  <2>1. AssuranceInv'
    BY AssuranceStep DEF Inv
  <2>2. BaseInv /\ BaseInv' /\ AloneInv /\ OrderInv
    BY <2>1 DEF Inv, AssuranceInv
  <2>3. NamesInv' /\ ExplainedInv'
    BY <2>2, NamesStep, ExplainedStep DEF Inv
  <2> QED
    BY <2>1, <2>3 DEF Inv
<1> QED
  BY <1>1, <1>2, PTL DEF AnalystSpec

\* However the rows change while the model thinks, a stored assessment names
\* only what exists (ResearchAnalystService and the routes that supply it).
THEOREM OnlyRealNames == AnalystSpec => []NamesAreReal
<1>1. Inv => NamesAreReal
  BY DEF Inv, NamesInv
<1> QED
  BY <1>1, Invariance, PTL

\* What the analyst explains as a regression, the worker compared and raised
\* (explain_regression against record_control_validation_and_check_regression).
THEOREM ExplainedRaised == AnalystSpec => []ExplainedIsRaised
<1>1. ASSUME Inv, Active = {}, spent["overlap"] = 0, spent["fail"] = 0,
             NEW s \in assessments, s.pair # None
      PROVE  /\ s.pair \in compared
             /\ \E i \in DOMAIN candidates : candidates[i].trigger = "regression"
  <2>1. ExplainsIn(validations, s.pair)
    BY <1>1 DEF Inv, ExplainedInv
  <2>2. \A r \in Runs : run[r].pc \notin {"find", "create", "compare"}
    BY <1>1 DEF Active
  <2>3. /\ s.pair = <<s.pair[1], s.pair[2]>> /\ Worse(s.pair)
        /\ ConsecutiveIn(validations, s.pair[1], s.pair[2])
        /\ s.pair[1] \in validations /\ s.pair[2] \in validations
    BY <2>1 DEF ExplainsIn, ConsecutiveIn
  <2>4. s.pair \in compared
    BY <1>1, <2>2, <2>3 DEF Inv, AssuranceInv, PairInv
  <2> QED
    BY <1>1, <2>2, <2>3, <2>4 DEF Inv, AssuranceInv, RaisedInv, RaisedIn
<1>2. Inv => ExplainedIsRaised
  BY <1>1 DEF ExplainedIsRaised
<1> QED
  BY <1>2, Invariance, PTL
=============================================================================
