-------------------------- MODULE BgpBatchesProofs --------------------------
(***************************************************************************)
(* Proofs about BgpBatches for any numbers of projects, batches, routes    *)
(* and chassis.                                                            *)
(***************************************************************************)
EXTENDS BgpBatches, FiniteSetTheorems, WellFoundedInduction, TLAPS

-----------------------------------------------------------------------------
(***************************************************************************)
(* The inductive invariant.  First, how far the run is: the projects of    *)
(* the batches that are over, or of this one too, exist.                   *)
(***************************************************************************)
Created     == {"inject", "waitLearned", "learned"}
Advertising == {"snapshot", "waitInstalled", "installed"}

PcTypes == [at : Locations, batch : 0..NBatches, left : SUBSET Vrfs]

PhaseAgrees ==
  /\ pc \in PcTypes
  /\ pc.at \in {"create"} \cup Created \cup Advertising => pc.batch < NBatches
  /\ pc.at = "create" => projects = StartIdx(pc.batch)
  /\ pc.at \in Created => projects = EndIdx(pc.batch)
  /\ pc.at \in Advertising \cup {"done"} => projects = NProjects

(* What is on the chassis or has been learned is of projects that exist.   *)
OnlyCreated ==
  \A v \in Vrfs :
    \/ devices[v] # {} \/ injectedAt[v] # NoHost \/ injected[v] # 0
    \/ \E r \in 1..NLearn : <<v, r>> \in learned
    => v <= projects

(* vrf_info is of the VRFs that are waited for, and of no other phase.     *)
SnapshotAgrees ==
  /\ pc.at \in {"create"} \cup Created => DOMAIN snapshot = {}
  /\ pc.at \in {"waitInstalled", "installed"} => pc.left \subseteq DOMAIN snapshot
  /\ pc.at = "installed" => pc.left # {}
  /\ \A v \in DOMAIN snapshot : snapshot[v].hosts \subseteq devices[v]

IInv == PhaseAgrees /\ OnlyCreated /\ FirstWaitCoversBatch /\ SnapshotAgrees

(***************************************************************************)
(* Routes never go, so that what ended a wait for static routes still      *)
(* holds when the wait is left.                                            *)
(***************************************************************************)
StillEnough ==
  pc.at = "installed" => \A v \in Vrfs : v = First(pc.left) => InstalledEnough(v)

-----------------------------------------------------------------------------
(***************************************************************************)
(* The batches.                                                            *)
(***************************************************************************)
LEMMA SizeType == Size \in Nat /\ Size >= 1 /\ NProjects \in Nat /\ NProjects >= 1
  BY CountsAssumption DEF Size

LEMMA Division ==
  ASSUME NEW a \in Nat, NEW b \in Nat, b >= 1
  PROVE  /\ a \div b \in Nat
         /\ b * (a \div b) <= a /\ a < b * (a \div b) + b
  OBVIOUS

(* The batches but the last are full, and the last ends with the projects. *)
LEMMA BatchBounds ==
  /\ NBatches \in Nat /\ NBatches >= 1
  /\ StartIdx(0) = 0
  /\ \A b \in 0..(NBatches - 1) :
       /\ StartIdx(b) \in Nat /\ EndIdx(b) \in Nat
       /\ StartIdx(b) < NProjects /\ EndIdx(b) <= NProjects
       /\ StartIdx(b) <= EndIdx(b)
       /\ IF b + 1 < NBatches THEN EndIdx(b) = StartIdx(b + 1)
          ELSE EndIdx(b) = NProjects
<1> DEFINE n == NBatches
<1>1. /\ n \in Nat /\ Size * n <= NProjects + Size - 1
      /\ NProjects + Size - 1 < Size * n + Size
  BY SizeType, Division DEF NBatches
<1> HIDE DEF n
<1>2. n >= 1
  BY <1>1, SizeType
<1>3. ASSUME NEW b \in 0..(n - 1)
      PROVE  /\ b * Size \in Nat /\ b * Size < NProjects
             /\ b * Size + Size = (b + 1) * Size
             /\ b + 1 < n => (b + 1) * Size < NProjects
             /\ b + 1 = n => (b + 1) * Size >= NProjects
  <2>1. /\ b \in Nat /\ b * Size \in Nat /\ (b + 1) * Size = b * Size + Size
        /\ n - 1 - b \in Nat
    BY <1>1, SizeType
  <2>2. Size * n = b * Size + Size + (n - 1 - b) * Size /\ (n - 1 - b) * Size >= 0
    BY <1>1, <2>1, SizeType
  <2>3. b * Size < NProjects
    BY <1>1, <2>1, <2>2, SizeType
  <2>4. b + 1 = n => (b + 1) * Size >= NProjects
    BY <1>1, <2>1, <2>2, SizeType
  <2>5. ASSUME b + 1 < n
        PROVE  (b + 1) * Size < NProjects
    <3>1. n - 1 - b >= 1
      BY <1>1, <2>1, <2>5
    <3>2. (n - 1 - b) * Size >= Size
      BY <2>1, <3>1, SizeType
    <3>3. QED
      BY <1>1, <2>1, <2>2, <3>2, SizeType
  <2>6. QED
    BY <2>1, <2>3, <2>4, <2>5
<1>4. StartIdx(0) = 0
  BY SizeType DEF StartIdx
<1>5. ASSUME NEW b \in 0..(n - 1)
      PROVE  /\ StartIdx(b) \in Nat /\ EndIdx(b) \in Nat
             /\ StartIdx(b) < NProjects /\ EndIdx(b) <= NProjects
             /\ StartIdx(b) <= EndIdx(b)
             /\ IF b + 1 < n THEN EndIdx(b) = StartIdx(b + 1)
                ELSE EndIdx(b) = NProjects
  <2>1. b + 1 < n \/ b + 1 = n
    BY <1>1
  <2>2. /\ StartIdx(b) = b * Size /\ StartIdx(b + 1) = (b + 1) * Size
        /\ EndIdx(b) = IF b * Size + Size < NProjects THEN b * Size + Size
                       ELSE NProjects
    BY DEF StartIdx, EndIdx, LesserOf
  <2>3. QED
    BY <1>1, <1>3, <2>1, <2>2, SizeType
<1>6. QED
  BY <1>1, <1>2, <1>4, <1>5 DEF n

LEMMA BatchType ==
  ASSUME NEW b \in 0..(NBatches - 1)
  PROVE  Batch(b) \subseteq Vrfs /\ Batch(b) \subseteq 1..EndIdx(b)
  BY BatchBounds, SizeType DEF Batch, Vrfs

LEMMA FirstIsLeast ==
  ASSUME NEW S, S \subseteq Nat, S # {}
  PROVE  First(S) \in S
<1>1. PICK x \in S : \A y \in S : ~(<<y, x>> \in OpToRel(<, Nat))
  BY NatLessThanWellFounded, WFMin
<1>2. ASSUME NEW y \in S
      PROVE  x <= y
  <2>1. <<y, x>> \in Nat \X Nat /\ x \in Nat /\ y \in Nat
    OBVIOUS
  <2>2. ~(y < x)
    BY <1>1, <2>1 DEF OpToRel
  <2>3. QED
    BY <2>1, <2>2
<1>3. QED
  BY <1>2 DEF First

LEMMA FirstLeft ==
  ASSUME TypeOK, pc.left # {}
  PROVE  First(pc.left) \in pc.left /\ First(pc.left) \in Vrfs
<1>1. pc.left \subseteq Vrfs /\ Vrfs \subseteq Nat
  BY DEF TypeOK, Vrfs
<1>2. QED
  BY <1>1, FirstIsLeast

LEMMA AtFields ==
  ASSUME NEW loc, NEW b, NEW left
  PROVE  /\ At(loc, b, left).at = loc /\ At(loc, b, left).batch = b
         /\ At(loc, b, left).left = left
         /\ loc \in Locations /\ b \in 0..NBatches /\ left \subseteq Vrfs
              => At(loc, b, left) \in PcTypes
  BY DEF At, PcTypes

LEMMA CountType ==
  ASSUME TypeOK, NEW v \in Vrfs, NEW c \in Chassis
  PROVE  /\ installed[v][c] \in 0..NAdvertise
         /\ Elsewhere(v, c) \in Nat /\ Count(v, c) \in Nat
         /\ Count(v, c) = Elsewhere(v, c) + installed[v][c]
<1>1. /\ installed[v][c] \in 0..NAdvertise /\ others[v][c] \in Nat
      /\ injected[v] \in 0..NLearn
  BY DEF TypeOK
<1>2. QED
  BY <1>1, CountsAssumption DEF Count, Elsewhere

-----------------------------------------------------------------------------
(***************************************************************************)
(* The steps of the tester, one by one, and those of ovn-controller.       *)
(***************************************************************************)
LEMMA InitSound == Init => TypeOK /\ IInv
<1> SUFFICES ASSUME Init
             PROVE  TypeOK /\ IInv
  OBVIOUS
<1>1. /\ projects = 0 /\ devices = [v \in Vrfs |-> {}] /\ learned = {}
      /\ injectedAt = [v \in Vrfs |-> NoHost] /\ requested = {}
      /\ installed = [v \in Vrfs |-> [c \in Chassis |-> 0]]
      /\ others = [v \in Vrfs |-> [c \in Chassis |-> 0]]
      /\ injected = [v \in Vrfs |-> 0] /\ DOMAIN snapshot = {}
  BY DEF Init, NoInfo
<1>2. /\ pc.at = "create" /\ pc.batch = 0 /\ pc \in PcTypes /\ 0 < NBatches
      /\ StartIdx(0) = 0
  BY AtFields, BatchBounds DEF Init, Locations
<1>3. TypeOK
  BY <1>1, <1>2, CountsAssumption DEF TypeOK, PcTypes
<1>4. PhaseAgrees /\ OnlyCreated /\ FirstWaitCoversBatch /\ SnapshotAgrees
  BY <1>1, <1>2
     DEF PhaseAgrees, OnlyCreated, FirstWaitCoversBatch, SnapshotAgrees, Created,
         Advertising
<1>5. QED
  BY <1>3, <1>4 DEF IInv

(* Where the next batch begins, and where its phase ends.                  *)
LEMMA NextLearnIs ==
  ASSUME NEW b \in 0..(NBatches - 1), NEW p, p = NextLearn(b + 1)
  PROVE  /\ p \in PcTypes /\ p.batch < NBatches
         /\ \/ p.at = "create" /\ StartIdx(p.batch) = EndIdx(b)
            \/ p.at = "snapshot" /\ EndIdx(b) = NProjects
<1>1. CASE b + 1 < NBatches
  <2>1. p = At("create", b + 1, {}) /\ b + 1 \in 0..NBatches
    BY <1>1, BatchBounds DEF NextLearn
  <2>2. QED
    BY <1>1, <2>1, AtFields, BatchBounds DEF Locations
<1>2. CASE ~(b + 1 < NBatches)
  <2>1. p = At("snapshot", 0, Batch(0)) /\ 0 \in 0..NBatches /\ 0 < NBatches
    BY <1>2, BatchBounds DEF NextLearn
  <2>2. Batch(0) \subseteq Vrfs
    BY BatchBounds, BatchType
  <2>3. QED
    BY <1>2, <2>1, <2>2, AtFields, BatchBounds DEF Locations
<1>3. QED
  BY <1>1, <1>2

LEMMA NextAdvertiseIs ==
  ASSUME NEW b \in 0..(NBatches - 1), NEW p, p = NextAdvertise(b + 1)
  PROVE  /\ p \in PcTypes
         /\ p.at = "done" \/ (p.at = "snapshot" /\ p.batch < NBatches)
<1>1. CASE b + 1 < NBatches
  <2>1. p = At("snapshot", b + 1, Batch(b + 1)) /\ b + 1 \in 0..NBatches
    BY <1>1, BatchBounds DEF NextAdvertise
  <2>2. Batch(b + 1) \subseteq Vrfs
    BY <1>1, BatchBounds, BatchType
  <2>3. QED
    BY <1>1, <2>1, <2>2, AtFields DEF Locations
<1>2. CASE ~(b + 1 < NBatches)
  <2>1. p = At("done", b + 1, {}) /\ b + 1 \in 0..NBatches
    BY <1>2, BatchBounds DEF NextAdvertise
  <2>2. QED
    BY <2>1, AtFields DEF Locations
<1>3. QED
  BY <1>1, <1>2

(* Where the tester is, with the numbers that go with it.                  *)
LEMMA Where ==
  ASSUME TypeOK, IInv
  PROVE  /\ pc \in PcTypes /\ pc.left \subseteq Vrfs
         /\ pc.at \in {"create"} \cup Created \cup Advertising =>
              pc.batch \in 0..(NBatches - 1)
         /\ pc.at = "create" => projects = StartIdx(pc.batch)
         /\ pc.at \in Created => projects = EndIdx(pc.batch)
         /\ pc.at \in Advertising \cup {"done"} => projects = NProjects
  BY BatchBounds DEF IInv, PhaseAgrees, TypeOK

LEMMA CreateProjectsSound == TypeOK /\ IInv /\ CreateProjects => TypeOK' /\ IInv'
<1> SUFFICES ASSUME TypeOK, IInv, CreateProjects
             PROVE  TypeOK' /\ IInv'
  OBVIOUS
<1> DEFINE b == pc.batch
<1>1. /\ pc.at = "create" /\ b \in 0..(NBatches - 1) /\ projects = StartIdx(b)
      /\ projects' = projects + (EndIdx(b) - StartIdx(b))
      /\ pc' = At("inject", b, Batch(b)) /\ Batch(b) \subseteq Vrfs
      /\ UNCHANGED <<devices, injectedAt, injected, learned, installed,
                     others, requested, snapshot>>
  BY Where, BatchType DEF CreateProjects, cloud
<1> HIDE DEF b
<1>2. /\ projects' = EndIdx(b) /\ projects' \in 0..NProjects
      /\ projects <= projects' /\ projects \in Nat /\ b \in 0..NBatches /\ b < NBatches
  BY <1>1, BatchBounds, SizeType
<1>3. /\ pc'.at = "inject" /\ pc'.batch = b /\ pc' \in PcTypes
  BY <1>1, <1>2, AtFields DEF Locations
<1>4. TypeOK'
  BY <1>1, <1>2, <1>3 DEF TypeOK, PcTypes
<1>5. PhaseAgrees'
  BY <1>2, <1>3 DEF PhaseAgrees, Created, Advertising, EndIdx, StartIdx
<1>6. OnlyCreated'
  <2>1. \A v \in Vrfs : v <= projects => v <= projects'
    BY <1>2 DEF Vrfs
  <2>2. QED
    BY <1>1, <2>1 DEF IInv, OnlyCreated
<1>7. FirstWaitCoversBatch' /\ SnapshotAgrees'
  BY <1>1, <1>3 DEF IInv, FirstWaitCoversBatch, SnapshotAgrees, Created
<1>8. QED
  BY <1>4, <1>5, <1>6, <1>7 DEF IInv

LEMMA InjectRoutesSound == TypeOK /\ IInv /\ InjectRoutes => TypeOK' /\ IInv'
<1> SUFFICES ASSUME TypeOK, IInv, InjectRoutes
             PROVE  TypeOK' /\ IInv'
  OBVIOUS
<1> DEFINE v == First(pc.left)
<1>1. /\ pc.at = "inject" /\ v \in Vrfs /\ pc \in PcTypes
      /\ pc' = [pc EXCEPT !.left = @ \ {v}]
      /\ UNCHANGED <<projects, devices, injected, learned, installed,
                     others, requested, snapshot>>
  BY FirstLeft, Where DEF InjectRoutes
<1>2. PICK c \in devices[v] : injectedAt' = [injectedAt EXCEPT ![v] = c]
  BY DEF InjectRoutes
<1> HIDE DEF v
<1>3. /\ pc'.at = "inject" /\ pc'.batch = pc.batch /\ pc' \in PcTypes
  BY <1>1 DEF PcTypes
<1>4. c \in Chassis /\ devices[v] # {}
  BY <1>1, <1>2 DEF TypeOK
<1>5. /\ injectedAt' \in [Vrfs -> Chassis \cup {NoHost}]
      /\ \A u \in Vrfs \ {v} : injectedAt'[u] = injectedAt[u]
  BY <1>1, <1>2, <1>4 DEF TypeOK
<1>6. TypeOK'
  BY <1>1, <1>3, <1>5 DEF TypeOK, PcTypes
<1>7. PhaseAgrees'
  BY <1>1, <1>3 DEF IInv, PhaseAgrees, Created, Advertising, EndIdx, StartIdx
<1>8. OnlyCreated'
  BY <1>1, <1>4, <1>5 DEF IInv, OnlyCreated
<1>9. FirstWaitCoversBatch' /\ SnapshotAgrees'
  BY <1>1, <1>3 DEF IInv, FirstWaitCoversBatch, SnapshotAgrees, Created
<1>10. QED
  BY <1>6, <1>7, <1>8, <1>9 DEF IInv

(* The steps of the learning phase that only move the tester.              *)
LEMMA LearningSound ==
  ASSUME TypeOK, IInv,
         HostNotFound \/ AllInjected \/ RoutesLearned \/ LearnTimesOut
           \/ LearnRaises \/ LearnReturns
  PROVE  TypeOK' /\ IInv'
<1>1. /\ pc.at \in Created /\ pc \in PcTypes /\ pc.left \subseteq Vrfs
      /\ UNCHANGED <<projects, devices, injectedAt, injected, learned, installed,
                     others, requested, snapshot>>
      /\ pc.batch \in 0..(NBatches - 1) /\ projects = EndIdx(pc.batch)
  BY Where DEF HostNotFound, AllInjected, RoutesLearned, LearnTimesOut,
     LearnRaises, LearnReturns, cloud, Created
<1>2. pc.batch \in 0..NBatches /\ pc.batch < NBatches
  BY <1>1, BatchBounds
<1>3. \/ pc'.at \in {"inject", "waitLearned"} /\ pc'.batch = pc.batch
      \/ RoutesLearned
      \/ pc' = NextLearn(pc.batch + 1)
  <2>1. CASE HostNotFound
    BY <1>1, <2>1 DEF HostNotFound, PcTypes
  <2>2. CASE AllInjected
    BY <2>2, AtFields DEF AllInjected
  <2>3. QED
    BY <2>1, <2>2 DEF LearnTimesOut, LearnRaises, LearnReturns
<1>4. pc' \in PcTypes
  <2>1. CASE HostNotFound
    BY <1>1, <2>1 DEF HostNotFound, PcTypes
  <2>2. CASE AllInjected
    BY <1>2, <2>2, AtFields DEF AllInjected, Locations
  <2>3. CASE RoutesLearned
    BY <1>2, <2>3, AtFields DEF RoutesLearned, Locations
  <2>4. CASE pc' = NextLearn(pc.batch + 1)
    BY <1>1, <2>4, NextLearnIs
  <2>5. QED
    BY <2>1, <2>2, <2>3, <2>4 DEF LearnTimesOut, LearnRaises, LearnReturns
<1>5. TypeOK'
  BY <1>1, <1>4 DEF TypeOK, PcTypes
<1>6. OnlyCreated'
  BY <1>1 DEF IInv, OnlyCreated
<1>7. DOMAIN snapshot = {}
  BY <1>1 DEF IInv, SnapshotAgrees
<1>8. CASE pc'.at \in {"inject", "waitLearned"} /\ pc'.batch = pc.batch
  <2>1. PhaseAgrees' /\ FirstWaitCoversBatch' /\ SnapshotAgrees'
    BY <1>1, <1>2, <1>4, <1>7, <1>8
       DEF PhaseAgrees, FirstWaitCoversBatch, SnapshotAgrees, Created, Advertising,
           EndIdx, StartIdx
  <2>2. QED
    BY <1>5, <1>6, <2>1 DEF IInv
<1>9. CASE RoutesLearned
  <2>1. pc'.at = "learned" /\ pc'.batch = pc.batch
    BY <1>9, AtFields DEF RoutesLearned
  <2>2. PhaseAgrees' /\ SnapshotAgrees'
    BY <1>1, <1>2, <1>4, <1>7, <2>1
       DEF PhaseAgrees, SnapshotAgrees, Created, Advertising, EndIdx, StartIdx
  <2>3. FirstWaitCoversBatch'
    <3> DEFINE rows == Batch(0) \X (1..NLearn)
    <3>1. SUFFICES ASSUME pc.batch = 0
                   PROVE  rows \subseteq learned
      BY <1>1, <2>1 DEF FirstWaitCoversBatch, Batch, StartIdx, EndIdx
    <3>2. /\ Batch(0) = 1..EndIdx(0) /\ projects = EndIdx(0) /\ EndIdx(0) \in Nat
          /\ EndIdx(0) <= NProjects
      BY <1>1, <3>1, BatchBounds DEF Batch
    <3>3. learned \subseteq rows
      <4>1. SUFFICES ASSUME NEW v \in Vrfs, NEW n \in 1..NLearn, <<v, n>> \in learned
                     PROVE  v \in 1..EndIdx(0)
        BY <3>2 DEF TypeOK
      <4>2. v <= projects
        BY <4>1 DEF IInv, OnlyCreated
      <4>3. QED
        BY <3>2, <4>2, SizeType DEF Vrfs
    <3>4. /\ IsFiniteSet(Batch(0)) /\ IsFiniteSet(1..NLearn)
          /\ Cardinality(1..NLearn) = NLearn
      <4>1. /\ NLearn \in Int /\ 1 \in Int /\ EndIdx(0) \in Int /\ ~(1 > NLearn)
            /\ NLearn - 1 + 1 = NLearn
        BY <3>2, CountsAssumption
      <4>2. /\ IsFiniteSet(1..NLearn)
            /\ Cardinality(1..NLearn) = IF 1 > NLearn THEN 0 ELSE NLearn - 1 + 1
        BY <4>1, FS_Interval
      <4>3. IsFiniteSet(1..EndIdx(0))
        BY <4>1, FS_Interval
      <4>4. QED
        BY <3>2, <4>1, <4>2, <4>3
    <3>5. /\ IsFiniteSet(rows)
          /\ Cardinality(rows) = Cardinality(Batch(0)) * NLearn
      BY <3>4, FS_Product
    <3>6. /\ Cardinality(learned) <= Cardinality(rows)
          /\ IsFiniteSet(learned)
          /\ Cardinality(rows) = Cardinality(learned) => rows = learned
      BY <3>3, <3>5, FS_Subset
    <3>7. /\ Cardinality(learned) \in Nat /\ Cardinality(Batch(0)) \in Nat
          /\ NLearn \in Nat
      BY <3>4, <3>6, FS_CardinalityType, CountsAssumption
    <3>8. Cardinality(learned) >= NLearn * Cardinality(Batch(0))
      BY <1>9, <3>1 DEF RoutesLearned, LearnedEnough, LearnedRoutes, Expected
    <3>9. NLearn * Cardinality(Batch(0)) = Cardinality(Batch(0)) * NLearn
      BY <3>7
    <3>10. Cardinality(rows) = Cardinality(learned)
      BY <3>5, <3>6, <3>7, <3>8, <3>9
    <3>11. QED
      BY <3>6, <3>10
  <2>4. QED
    BY <1>5, <1>6, <2>2, <2>3 DEF IInv
<1>10. CASE pc' = NextLearn(pc.batch + 1)
  <2>1. /\ pc'.batch < NBatches
        /\ \/ pc'.at = "create" /\ StartIdx(pc'.batch) = EndIdx(pc.batch)
           \/ pc'.at = "snapshot" /\ EndIdx(pc.batch) = NProjects
    BY <1>1, <1>10, NextLearnIs
  <2>2. PhaseAgrees' /\ FirstWaitCoversBatch' /\ SnapshotAgrees'
    BY <1>1, <1>4, <1>7, <2>1
       DEF PhaseAgrees, FirstWaitCoversBatch, SnapshotAgrees, Created, Advertising,
           EndIdx, StartIdx
  <2>3. QED
    BY <1>5, <1>6, <2>2 DEF IInv
<1>11. QED
  BY <1>3, <1>8, <1>9, <1>10

(* A baseline is a count on one of the hosts that are recorded with it.    *)
LEMMA SnapshotEffect ==
  ASSUME TypeOK, IInv, TakeSnapshot
  PROVE  LET v == First(pc.left) IN
         /\ v \in Vrfs
         /\ \/ snapshot' = snapshot
            \/ /\ DOMAIN snapshot' = DOMAIN snapshot \cup {v}
               /\ \A u \in DOMAIN snapshot \ {v} : snapshot'[u] = snapshot[u]
               /\ snapshot'[v].hosts \subseteq devices[v]
               /\ snapshot'[v].base \in Nat /\ snapshot'[v].seen \in Nat
<1> DEFINE v == First(pc.left)
<1>1. v \in Vrfs
  BY FirstLeft DEF TakeSnapshot
<1>2. CASE snapshot' = snapshot
  BY <1>1, <1>2
<1>3. ASSUME NEW hosts \in (SUBSET devices[v]) \ {{}},
             NEW info \in Snapshots(v, hosts),
             snapshot' = [u \in DOMAIN snapshot \cup {v} |->
                            IF u = v THEN info ELSE snapshot[u]]
      PROVE  /\ DOMAIN snapshot' = DOMAIN snapshot \cup {v}
             /\ \A u \in DOMAIN snapshot \ {v} : snapshot'[u] = snapshot[u]
             /\ snapshot'[v].hosts \subseteq devices[v]
             /\ snapshot'[v].base \in Nat /\ snapshot'[v].seen \in Nat
  <2> HIDE DEF v
  <2>1. hosts \subseteq Chassis /\ hosts \subseteq Nat /\ hosts # {}
    <3>1. devices[v] \subseteq Chassis
      BY <1>1 DEF TypeOK, v
    <3>2. hosts \subseteq devices[v] /\ hosts # {}
      BY <1>3
    <3>3. QED
      BY <3>1, <3>2, ChassisAssumption
  <2>2. First(hosts) \in Chassis
    BY <2>1, FirstIsLeast
  <2>3. info.hosts = hosts /\ info.base \in Nat /\ info.seen \in Nat
    BY <1>1, <1>3, <2>2, CountType DEF Snapshots, Readings
  <2>4. QED
    BY <1>3, <2>3
<1>4. QED
  BY <1>1, <1>2, <1>3 DEF TakeSnapshot

LEMMA TakeSnapshotSound == TypeOK /\ IInv /\ TakeSnapshot => TypeOK' /\ IInv'
<1> SUFFICES ASSUME TypeOK, IInv, TakeSnapshot
             PROVE  TypeOK' /\ IInv'
  OBVIOUS
<1> DEFINE v == First(pc.left)
<1>1. /\ pc.at = "snapshot" /\ pc \in PcTypes /\ v \in Vrfs
      /\ pc' = [pc EXCEPT !.left = @ \ {v}]
      /\ UNCHANGED <<projects, devices, injectedAt, injected, learned, installed,
                     others, requested>>
  BY Where, FirstLeft DEF TakeSnapshot, cloud
<1>2. \/ snapshot' = snapshot
      \/ /\ DOMAIN snapshot' = DOMAIN snapshot \cup {v}
         /\ \A u \in DOMAIN snapshot \ {v} : snapshot'[u] = snapshot[u]
         /\ snapshot'[v].hosts \subseteq devices[v]
         /\ snapshot'[v].base \in Nat /\ snapshot'[v].seen \in Nat
  BY SnapshotEffect
<1> HIDE DEF v
<1>3. /\ pc'.at = "snapshot" /\ pc'.batch = pc.batch /\ pc' \in PcTypes
  BY <1>1 DEF PcTypes
<1>4. /\ DOMAIN snapshot' \subseteq Vrfs
      /\ \A u \in DOMAIN snapshot' :
           /\ snapshot'[u].hosts \subseteq devices[u]
           /\ snapshot'[u].base \in Nat /\ snapshot'[u].seen \in Nat
  <2>1. \A u \in DOMAIN snapshot :
           /\ u \in Vrfs /\ snapshot[u].hosts \subseteq devices[u]
           /\ snapshot[u].base \in Nat /\ snapshot[u].seen \in Nat
    BY DEF TypeOK, IInv, SnapshotAgrees
  <2>2. QED
    BY <1>1, <1>2, <2>1
<1>5. TypeOK'
  <2>1. \A u \in Vrfs : devices[u] \subseteq Chassis
    BY DEF TypeOK
  <2>2. QED
    BY <1>1, <1>3, <1>4, <2>1 DEF TypeOK, PcTypes
<1>6. PhaseAgrees'
  BY <1>1, <1>3 DEF IInv, PhaseAgrees, Created, Advertising, EndIdx, StartIdx
<1>7. OnlyCreated' /\ FirstWaitCoversBatch'
  BY <1>1, <1>3 DEF IInv, OnlyCreated, FirstWaitCoversBatch
<1>8. SnapshotAgrees'
  BY <1>1, <1>3, <1>4 DEF SnapshotAgrees, Created
<1>9. QED
  BY <1>5, <1>6, <1>7, <1>8 DEF IInv

(* The other steps of the advertising phase.                               *)
LEMMA AdvertisingSound ==
  ASSUME TypeOK, IInv,
         AddStaticRoutes \/ RoutesInstalled \/ InstalledNext \/ InstallTimesOut
           \/ AdvertiseReturns
  PROVE  TypeOK' /\ IInv'
<1>1. /\ pc.at \in Advertising /\ pc \in PcTypes /\ pc.left \subseteq Vrfs
      /\ UNCHANGED <<projects, devices, injectedAt, injected, learned, installed,
                     others>>
      /\ pc.batch \in 0..(NBatches - 1) /\ projects = NProjects
      /\ Batch(pc.batch) \subseteq Vrfs
  BY Where, BatchType DEF AddStaticRoutes, RoutesInstalled, InstalledNext,
     InstallTimesOut, AdvertiseReturns, cloud, Advertising
<1>2. pc.batch \in 0..NBatches /\ pc.batch < NBatches
  BY <1>1, BatchBounds
<1>3. requested' \subseteq Vrfs /\ (snapshot' = snapshot \/ DOMAIN snapshot' = {})
  BY <1>1 DEF AddStaticRoutes, RoutesInstalled, InstalledNext, InstallTimesOut,
     AdvertiseReturns, NoInfo, TypeOK
<1>4. \/ /\ pc'.at = "waitInstalled" /\ pc'.batch = pc.batch /\ pc' \in PcTypes
         /\ pc'.left \subseteq DOMAIN snapshot /\ snapshot' = snapshot
      \/ /\ pc'.at = "installed" /\ pc'.batch = pc.batch /\ pc' \in PcTypes
         /\ pc'.left \subseteq DOMAIN snapshot /\ pc'.left # {}
         /\ snapshot' = snapshot
      \/ /\ pc' \in PcTypes /\ DOMAIN snapshot' = {}
         /\ pc'.at = "done" \/ (pc'.at = "snapshot" /\ pc'.batch < NBatches)
  <2>1. CASE AddStaticRoutes
    <3>1. DOMAIN snapshot \subseteq Vrfs
      BY DEF TypeOK
    <3>2. QED
      BY <1>2, <2>1, <3>1, AtFields DEF AddStaticRoutes, Locations
  <2>2. CASE RoutesInstalled
    <3>1. pc.at = "waitInstalled" /\ pc.left \subseteq DOMAIN snapshot
      BY <2>2 DEF RoutesInstalled, IInv, SnapshotAgrees
    <3>2. QED
      BY <1>1, <2>2, <3>1 DEF RoutesInstalled, PcTypes, Locations
  <2>3. CASE InstalledNext
    <3>1. pc.left \subseteq DOMAIN snapshot
      BY <2>3 DEF InstalledNext, IInv, SnapshotAgrees
    <3>2. pc.left \ {First(pc.left)} \subseteq Vrfs
      BY <1>1
    <3>3. QED
      BY <1>2, <2>3, <3>1, <3>2, AtFields DEF InstalledNext, Locations
  <2>4. CASE InstallTimesOut
    <3>1. pc.left \subseteq DOMAIN snapshot
      BY <2>4 DEF InstallTimesOut, IInv, SnapshotAgrees
    <3>2. QED
      BY <1>1, <2>4, <3>1 DEF InstallTimesOut, PcTypes
  <2>5. CASE AdvertiseReturns
    BY <1>1, <2>5, NextAdvertiseIs DEF AdvertiseReturns, NoInfo
  <2>6. QED
    BY <2>1, <2>2, <2>3, <2>4, <2>5
<1>5. TypeOK'
  BY <1>1, <1>3, <1>4 DEF TypeOK, PcTypes
<1>6. PhaseAgrees'
  BY <1>1, <1>2, <1>4 DEF PhaseAgrees, Created, Advertising
<1>7. OnlyCreated' /\ FirstWaitCoversBatch'
  BY <1>1, <1>4 DEF IInv, OnlyCreated, FirstWaitCoversBatch
<1>8. SnapshotAgrees'
  BY <1>1, <1>4 DEF IInv, SnapshotAgrees, Created
<1>9. QED
  BY <1>5, <1>6, <1>7, <1>8 DEF IInv

LEMMA RaisesSound ==
  TypeOK /\ IInv /\ (NorthboundRaises \/ RunRaises) => TypeOK' /\ IInv'
<1> SUFFICES ASSUME TypeOK, IInv, NorthboundRaises \/ RunRaises
             PROVE  TypeOK' /\ IInv'
  OBVIOUS
<1>1. /\ pc.at \in {"create"} \cup Created \cup Advertising
      /\ pc.batch \in 0..(NBatches - 1)
      /\ UNCHANGED <<devices, injectedAt, injected, learned, installed, others,
                     snapshot>>
      /\ pc' = At("aborted", pc.batch, {})
      /\ pc.batch \in 0..NBatches /\ projects \in 0..NProjects
      /\ EndIdx(pc.batch) \in Nat /\ EndIdx(pc.batch) <= NProjects
  BY Where, BatchBounds
     DEF NorthboundRaises, RunRaises, cloud, Created, Advertising, TypeOK
<1>2. pc'.at = "aborted" /\ pc' \in PcTypes
  BY <1>1, AtFields DEF Locations
<1>3. projects' \in 0..NProjects /\ projects <= projects'
  BY <1>1, SizeType DEF NorthboundRaises, RunRaises
<1>4. requested' \subseteq Vrfs
  BY <1>1, BatchType DEF NorthboundRaises, RunRaises, TypeOK
<1>5. TypeOK'
  BY <1>1, <1>2, <1>3, <1>4 DEF TypeOK, PcTypes
<1>6. PhaseAgrees' /\ FirstWaitCoversBatch' /\ SnapshotAgrees'
  BY <1>1, <1>2
     DEF IInv, PhaseAgrees, FirstWaitCoversBatch, SnapshotAgrees, Created, Advertising
<1>7. OnlyCreated'
  <2>1. \A v \in Vrfs : v <= projects => v <= projects'
    BY <1>1, <1>3 DEF Vrfs
  <2>2. QED
    BY <1>1, <2>1 DEF IInv, OnlyCreated
<1>8. QED
  BY <1>5, <1>6, <1>7 DEF IInv

LEMMA DeviceAppearsSound ==
  ASSUME TypeOK, IInv, NEW v \in Vrfs, NEW c \in Chassis, DeviceAppears(v, c)
  PROVE  TypeOK' /\ IInv'
<1>1. /\ UNCHANGED <<projects, injectedAt, injected, learned, installed, others,
                     requested, snapshot, pc>>
      /\ v <= projects /\ devices' = [devices EXCEPT ![v] = devices[v] \cup {c}]
  BY DEF DeviceAppears
<1>2. /\ devices' \in [Vrfs -> SUBSET Chassis]
      /\ \A u \in Vrfs : /\ devices[u] \subseteq devices'[u]
                         /\ devices'[u] # devices[u] => u <= projects
  BY <1>1 DEF TypeOK
<1>3. TypeOK'
  BY <1>1, <1>2 DEF TypeOK
<1>4. PhaseAgrees' /\ FirstWaitCoversBatch'
  BY <1>1 DEF IInv, PhaseAgrees, FirstWaitCoversBatch, Batch, EndIdx, StartIdx
<1>5. OnlyCreated'
  BY <1>1, <1>2 DEF IInv, OnlyCreated
<1>6. SnapshotAgrees'
  BY <1>1, <1>2 DEF IInv, SnapshotAgrees, TypeOK
<1>7. QED
  BY <1>3, <1>4, <1>5, <1>6 DEF IInv

LEMMA LearnSound ==
  ASSUME TypeOK, IInv, NEW v \in Vrfs, Learn(v)
  PROVE  TypeOK' /\ IInv'
<1>1. UNCHANGED <<projects, devices, injectedAt, injected, installed, others,
                  requested, snapshot, pc>>
  BY DEF Learn
<1>2. PICK r \in 1..injected[v] : learned' = learned \cup {<<v, r>>}
  BY DEF Learn
<1>3. injected[v] \in 0..NLearn /\ NLearn \in Nat
  BY CountsAssumption DEF TypeOK
<1>4. r \in 1..NLearn /\ injected[v] # 0
  BY <1>2, <1>3
<1>5. TypeOK'
  BY <1>1, <1>2, <1>4 DEF TypeOK
<1>6. PhaseAgrees' /\ FirstWaitCoversBatch' /\ SnapshotAgrees'
  BY <1>1, <1>2 DEF IInv, PhaseAgrees, FirstWaitCoversBatch, SnapshotAgrees, Batch,
     EndIdx, StartIdx
<1>7. OnlyCreated'
  BY <1>1, <1>2, <1>4 DEF IInv, OnlyCreated
<1>8. QED
  BY <1>5, <1>6, <1>7 DEF IInv

(* The other steps of scripts and controllers add to a count.              *)
LEMMA CountingSound ==
  ASSUME TypeOK, IInv, NEW v \in Vrfs,
         AddRoute(v) \/ \E c \in Chassis : Install(v, c) \/ OtherRouteAppears(v, c)
  PROVE  TypeOK' /\ IInv'
<1>1. UNCHANGED <<projects, devices, injectedAt, learned, requested, snapshot, pc>>
  BY DEF AddRoute, Install, OtherRouteAppears
<1>2. /\ injected' \in [Vrfs -> 0..NLearn]
      /\ installed' \in [Vrfs -> [Chassis -> 0..NAdvertise]]
      /\ others' \in [Vrfs -> [Chassis -> Nat]]
      /\ \A u \in Vrfs : injected'[u] # injected[u] => injectedAt[u] # NoHost
  <2>1. CASE AddRoute(v)
    <3>1. injected[v] + 1 \in 0..NLearn
      BY <2>1, CountsAssumption DEF AddRoute, TypeOK
    <3>2. QED
      BY <2>1, <3>1 DEF AddRoute, TypeOK
  <2>2. ASSUME NEW c \in Chassis, Install(v, c)
        PROVE  /\ installed' \in [Vrfs -> [Chassis -> 0..NAdvertise]]
               /\ UNCHANGED <<injected, others>>
    <3>1. installed[v][c] + 1 \in 0..NAdvertise
      BY <2>2, CountType, CountsAssumption DEF Install
    <3>2. QED
      BY <2>2, <3>1 DEF Install, TypeOK
  <2>3. ASSUME NEW c \in Chassis, OtherRouteAppears(v, c)
        PROVE  /\ others' \in [Vrfs -> [Chassis -> Nat]]
               /\ UNCHANGED <<injected, installed>>
    <3>1. others[v][c] \in Nat
      BY DEF TypeOK
    <3>2. others[v][c] + 1 \in Nat
      BY <3>1
    <3>3. QED
      BY <2>3, <3>2 DEF OtherRouteAppears, TypeOK
  <2>4. QED
    BY <2>1, <2>2, <2>3 DEF TypeOK
<1>3. TypeOK'
  BY <1>1, <1>2 DEF TypeOK
<1>4. PhaseAgrees' /\ FirstWaitCoversBatch' /\ SnapshotAgrees'
  BY <1>1 DEF IInv, PhaseAgrees, FirstWaitCoversBatch, SnapshotAgrees, Batch, EndIdx,
     StartIdx
<1>5. OnlyCreated'
  BY <1>1, <1>2 DEF IInv, OnlyCreated
<1>6. QED
  BY <1>3, <1>4, <1>5 DEF IInv

LEMMA StepSound == TypeOK /\ IInv /\ [Next]_vars => TypeOK' /\ IInv'
<1> SUFFICES ASSUME TypeOK, IInv, [Next]_vars
             PROVE  TypeOK' /\ IInv'
  OBVIOUS
<1>1. CASE Tester
  BY <1>1, CreateProjectsSound, InjectRoutesSound, LearningSound,
     TakeSnapshotSound, AdvertisingSound, RaisesSound DEF Tester
<1>2. CASE Controllers
  BY <1>2, DeviceAppearsSound, LearnSound, CountingSound DEF Controllers
<1>3. CASE UNCHANGED vars
  BY <1>3 DEF vars, cloud, TypeOK, IInv, PhaseAgrees, OnlyCreated, FirstWaitCoversBatch,
     SnapshotAgrees, Batch, EndIdx, StartIdx
<1>4. QED
  BY <1>1, <1>2, <1>3 DEF Next

LEMMA Invariance == Spec => [](TypeOK /\ IInv)
<1>1. QED
  BY InitSound, StepSound, PTL DEF Spec

-----------------------------------------------------------------------------
(***************************************************************************)
(* The waits for static routes.                                            *)
(***************************************************************************)
LEMMA CountsGrow ==
  ASSUME TypeOK, NEW u \in Vrfs, NEW v \in Vrfs, NEW d \in Chassis,
         AddRoute(u) \/ \E c \in Chassis : Install(u, c) \/ OtherRouteAppears(u, c)
  PROVE  Count(v, d) \in Nat /\ Count(v, d)' \in Nat /\ Count(v, d)' >= Count(v, d)
<1>1. /\ installed[v][d] \in Nat /\ others[v][d] \in Nat /\ injected[v] \in Nat
      /\ UNCHANGED injectedAt
  BY CountsAssumption DEF TypeOK, AddRoute, Install, OtherRouteAppears
<1>2. CASE AddRoute(u)
  <2>1. /\ UNCHANGED <<installed, others>>
        /\ injected'[v] = injected[v] \/ injected'[v] = injected[v] + 1
    BY <1>2 DEF AddRoute, TypeOK
  <2>2. QED
    BY <1>1, <2>1 DEF Count, Elsewhere
<1>3. ASSUME NEW c \in Chassis, Install(u, c)
      PROVE  /\ UNCHANGED <<injected, others>>
             /\ \/ installed'[v][d] = installed[v][d]
                \/ installed'[v][d] = installed[v][d] + 1
  BY <1>3 DEF Install, TypeOK
<1>4. ASSUME NEW c \in Chassis, OtherRouteAppears(u, c)
      PROVE  /\ UNCHANGED <<injected, installed>>
             /\ \/ others'[v][d] = others[v][d]
                \/ others'[v][d] = others[v][d] + 1
  BY <1>4 DEF OtherRouteAppears, TypeOK
<1>5. QED
  BY <1>1, <1>2, <1>3, <1>4 DEF Count, Elsewhere

LEMMA StepStillEnough ==
  TypeOK /\ IInv /\ StillEnough /\ [Next]_vars => StillEnough'
<1> SUFFICES ASSUME TypeOK, IInv, StillEnough, [Next]_vars, pc'.at = "installed",
                    NEW v \in Vrfs, v = First(pc'.left)
             PROVE  InstalledEnough(v)'
  BY DEF StillEnough
<1>1. CASE RoutesInstalled
  <2>1. /\ pc' = [pc EXCEPT !.at = "installed"] /\ pc \in PcTypes
        /\ UNCHANGED <<injectedAt, injected, installed, others, snapshot>>
    BY <1>1, Where DEF RoutesInstalled, cloud
  <2>2. pc'.left = pc.left
    BY <2>1 DEF PcTypes
  <2>3. QED
    BY <1>1, <2>1, <2>2
       DEF RoutesInstalled, InstalledEnough, Count, Elsewhere
<1>2. CASE Tester /\ ~RoutesInstalled
  <2>1. CASE pc' \in {NextLearn(pc.batch + 1), NextAdvertise(pc.batch + 1)}
    <3>1. pc.batch \in 0..(NBatches - 1)
      BY <1>2, Where DEF Tester, CreateProjects, InjectRoutes, HostNotFound,
         AllInjected, RoutesLearned, LearnTimesOut, LearnRaises, LearnReturns,
         TakeSnapshot, AddStaticRoutes, InstalledNext, InstallTimesOut,
         AdvertiseReturns, NorthboundRaises, RunRaises, Created, Advertising
    <3>2. QED
      BY <2>1, <3>1, NextLearnIs, NextAdvertiseIs
  <2>2. CASE InjectRoutes \/ HostNotFound \/ TakeSnapshot \/ InstallTimesOut
    BY <2>2, Where
       DEF InjectRoutes, HostNotFound, TakeSnapshot, InstallTimesOut, PcTypes
  <2>3. CASE \/ CreateProjects \/ AllInjected \/ RoutesLearned \/ AddStaticRoutes
             \/ InstalledNext \/ NorthboundRaises \/ RunRaises
    BY <2>3, AtFields DEF CreateProjects, AllInjected, RoutesLearned,
       AddStaticRoutes, InstalledNext, NorthboundRaises, RunRaises
  <2>4. QED
    BY <1>2, <2>1, <2>2, <2>3
       DEF Tester, LearnTimesOut, LearnRaises, LearnReturns, AdvertiseReturns
<1>3. ASSUME UNCHANGED <<snapshot, pc>>,
             \A d \in Chassis : /\ Count(v, d) \in Nat /\ Count(v, d)' \in Nat
                                /\ Count(v, d)' >= Count(v, d)
      PROVE  InstalledEnough(v)'
  <2>1. v = First(pc.left) /\ v \in DOMAIN snapshot
    BY <1>3, FirstLeft DEF IInv, SnapshotAgrees
  <2>2. PICK d \in snapshot[v].hosts : Count(v, d) >= snapshot[v].base + NAdvertise
    BY <1>3, <2>1 DEF StillEnough, InstalledEnough
  <2>3. d \in Chassis /\ snapshot[v].base \in Nat
    BY <2>1, <2>2 DEF TypeOK
  <2>4. Count(v, d)' >= snapshot[v].base + NAdvertise
    <3>1. /\ Count(v, d) \in Nat /\ Count(v, d)' \in Nat
          /\ Count(v, d)' >= Count(v, d)
      BY <1>3, <2>1, <2>3
    <3>2. QED
      BY <2>2, <2>3, <3>1, CountsAssumption
  <2>5. QED
    BY <1>3, <2>2, <2>4 DEF InstalledEnough, Count, Elsewhere, First
<1>4. CASE Controllers
  <2>1. UNCHANGED <<snapshot, pc>>
    BY <1>4 DEF Controllers, AddRoute, Learn, DeviceAppears, Install,
       OtherRouteAppears
  <2>2. CASE \E u \in Vrfs : Learn(u) \/ \E c \in Chassis : DeviceAppears(u, c)
    <3>1. UNCHANGED <<injectedAt, injected, installed, others>>
      BY <2>2 DEF Learn, DeviceAppears
    <3>2. \A d \in Chassis : Count(v, d) \in Nat /\ Count(v, d)' = Count(v, d)
      BY <3>1, CountType DEF Count, Elsewhere
    <3>3. QED
      BY <1>3, <2>1, <3>2
  <2>3. CASE \E u \in Vrfs : \/ AddRoute(u)
                            \/ \E c \in Chassis :
                                 Install(u, c) \/ OtherRouteAppears(u, c)
    BY <1>3, <2>1, <2>3, CountsGrow
  <2>4. QED
    BY <1>4, <2>2, <2>3 DEF Controllers
<1>5. CASE UNCHANGED vars
  <2>1. UNCHANGED <<injectedAt, injected, installed, others, snapshot, pc>>
    BY <1>5 DEF vars, cloud
  <2>2. \A d \in Chassis : Count(v, d) \in Nat /\ Count(v, d)' = Count(v, d)
    BY <2>1, CountType DEF Count, Elsewhere
  <2>3. QED
    BY <1>3, <2>1, <2>2
<1>6. QED
  BY <1>1, <1>2, <1>4, <1>5 DEF Next

(* A count that is no other route's doing is that of the static routes.    *)
LEMMA EnoughIsInstalled ==
  TypeOK /\ IInv /\ StillEnough => UndisturbedWaitIsRight
<1> DEFINE v == First(pc.left)
<1> SUFFICES ASSUME TypeOK, IInv, StillEnough, pc.at = "installed", Undisturbed(v)
             PROVE  \E c \in Chassis : installed[v][c] = NAdvertise
  BY DEF UndisturbedWaitIsRight
<1>1. v \in Vrfs /\ v \in DOMAIN snapshot
  BY FirstLeft DEF IInv, SnapshotAgrees
<1>2. PICK d \in snapshot[v].hosts : Count(v, d) >= snapshot[v].base + NAdvertise
  BY <1>1 DEF StillEnough, InstalledEnough
<1> HIDE DEF v
<1>3. d = First(snapshot[v].hosts)
  BY <1>2 DEF Undisturbed
<1>4. /\ snapshot[v].base >= snapshot[v].seen /\ snapshot[v].base \in Nat
      /\ Elsewhere(v, d) = snapshot[v].seen /\ d \in Chassis
  BY <1>1, <1>2, <1>3 DEF Undisturbed, TypeOK
<1>5. /\ installed[v][d] \in 0..NAdvertise /\ Elsewhere(v, d) \in Nat
      /\ Count(v, d) = Elsewhere(v, d) + installed[v][d]
  BY <1>1, <1>4, CountType
<1>6. installed[v][d] = NAdvertise
  BY <1>2, <1>4, <1>5, CountsAssumption
<1>7. QED
  BY <1>4, <1>6

-----------------------------------------------------------------------------
(***************************************************************************)
(* The theorems.                                                           *)
(***************************************************************************)

(***************************************************************************)
(* However the waits end and whatever fails, the batches of BaseBgp.run    *)
(* create every project once, for any batch_size, and none refers to a     *)
(* project that does not exist.                                            *)
(***************************************************************************)
THEOREM EveryProjectIsInABatch == Spec => []BatchesCoverProjects
<1>1. TypeOK /\ IInv => BatchesCoverProjects
  <2> SUFFICES ASSUME TypeOK, IInv
               PROVE  BatchesCoverProjects
    OBVIOUS
  <2>1. pc.at = "done" => projects = NProjects
    BY Where
  <2>2. ASSUME pc.at \in Created \cup Advertising
        PROVE  Batch(pc.batch) \subseteq 1..projects
    <3>1. /\ pc.batch \in 0..(NBatches - 1)
          /\ projects = EndIdx(pc.batch) \/ projects = NProjects
      BY <2>2, Where
    <3>2. QED
      BY <3>1, BatchType DEF Vrfs
  <2>3. QED
    BY <2>1, <2>2 DEF BatchesCoverProjects, Locations, Created, Advertising
<1>2. QED
  BY <1>1, Invariance, PTL

(***************************************************************************)
(* On however many chassis a VRF has its device, and whatever could not be *)
(* injected or is injected late, a first wait that does not time out has   *)
(* seen all the routes of its batch.                                       *)
(***************************************************************************)
THEOREM FirstWaitIsRight == Spec => []FirstWaitCoversBatch
<1>1. IInv => FirstWaitCoversBatch
  BY DEF IInv
<1>2. QED
  BY <1>1, Invariance, PTL

(***************************************************************************)
(* A wait for static routes that succeeds has seen all of them installed,  *)
(* unless the VRF had its device on several chassis, its baseline was read *)
(* short, or other routes have appeared in the VRF since.                  *)
(***************************************************************************)
THEOREM WaitsAreRightIfUndisturbed == Spec => []UndisturbedWaitIsRight
<1>1. Init => StillEnough
  BY AtFields DEF Init, StillEnough
<1>2. QED
  BY <1>1, StepStillEnough, EnoughIsInstalled, Invariance, PTL DEF Spec

=============================================================================
