-------------------------- MODULE RunAndBarrierProofs -------------------------
(***************************************************************************)
(* Proofs about NbSync, for any set of chassis, any LLONG_MAX and any      *)
(* number of configuration transactions; about RunLock, for any set of     *)
(* runs; and about Deployment, for any numbers of hosts, servers, relays,  *)
(* workers, zones and runs.                                                *)
(***************************************************************************)
EXTENDS NbSync, RunLock, Deployment, TLAPS

-----------------------------------------------------------------------------
(***************************************************************************)
(* The barrier.                                                            *)
(***************************************************************************)

(***************************************************************************)
(* Type correctness: in particular nb_cfg never leaves 0..LLONG_MAX, which *)
(* is what pre_commit's reset is for.                                      *)
(***************************************************************************)
THEOREM TypeCorrect == Spec => []TypeOK
<1> USE CfgMaxAssumption, MaxVerAssumption, NoSnapAssumption
    DEF TypeOK, Cfg, Snapshot, Txn, WaitTypes
<1>1. Init => TypeOK
  <2> SUFFICES ASSUME Init
               PROVE  TypeOK
    OBVIOUS
  <2>1. nb \in Snapshot /\ 0 \in Cfg
    BY DEF Init
  <2>2. txn \in Txn
    BY <2>1 DEF Init, Ended
  <2>3. QED
    BY <2>1, <2>2 DEF Init
<1>2. TypeOK /\ [Next]_vars => TypeOK'
  <2> SUFFICES ASSUME TypeOK, [Next]_vars
               PROVE  TypeOK'
    OBVIOUS
  <2>1. CASE Configure
    BY <2>1 DEF Configure, northdVars, chassisVars
  <2>2. ASSUME NEW w \in WaitTypes, SyncCommit(w)
        PROVE  TypeOK'
    <3>1. PreCommit(nb.cfg) \in Cfg
      BY DEF PreCommit
    <3>. QED
      BY <2>2, <3>1 DEF SyncCommit, northdVars, chassisVars
  <2>3. CASE SyncRaises
    <3>1. PreCommit(nb.cfg) \in Cfg
      BY DEF PreCommit
    <3>. QED
      BY <2>3, <3>1 DEF SyncRaises, Ended, northdVars, chassisVars
  <2>4. CASE SyncCompletes
    <3>1. txn' \in Txn
      <4>1. /\ txn' = [txn EXCEPT !.state = "synced", !.next = 0]
            /\ 0 \in Cfg
        BY <2>4 DEF SyncCompletes
      <4>2. /\ txn'.state = "synced" /\ txn'.next = 0
            /\ txn'.wait = txn.wait /\ txn'.target = txn.target
            /\ txn'.cover = txn.cover
        BY <4>1
      <4>3. QED
        BY <4>1, <4>2
    <3>. QED
      BY <2>4, <3>1 DEF SyncCompletes, northdVars, chassisVars
  <2>5. CASE SyncTimesOut
    BY <2>5 DEF SyncTimesOut, Ended, northdVars, chassisVars
  <2>6. CASE NorthdRead
    BY <2>6 DEF NorthdRead, chassisVars
  <2>7. CASE NorthdWrite
    BY <2>7 DEF NorthdWrite, chassisVars
  <2>8. CASE NorthdReportSb
    BY <2>8 DEF NorthdReportSb, chassisVars
  <2>9. CASE NorthdReportHv
    BY <2>9 DEF NorthdReportHv, chassisVars
  <2>10. ASSUME NEW c \in Chassis, Register(c)
         PROVE  TypeOK'
    BY <2>10 DEF Register, northdVars
  <2>11. ASSUME NEW c \in Chassis, ChassisInstall(c)
         PROVE  TypeOK'
    BY <2>11 DEF ChassisInstall, northdVars
  <2>12. ASSUME NEW c \in Chassis, ChassisPublish(c)
         PROVE  TypeOK'
    BY <2>12 DEF ChassisPublish, northdVars
  <2>13. CASE UNCHANGED vars
    BY <2>13 DEF vars, northdVars, chassisVars
  <2>14. QED
    BY <2>1, <2>2, <2>3, <2>4, <2>5, <2>6, <2>7, <2>8, <2>9, <2>10, <2>11,
       <2>12, <2>13 DEF Next, Tester, Northd, Controller
<1>3. QED
  BY <1>1, <1>2, PTL DEF Spec

(***************************************************************************)
(* IInv is inductive: every step of the tester, of northd and of a         *)
(* controller keeps the order in which the snapshots trail one another,    *)
(* and with it the content each echoed nb_cfg stands for.                  *)
(***************************************************************************)
LEMMA InitEstablishesIInv == Init => IInv
  BY CfgMaxAssumption, MaxVerAssumption, NoSnapAssumption
  DEF Init, Ended, IInv, VersTrail, CfgsTrail, AnswerCarriesTarget, Cfg,
      HvSyncCoversChassis, SyncCoversSouthbound

LEMMA StepPreservesIInv == TypeOK /\ IInv /\ [Next]_vars => IInv'
<1> USE CfgMaxAssumption, MaxVerAssumption, NoSnapAssumption
    DEF TypeOK, Cfg, Snapshot, Txn, WaitTypes, IInv, VersTrail, CfgsTrail,
        AnswerCarriesTarget, HvSyncCoversChassis, SyncCoversSouthbound
<1> SUFFICES ASSUME TypeOK, IInv, [Next]_vars
             PROVE  IInv'
  OBVIOUS
<1>1. CASE Configure
  BY <1>1 DEF Configure, Running, northdVars, chassisVars
<1>2. ASSUME NEW w \in WaitTypes, SyncCommit(w)
      PROVE  IInv'
  <2>1. /\ nb'.ver = nb.ver /\ nb'.cfg = PreCommit(nb.cfg)
        /\ txn' = [state |-> "waiting", wait |-> w, next |-> nb'.cfg,
                   target |-> nb.ver, cover |-> registered]
        /\ wrapped' = (wrapped \/ nb.cfg = CfgMax)
        /\ UNCHANGED <<sb, sbCfg, hvCfg, snap, registered, flows, published>>
    BY <1>2 DEF SyncCommit, northdVars, chassisVars
  <2>2. VersTrail' /\ txn'.cover \subseteq registered'
    BY <2>1
  <2>3. ASSUME ~wrapped'
        PROVE  CfgsTrail' /\ AnswerCarriesTarget'
    <3>1. ~wrapped /\ nb'.cfg = nb.cfg + 1
      BY <2>1, <2>3 DEF PreCommit
    <3>2. CfgsTrail'
      BY <2>1, <3>1
    <3>3. AnswerCarriesTarget'
      BY <2>1, <3>1
    <3>4. QED
      BY <3>2, <3>3
  <2>4. HvSyncCoversChassis' /\ SyncCoversSouthbound'
    BY <2>1
  <2>5. QED
    BY <2>2, <2>3, <2>4
<1>3. CASE SyncRaises
  <2>1. /\ nb'.ver = nb.ver
        /\ nb'.cfg = nb.cfg \/ (nb'.cfg = PreCommit(nb.cfg) /\ nb' # nb)
        /\ txn' = Ended("raised")
        /\ wrapped' = (wrapped \/ (nb' # nb /\ nb.cfg = CfgMax))
        /\ UNCHANGED <<sb, sbCfg, hvCfg, snap, registered, flows, published>>
    BY <1>3 DEF SyncRaises, PreCommit, northdVars, chassisVars
  <2>2. VersTrail' /\ txn'.cover \subseteq registered'
    BY <2>1 DEF Ended
  <2>3. ASSUME ~wrapped'
        PROVE  CfgsTrail' /\ AnswerCarriesTarget'
    <3>1. ~wrapped /\ (nb'.cfg = nb.cfg \/ nb'.cfg = nb.cfg + 1)
      BY <2>1, <2>3 DEF PreCommit
    <3>2. CfgsTrail'
      BY <2>1, <3>1
    <3>3. AnswerCarriesTarget'
      BY <2>1 DEF Ended
    <3>4. QED
      BY <3>2, <3>3
  <2>4. HvSyncCoversChassis' /\ SyncCoversSouthbound'
    BY <2>1 DEF Ended
  <2>5. QED
    BY <2>2, <2>3, <2>4
<1>4. CASE SyncCompletes
  BY <1>4 DEF SyncCompletes, NbHasCompleted, CurCfg, northdVars, chassisVars
<1>5. CASE SyncTimesOut
  BY <1>5 DEF SyncTimesOut, Ended, northdVars, chassisVars
<1>6. CASE NorthdRead
  BY <1>6 DEF NorthdRead, chassisVars
<1>7. CASE NorthdWrite
  BY <1>7 DEF NorthdWrite, chassisVars
<1>8. CASE NorthdReportSb
  BY <1>8 DEF NorthdReportSb, chassisVars
<1>9. CASE NorthdReportHv
  BY <1>9 DEF NorthdReportHv, chassisVars
<1>10. ASSUME NEW c \in Chassis, Register(c)
       PROVE  IInv'
  BY <1>10 DEF Register, northdVars
<1>11. ASSUME NEW c \in Chassis, ChassisInstall(c)
       PROVE  IInv'
  BY <1>11 DEF ChassisInstall, northdVars
<1>12. ASSUME NEW c \in Chassis, ChassisPublish(c)
       PROVE  IInv'
  BY <1>12 DEF ChassisPublish, northdVars
<1>13. CASE UNCHANGED vars
  BY <1>13 DEF vars, northdVars, chassisVars
<1>14. QED
  BY <1>1, <1>2, <1>3, <1>4, <1>5, <1>6, <1>7, <1>8, <1>9, <1>10, <1>11,
     <1>12, <1>13 DEF Next, Tester, Northd, Controller

LEMMA InductiveInvariant == Spec => []IInv
<1>1. Spec => []TypeOK
  BY TypeCorrect
<1>2. QED
  BY <1>1, InitEstablishesIInv, StepPreservesIInv, PTL DEF Spec

(***************************************************************************)
(* A sync(wait="hv") that returns without a timeout is a barrier: every    *)
(* chassis registered when it was called implements everything the tester  *)
(* had committed by then (while nb_cfg has not wrapped).                   *)
(***************************************************************************)
THEOREM HvSyncIsBarrier == Spec => []HvSyncCoversChassis
<1>1. IInv => HvSyncCoversChassis
  BY DEF IInv
<1>2. QED
  BY <1>1, InductiveInvariant, PTL

(***************************************************************************)
(* Either kind of sync that returns without a timeout is a barrier for the *)
(* Southbound database.                                                    *)
(***************************************************************************)
THEOREM SyncIsSouthboundBarrier == Spec => []SyncCoversSouthbound
<1>1. IInv => SyncCoversSouthbound
  BY DEF IInv
<1>2. QED
  BY <1>1, InductiveInvariant, PTL

(***************************************************************************)
(* No sync is complete the moment its increment is committed.              *)
(***************************************************************************)
THEOREM SyncNeverStartsComplete == Spec => SyncStartsIncomplete
<1> DEFINE Fresh ==
      (txn.state # "waiting" /\ txn'.state = "waiting" /\ ~wrapped')
         => ~NbHasCompleted'
<1>1. TypeOK /\ IInv /\ [Next]_vars => [Fresh]_vars
  <2> SUFFICES ASSUME TypeOK, IInv, Next,
                      txn.state # "waiting", txn'.state = "waiting", ~wrapped'
               PROVE  ~NbHasCompleted'
    BY DEF vars
  <2>1. PICK w \in WaitTypes : SyncCommit(w)
    <3>1. ~ SyncRaises /\ ~ SyncTimesOut
      BY DEF SyncRaises, SyncTimesOut, Ended
    <3>2. txn' # txn
      OBVIOUS
    <3>3. ~ SyncCompletes /\ ~ Configure
      BY <3>2 DEF SyncCompletes, Configure
    <3>4. ~ Northd
      BY <3>2 DEF Northd, NorthdRead, NorthdWrite, NorthdReportSb,
                  NorthdReportHv
    <3>5. ~ \E c \in Chassis : Register(c) \/ Controller(c)
      BY <3>2 DEF Register, Controller, ChassisInstall, ChassisPublish
    <3>. QED
      BY <3>1, <3>3, <3>4, <3>5 DEF Next, Tester
  <2>2. ~wrapped /\ nb.cfg # CfgMax
    BY <2>1 DEF SyncCommit
  <2>3. txn'.next = nb.cfg + 1 /\ sbCfg' = sbCfg /\ hvCfg' = hvCfg
    BY <2>1, <2>2 DEF SyncCommit, PreCommit, northdVars, TypeOK, Snapshot
  <2>4. sbCfg <= nb.cfg /\ hvCfg <= nb.cfg
    BY <2>2, CfgMaxAssumption DEF IInv, CfgsTrail, TypeOK, Snapshot, Cfg
  <2>5. nb.cfg \in Int /\ sbCfg \in Int /\ hvCfg \in Int
    BY CfgMaxAssumption DEF TypeOK, Snapshot, Cfg
  <2>6. QED
    BY <2>3, <2>4, <2>5 DEF NbHasCompleted, CurCfg
<1>2. QED
  BY <1>1, TypeCorrect, InductiveInvariant, PTL
     DEF Spec, SyncStartsIncomplete


-----------------------------------------------------------------------------
(***************************************************************************)
(* The lock.                                                               *)
(***************************************************************************)
LEMMA InitLockIInv == LockInit => LockIInv
<1> SUFFICES ASSUME LockInit
             PROVE  LockIInv
  OBVIOUS
<1>1. LockTypeOK
  BY DEF LockInit, LockTypeOK, Locations
<1>2. OneRunPerFile /\ ExitingIsUnlinked
  BY DEF LockInit, OneRunPerFile, ExitingIsUnlinked, Holding
<1>3. OneFileUntilAnExit /\ NoStaleFile
  BY DEF LockInit, OneFileUntilAnExit, NoStaleFile
<1>4. QED
  BY <1>1, <1>2, <1>3 DEF LockIInv

(***************************************************************************)
(* One step per action; OpenFile creates a file with a number no           *)
(* descriptor can be open on, and a refused run leaves to the run that     *)
(* refused it the removal of the file.                                     *)
(***************************************************************************)
LEMMA StepLockIInv == LockIInv /\ [LockNext]_lockVars => LockIInv'
<1> SUFFICES ASSUME LockIInv, [LockNext]_lockVars
             PROVE  LockIInv'
  OBVIOUS
<1> USE NoFileAssumption
    DEF LockIInv, LockTypeOK, OneRunPerFile, ExitingIsUnlinked,
        OneFileUntilAnExit, NoStaleFile, Locations, Holding, Goes
<1>1. ASSUME NEW r \in Runs, OpenFile(r)
      PROVE  LockIInv'
  <2>1. CASE path = NoFile
    <3>1. /\ path' = files + 1 /\ files' = files + 1
          /\ fd' = [fd EXCEPT ![r] = files + 1]
          /\ pc' = [pc EXCEPT ![r] = "opened"] /\ pc[r] = "start"
          /\ UNCHANGED <<finished, killed>>
      BY <1>1, <2>1 DEF OpenFile
    <3>2. LockTypeOK'
      BY <3>1
    <3>3. OneRunPerFile'
      BY <3>1
    <3>4. ExitingIsUnlinked'
      BY <3>1
    <3>5. ~finished => \A s \in Runs : fd[s] = NoFile
      BY <2>1
    <3>6. OneFileUntilAnExit'
      BY <3>1, <3>5
    <3>7. NoStaleFile'
      BY <3>1
    <3>8. QED
      BY <3>2, <3>3, <3>4, <3>6, <3>7
  <2>2. CASE path # NoFile
    <3>1. /\ fd' = [fd EXCEPT ![r] = path]
          /\ pc' = [pc EXCEPT ![r] = "opened"] /\ pc[r] = "start"
          /\ UNCHANGED <<path, files, finished, killed>>
      BY <1>1, <2>2 DEF OpenFile
    <3>2. LockTypeOK' /\ OneRunPerFile' /\ ExitingIsUnlinked'
      BY <2>2, <3>1
    <3>3. OneFileUntilAnExit' /\ NoStaleFile'
      BY <2>2, <3>1
    <3>4. QED
      BY <3>2, <3>3
  <2>3. QED
    BY <2>1, <2>2
<1>2. ASSUME NEW r \in Runs, Flock(r)
      PROVE  LockIInv'
  <2>1. /\ pc' = [pc EXCEPT ![r] = "locked"] /\ pc[r] = "opened"
        /\ \A s \in Runs : pc[s] \in Holding => fd[s] # fd[r]
        /\ UNCHANGED <<path, files, fd, finished, killed>>
    BY <1>2 DEF Flock, Holders
  <2>2. LockTypeOK' /\ OneRunPerFile' /\ ExitingIsUnlinked'
    BY <2>1
  <2>3. OneFileUntilAnExit' /\ NoStaleFile'
    BY <2>1
  <2>4. QED
    BY <2>2, <2>3
<1>3. ASSUME NEW r \in Runs, Refused(r)
      PROVE  LockIInv'
  <2>1. /\ pc' = [pc EXCEPT ![r] = "over"] /\ pc[r] = "opened"
        /\ fd' = [fd EXCEPT ![r] = NoFile]
        /\ UNCHANGED <<path, files, finished, killed>>
    BY <1>3 DEF Refused
  <2>2. PICK s \in Runs : pc[s] \in Holding /\ fd[s] = fd[r]
    BY <1>3 DEF Refused, Holders
  <2>3. /\ LockTypeOK' /\ OneRunPerFile'
        /\ ExitingIsUnlinked' /\ OneFileUntilAnExit'
    BY <2>1
  <2>4. NoStaleFile'
    <3>1. CASE fd[r] = path
      <4>1. s # r /\ pc[s] \in {"locked", "running"}
        BY <2>1, <2>2, <3>1
      <4>2. QED
        BY <2>1, <2>2, <3>1, <4>1
    <3>2. CASE fd[r] # path
      BY <2>1, <3>2
    <3>3. QED
      BY <3>1, <3>2
  <2>5. QED
    BY <2>3, <2>4
<1>4. ASSUME NEW r \in Runs, SetTrap(r)
      PROVE  LockIInv'
  <2>1. /\ pc' = [pc EXCEPT ![r] = "running"] /\ pc[r] = "locked"
        /\ UNCHANGED <<path, files, fd, finished, killed>>
    BY <1>4 DEF SetTrap
  <2>2. LockTypeOK' /\ OneRunPerFile' /\ ExitingIsUnlinked'
    BY <2>1
  <2>3. OneFileUntilAnExit' /\ NoStaleFile'
    BY <2>1
  <2>4. QED
    BY <2>2, <2>3
<1>5. ASSUME NEW r \in Runs, ExitTrap(r)
      PROVE  LockIInv'
  <2>1. /\ pc' = [pc EXCEPT ![r] = "exiting"] /\ pc[r] = "running"
        /\ path' = NoFile /\ finished' = TRUE
        /\ UNCHANGED <<files, fd, killed>>
    BY <1>5 DEF ExitTrap
  <2>2. LockTypeOK' /\ OneRunPerFile' /\ ExitingIsUnlinked'
    BY <2>1
  <2>3. OneFileUntilAnExit' /\ NoStaleFile'
    BY <2>1
  <2>4. QED
    BY <2>2, <2>3
<1>6. ASSUME NEW r \in Runs, Exit(r)
      PROVE  LockIInv'
  <2>1. /\ pc' = [pc EXCEPT ![r] = "over"] /\ pc[r] = "exiting"
        /\ fd' = [fd EXCEPT ![r] = NoFile]
        /\ UNCHANGED <<path, files, finished, killed>>
    BY <1>6 DEF Exit
  <2>2. LockTypeOK' /\ OneRunPerFile' /\ ExitingIsUnlinked'
    BY <2>1
  <2>3. OneFileUntilAnExit' /\ NoStaleFile'
    BY <2>1
  <2>4. QED
    BY <2>2, <2>3
<1>7. ASSUME NEW r \in Runs, Killed(r)
      PROVE  LockIInv'
  <2>1. /\ pc' = [pc EXCEPT ![r] = "over"]
        /\ fd' = [fd EXCEPT ![r] = NoFile] /\ killed' = TRUE
        /\ UNCHANGED <<path, files, finished>>
    BY <1>7 DEF Killed
  <2>2. LockTypeOK' /\ OneRunPerFile' /\ ExitingIsUnlinked'
    BY <2>1
  <2>3. OneFileUntilAnExit' /\ NoStaleFile'
    BY <2>1
  <2>4. QED
    BY <2>2, <2>3
<1>8. CASE UNCHANGED lockVars
  BY <1>8 DEF lockVars
<1>9. QED
  BY <1>1, <1>2, <1>3, <1>4, <1>5, <1>6, <1>7, <1>8 DEF LockNext

LEMMA LockHolds == LockSpec => []LockIInv
  BY InitLockIInv, StepLockIInv, PTL DEF LockSpec

(***************************************************************************)
(* Type correctness: a run has its descriptor open exactly while it is at  *)
(* work, on a file that has been created.                                  *)
(***************************************************************************)
THEOREM LockTypeCorrect == LockSpec => []LockTypeOK
<1>1. LockIInv => LockTypeOK
  BY DEF LockIInv
<1>2. QED
  BY <1>1, LockHolds, PTL

(***************************************************************************)
(* Mutual exclusion of any number of runs until the first of them ends:    *)
(* until then there is one file, and flock excludes the runs that share it.*)
(***************************************************************************)
THEOREM RunsExcludeUntilAnExit == LockSpec => []OneRunUntilAnExit
<1>1. LockIInv => OneRunUntilAnExit
  <2> SUFFICES ASSUME LockIInv, ~finished, NEW r \in Active, NEW s \in Active
               PROVE  r = s
    BY DEF OneRunUntilAnExit, OneRunAtATime
  <2>1. /\ r \in Runs /\ s \in Runs
        /\ pc[r] \in Holding /\ pc[s] \in Holding
    BY DEF Active, Holding
  <2>2. fd[r] = path /\ fd[s] = path
    BY <2>1 DEF LockIInv, LockTypeOK, OneFileUntilAnExit, Holding
  <2>3. QED
    BY <2>1, <2>2 DEF LockIInv, OneRunPerFile
<1>2. QED
  BY <1>1, LockHolds, PTL

(***************************************************************************)
(* The lock file does not outlive the runs, however they interleave, if    *)
(* none of them is killed.                                                 *)
(***************************************************************************)
THEOREM LockFileIsRemoved == LockSpec => []NoStaleFile
<1>1. LockIInv => NoStaleFile
  BY DEF LockIInv
<1>2. QED
  BY <1>1, LockHolds, PTL

-----------------------------------------------------------------------------
(***************************************************************************)
(* The deployment.  First, numbers: each zone has a block of k addresses;  *)
(* the block and the place in it are those of the number.                  *)
(***************************************************************************)
LEMMA BlocksAreApart ==
  ASSUME NEW k \in Nat, NEW a \in Nat, NEW b \in Nat, a < b
  PROVE  a * k \in Nat /\ b * k \in Nat /\ a * k + k <= b * k
<1> DEFINE d == b - a - 1
<1>1. d \in Nat /\ b = a + 1 + d
  OBVIOUS
<1>2. d * k \in Nat /\ a * k \in Nat
  BY <1>1
<1>3. b * k = a * k + k + d * k
  BY <1>1
<1>4. QED
  BY <1>1, <1>2, <1>3

LEMMA PlacesAreUnique ==
  ASSUME NEW k \in Nat, NEW a \in Nat, NEW b \in Nat,
         NEW s \in 0..(k - 1), NEW t \in 0..(k - 1),
         a * k + s = b * k + t
  PROVE  a = b /\ s = t
<1> DEFINE p == a * k
           q == b * k
<1>1. p \in Nat /\ q \in Nat /\ p + s = q + t
  OBVIOUS
<1>2. (a < b => p + k <= q) /\ (b < a => q + k <= p)
  BY BlocksAreApart
<1>3. a = b => p = q
  OBVIOUS
<1> HIDE DEF p, q
<1>4. ~(a < b) /\ ~(b < a)
  BY <1>1, <1>2
<1>5. QED
  BY <1>1, <1>3, <1>4

LEMMA Remainder ==
  ASSUME NEW k \in Nat \ {0}, NEW i \in Nat
  PROVE  /\ i \div k \in Nat /\ i % k \in 0..(k - 1)
         /\ i = (i \div k) * k + (i % k) /\ i % k <= i
<1>1. /\ i \div k \in Nat /\ i % k \in 0..(k - 1)
      /\ i = k * (i \div k) + (i % k)
  OBVIOUS
<1>2. k * (i \div k) = (i \div k) * k /\ k * (i \div k) \in Nat
  BY <1>1
<1>3. QED
  BY <1>1, <1>2

(* A host's loop runs over the numbers that its index is the remainder of. *)
LEMMA LoopIs ==
  ASSUME NEW k \in Nat \ {0}, NEW n \in Nat, NEW h \in 0..(k - 1),
         NEW i \in 0..(n - 1)
  PROVE  i \in Loop(h, n, k) <=> h = i % k
<1> DEFINE b == i \div k
           r == i % k
<1>1. i \in Nat /\ k \in Nat /\ h \in Nat
  OBVIOUS
<1>2. b \in Nat /\ r \in 0..(k - 1) /\ i = b * k + r /\ r <= i /\ b * k \in Nat
  <2>1. b \in Nat /\ r \in 0..(k - 1) /\ i = b * k + r /\ r <= i
    BY <1>1, Remainder
  <2>2. QED
    BY <1>1, <2>1
<1> HIDE DEF b, r
<1>3. ASSUME i - h \in Nat, (i - h) % k = 0
      PROVE  h = r
  <2> DEFINE a == (i - h) \div k
             z == (i - h) % k
  <2>1. a \in Nat /\ i - h = a * k + z
    BY <1>3, Remainder
  <2>2. z = 0
    BY <1>3
  <2>3. a * k \in Nat
    BY <1>1, <2>1
  <2> HIDE DEF a, z
  <2>4. a * k + h = b * k + r
    BY <1>1, <1>2, <2>1, <2>2, <2>3
  <2>5. QED
    BY <1>1, <1>2, <2>1, <2>4, PlacesAreUnique
<1>4. ASSUME h = r
      PROVE  i - h \in Nat /\ (i - h) % k = 0
  <2> DEFINE j == i - h
             a == j \div k
             z == j % k
  <2>1. j \in Nat /\ j = b * k
    BY <1>1, <1>2, <1>4
  <2>2. a \in Nat /\ z \in 0..(k - 1) /\ j = a * k + z
    BY <2>1, Remainder
  <2> HIDE DEF a, z
  <2>3. a * k + z = b * k + 0
    BY <1>2, <2>1, <2>2
  <2>4. 0 \in 0..(k - 1)
    BY <1>1
  <2>5. z = 0
    BY <1>1, <1>2, <2>2, <2>3, <2>4, PlacesAreUnique
  <2>6. QED
    BY <2>1, <2>5 DEF z
<1>5. i \in Loop(h, n, k) <=> i - h \in Nat /\ (i - h) % k = 0
  BY <1>1 DEF Loop
<1>6. QED
  BY <1>3, <1>4, <1>5 DEF r

-----------------------------------------------------------------------------
(***************************************************************************)
(* What the playbook starts when nothing fails: the items of the loops.    *)
(***************************************************************************)
Zones(n) == UNION {ZoneContainers(az, CentralHost(az)) : az \in 0..(n - 1)}
Deployed(n) ==
  Zones(n) \cup {WorkerContainer(n, id, WorkerHost(id)) : id \in 0..(NWorkers - 1)}

LEMMA HostNumbers ==
  ASSUME NEW i \in Nat
  PROVE  CentralHost(i) \in CentralHosts /\ WorkerHost(i) \in WorkerHosts
  BY DeploymentAssumption, Remainder
     DEF CentralHost, WorkerHost, CentralHosts, WorkerHosts

LEMMA CentralItemsAre ==
  ASSUME NEW n \in Nat
  PROVE  CentralItems(n) = {<<CentralHost(az), az>> : az \in 0..(n - 1)}
<1>1. ASSUME NEW item \in CentralItems(n)
      PROVE  item \in {<<CentralHost(az), az>> : az \in 0..(n - 1)}
  <2>1. PICK h \in 0..(NCentralHosts - 1), i \in 0..(n - 1) :
           item = <<<<"central", h>>, i>> /\ i \in Loop(h, n, NCentralHosts)
    BY <1>1 DEF CentralItems, CentralHosts
  <2>2. h = i % NCentralHosts
    BY <2>1, LoopIs, DeploymentAssumption
  <2>3. QED
    BY <2>1, <2>2 DEF CentralHost
<1>2. ASSUME NEW az \in 0..(n - 1)
      PROVE  <<CentralHost(az), az>> \in CentralItems(n)
  <2>1. /\ az % NCentralHosts \in 0..(NCentralHosts - 1)
        /\ az \in Loop(az % NCentralHosts, n, NCentralHosts)
    <3> DEFINE h == az % NCentralHosts
    <3>1. az \in Nat /\ NCentralHosts \in Nat \ {0}
      BY DeploymentAssumption
    <3>2. h \in 0..(NCentralHosts - 1)
      BY <3>1, Remainder
    <3>3. az \in Loop(h, n, NCentralHosts)
      BY <3>1, <3>2, LoopIs
    <3>4. QED
      BY <3>2, <3>3
  <2>2. CentralHost(az) \in CentralHosts /\ CentralHost(az)[2] = az % NCentralHosts
    BY HostNumbers DEF CentralHost
  <2>3. QED
    BY <2>1, <2>2 DEF CentralItems
<1>3. QED
  BY <1>1, <1>2

LEMMA WorkerItemsAre ==
  WorkerItems = {<<WorkerHost(id), id>> : id \in 0..(NWorkers - 1)}
<1>0. NWorkers \in Nat
  BY PlanAssumption
<1>1. ASSUME NEW item \in WorkerItems
      PROVE  item \in {<<WorkerHost(id), id>> : id \in 0..(NWorkers - 1)}
  <2>1. PICK h \in 0..(NWorkerHosts - 1), i \in 0..(NWorkers - 1) :
           item = <<<<"worker", h>>, i>> /\ i \in Loop(h, NWorkers, NWorkerHosts)
    BY <1>1 DEF WorkerItems, WorkerHosts
  <2>2. h = i % NWorkerHosts
    BY <1>0, <2>1, LoopIs, DeploymentAssumption
  <2>3. QED
    BY <2>1, <2>2 DEF WorkerHost
<1>2. ASSUME NEW id \in 0..(NWorkers - 1)
      PROVE  <<WorkerHost(id), id>> \in WorkerItems
  <2>1. /\ id % NWorkerHosts \in 0..(NWorkerHosts - 1)
        /\ id \in Loop(id % NWorkerHosts, NWorkers, NWorkerHosts)
    <3> DEFINE h == id % NWorkerHosts
    <3>1. id \in Nat /\ NWorkerHosts \in Nat \ {0}
      BY <1>0, DeploymentAssumption
    <3>2. h \in 0..(NWorkerHosts - 1)
      BY <3>1, Remainder
    <3>3. id \in Loop(h, NWorkers, NWorkerHosts)
      BY <1>0, <3>1, <3>2, LoopIs
    <3>4. QED
      BY <3>2, <3>3
  <2>2. WorkerHost(id) \in WorkerHosts /\ WorkerHost(id)[2] = id % NWorkerHosts
    BY HostNumbers DEF WorkerHost
  <2>3. QED
    BY <2>1, <2>2 DEF WorkerItems
<1>3. QED
  BY <1>1, <1>2

(* The host and the address of a container that has been deployed.         *)
Slot(c) == IF c.name[1] = "ovn-central" THEN c.name[3] ELSE NCentral + c.name[3]

InZone(n, c) ==
  /\ c.name[2] \in 0..(n - 1) /\ Slot(c) \in 0..(NIps - 1) /\ c.name[3] \in Nat
  /\ c.name[1] \in {"ovn-central", "ovn-relay"}
  /\ c.name[1] = "ovn-central" => c.name[3] < NCentral
  /\ c = Node(<<c.name[1], c.name[2], c.name[3]>>, CentralHost(c.name[2]),
              2 + (c.name[2] * NIps + Slot(c)))

IsWorker(n, c) ==
  /\ c.name[3] \in 0..(NWorkers - 1)
  /\ c = WorkerContainer(n, c.name[3], WorkerHost(c.name[3]))

LEMMA NodeFields ==
  ASSUME NEW name, NEW host, NEW ip
  PROVE  /\ Node(name, host, ip).name = name /\ Node(name, host, ip).host = host
         /\ Node(name, host, ip).ip = ip
  BY DEF Node

LEMMA DeployedKinds ==
  ASSUME NEW n \in Nat, NEW c \in Deployed(n)
  PROVE  InZone(n, c) \/ IsWorker(n, c)
<1>0. /\ NIps \in Nat /\ NCentral \in Nat /\ NRelays \in Nat /\ NWorkers \in Nat
      /\ NIps = NCentral + NRelays
  BY PlanAssumption DEF NIps
<1>1. ASSUME NEW az \in 0..(n - 1), NEW i \in 0..(NCentral - 1),
             c = Node(<<"ovn-central", az, i>>, CentralHost(az), 2 + az * NIps + i)
      PROVE  InZone(n, c)
  <2>1. c.name = <<"ovn-central", az, i>>
    BY <1>1, NodeFields
  <2>2. Slot(c) = i /\ i \in 0..(NIps - 1) /\ i \in Nat /\ i < NCentral
    BY <1>0, <2>1 DEF Slot
  <2>3. 2 + az * NIps + i = 2 + (az * NIps + i)
    BY <1>0
  <2>4. QED
    BY <1>1, <2>1, <2>2, <2>3 DEF InZone
<1>2. ASSUME NEW az \in 0..(n - 1), NEW i \in 0..(NRelays - 1),
             c = Node(<<"ovn-relay", az, i>>, CentralHost(az),
                      2 + az * NIps + NCentral + i)
      PROVE  InZone(n, c)
  <2>1. c.name = <<"ovn-relay", az, i>>
    BY <1>2, NodeFields
  <2>2. Slot(c) = NCentral + i /\ NCentral + i \in 0..(NIps - 1) /\ i \in Nat
    BY <1>0, <2>1 DEF Slot
  <2>3. 2 + az * NIps + NCentral + i = 2 + (az * NIps + (NCentral + i))
    BY <1>0
  <2>4. QED
    BY <1>2, <2>1, <2>2, <2>3 DEF InZone
<1>3. ASSUME NEW id \in 0..(NWorkers - 1), c = WorkerContainer(n, id, WorkerHost(id))
      PROVE  IsWorker(n, c)
  <2>1. c.name = <<Prefix, 0, id>>
    BY <1>3, NodeFields DEF WorkerContainer
  <2>2. QED
    BY <1>3, <2>1 DEF IsWorker
<1>4. QED
  BY <1>1, <1>2, <1>3 DEF Deployed, Zones, ZoneContainers

LEMMA ServerAddress ==
  ASSUME NEW n \in Nat, NEW c, InZone(n, c)
  PROVE  /\ c.name[2] \in Nat /\ Slot(c) \in 0..(NIps - 1) /\ NIps \in Nat
         /\ c.name[2] * NIps \in Nat
         /\ c.ip = 2 + (c.name[2] * NIps + Slot(c)) /\ c.ip < 2 + n * NIps
<1>1. /\ NIps \in Nat /\ c.name[2] \in Nat /\ c.name[2] < n
      /\ Slot(c) \in 0..(NIps - 1)
  BY PlanAssumption DEF NIps, InZone
<1>2. c.ip = 2 + (c.name[2] * NIps + Slot(c))
  BY NodeFields DEF InZone
<1>3. /\ c.name[2] * NIps \in Nat /\ n * NIps \in Nat
      /\ c.name[2] * NIps + NIps <= n * NIps
  BY <1>1, BlocksAreApart
<1>4. QED
  BY <1>1, <1>2, <1>3

LEMMA WorkerAddress ==
  ASSUME NEW n \in Nat, NEW c, IsWorker(n, c)
  PROVE  /\ c.name[3] \in Nat /\ n * NIps \in Nat
         /\ c.ip = 2 + n * NIps + c.name[3] /\ c.ip >= 2 + n * NIps
<1>1. NIps \in Nat /\ c.name[3] \in Nat
  BY PlanAssumption DEF NIps, IsWorker
<1>2. c.ip = 2 + n * NIps + c.name[3]
  BY NodeFields DEF IsWorker, WorkerContainer
<1>3. n * NIps \in Nat
  BY <1>1
<1>4. QED
  BY <1>1, <1>2, <1>3

(* No two of them have one address.                                        *)
LEMMA DeployedAddresses ==
  ASSUME NEW n \in Nat, NEW c \in Deployed(n), NEW d \in Deployed(n), c.ip = d.ip
  PROVE  c = d
<1>1. CASE IsWorker(n, c) /\ IsWorker(n, d)
  <2>1. c.name[3] = d.name[3]
    BY <1>1, WorkerAddress
  <2>2. QED
    BY <1>1, <2>1 DEF IsWorker
<1>2. CASE InZone(n, c) /\ InZone(n, d)
  <2> DEFINE a == c.name[2]
             b == d.name[2]
  <2>1. /\ a \in Nat /\ b \in Nat /\ NIps \in Nat
        /\ Slot(c) \in 0..(NIps - 1) /\ Slot(d) \in 0..(NIps - 1)
        /\ a * NIps + Slot(c) = b * NIps + Slot(d)
    <3>1. /\ a \in Nat /\ Slot(c) \in 0..(NIps - 1) /\ NIps \in Nat
          /\ a * NIps \in Nat /\ c.ip = 2 + (a * NIps + Slot(c))
      BY <1>2, ServerAddress
    <3>2. /\ b \in Nat /\ Slot(d) \in 0..(NIps - 1)
          /\ b * NIps \in Nat /\ d.ip = 2 + (b * NIps + Slot(d))
      BY <1>2, ServerAddress
    <3> DEFINE p == a * NIps
               q == b * NIps
    <3>3. p \in Nat /\ q \in Nat /\ 2 + (p + Slot(c)) = 2 + (q + Slot(d))
      BY <3>1, <3>2, Zenon
    <3> DEFINE s == Slot(c)
               t == Slot(d)
    <3> HIDE DEF p, q, s, t
    <3>4. p + s = q + t
      <4>1. s \in 0..(NIps - 1) /\ t \in 0..(NIps - 1) /\ NIps \in Nat
        BY <3>1, <3>2 DEF s, t
      <4>2. s \in Nat /\ t \in Nat
        BY <4>1
      <4>3. 2 + (p + s) = 2 + (q + t)
        BY <3>3 DEF s, t
      <4>4. QED
        BY <3>3, <4>2, <4>3
    <3>5. QED
      BY <3>1, <3>2, <3>4 DEF p, q, s, t
  <2>2. a = b /\ Slot(c) = Slot(d)
    <3> DEFINE p == Slot(c)
               q == Slot(d)
    <3> HIDE DEF a, b, p, q
    <3>1. a * NIps + p = b * NIps + q /\ p \in 0..(NIps - 1) /\ q \in 0..(NIps - 1)
      BY <2>1 DEF p, q
    <3>2. a = b /\ p = q
      BY <2>1, <3>1, PlacesAreUnique
    <3>3. QED
      BY <3>2 DEF p, q
  <2>3. c.name[1] = d.name[1] /\ c.name[3] = d.name[3]
    BY <1>2, <2>2, PlanAssumption DEF InZone, Slot
  <2>4. QED
    BY <1>2, <2>2, <2>3 DEF InZone
<1>3. CASE InZone(n, c) /\ IsWorker(n, d)
  BY <1>3, ServerAddress, WorkerAddress
<1>4. CASE IsWorker(n, c) /\ InZone(n, d)
  BY <1>4, ServerAddress, WorkerAddress
<1>5. QED
  BY <1>1, <1>2, <1>3, <1>4, DeployedKinds

(***************************************************************************)
(* All that the tester expects has been deployed, if the prefix is the one *)
(* it has in its own text; workers of several clouds at higher addresses.  *)
(***************************************************************************)
LEMMA SharesAreWorkers ==
  ASSUME NEW n \in Nat \ {0}, NEW az \in 0..(n - 1), NEW id \in WorkersOf(n, az)
  PROVE  id \in 0..(NWorkers - 1)
<1> DEFINE k == AzWorkers(n)
           r == NWorkers % n
<1>1. /\ k \in Nat /\ r \in 0..(n - 1) /\ NWorkers = k * n + r
      /\ NWorkers \in Nat
  BY PlanAssumption, Remainder DEF AzWorkers
<1>2. k * n = n * k /\ k * n \in Nat
  BY <1>1
<1>3. id \in (az * k)..((az + 1) * k - 1)
  BY DEF WorkersOf
<1> HIDE DEF k, r
<1>4. n * k <= NWorkers /\ n * k \in Nat
  BY <1>1, <1>2
<1>5. az + 1 < n => (az + 1) * k + k <= n * k
  BY <1>1, BlocksAreApart
<1>6. (az + 1) * k \in Nat /\ az * k \in Nat
  BY <1>1
<1>7. az + 1 < n \/ az + 1 = n
  OBVIOUS
<1>8. (az + 1) * k <= n * k
  BY <1>1, <1>4, <1>5, <1>6, <1>7
<1>9. QED
  BY <1>1, <1>3, <1>4, <1>6, <1>8

LEMMA TesterAgrees ==
  ASSUME Prefix = "ovn-scale", NEW c \in Configs
  PROVE  /\ ServersOf(c[2]) \subseteq Deployed(c[2])
         /\ \A w \in WorkerNodes(c[1], c[2]) :
              [w EXCEPT !.ip = @ + TooLow(c[1], c[2])] \in Deployed(c[2])
<1> DEFINE n == c[2]
<1>1. n \in Nat \ {0} /\ c[1] \in {"ovn_kubernetes", "openstack"}
  BY DeploymentAssumption, PlanAssumption
<1>2. NIps = NCentral + NRelays /\ NIps \in Nat /\ NWorkers \in Nat
  BY PlanAssumption DEF NIps
<1>3. ASSUME NEW id \in 0..(NWorkers - 1)
      PROVE  Node(<<"ovn-scale", 0, id>>, WorkerHost(id), 2 + n * NIps + id)
               \in Deployed(n)
  BY DEF Deployed, WorkerContainer
<1>4. ServersOf(n) \subseteq Deployed(n)
  BY <1>2 DEF ServersOf, CentralNodes, RelayNodes, Deployed, Zones, ZoneContainers
<1>5. ASSUME c[1] = "openstack", NEW w \in WorkerNodes(c[1], n)
      PROVE  [w EXCEPT !.ip = @ + TooLow(c[1], n)] \in Deployed(n)
  <2>1. PICK id \in 0..(NWorkers - 1) :
          w = Node(<<"ovn-scale", 0, id>>, WorkerHost(id), 2 + NCentral + NRelays + id)
    BY <1>5 DEF WorkerNodes, OpenStackWorkers
  <2>2. 2 + NCentral + NRelays + id + TooLow(c[1], n) = 2 + n * NIps + id
    <3>1. (n - 1) * NIps = n * NIps - NIps /\ n * NIps \in Nat
      BY <1>1, <1>2
    <3>2. TooLow(c[1], n) = n * NIps - NIps
      BY <1>5, <3>1 DEF TooLow
    <3>3. QED
      BY <1>2, <3>1, <3>2, PlanAssumption
  <2>3. [w EXCEPT !.ip = @ + TooLow(c[1], n)]
          = Node(<<"ovn-scale", 0, id>>, WorkerHost(id), 2 + n * NIps + id)
    BY <2>1, <2>2 DEF Node
  <2>4. QED
    BY <1>3, <2>3
<1>6. ASSUME c[1] # "openstack", NEW w \in WorkerNodes(c[1], n)
      PROVE  [w EXCEPT !.ip = @ + TooLow(c[1], n)] \in Deployed(n)
  <2>1. PICK az \in 0..(n - 1) : w \in KubernetesWorkers(n, az)
    BY <1>6 DEF WorkerNodes
  <2>2. PICK id \in WorkersOf(n, az) :
          w = Node(<<"ovn-scale", 0, id>>, WorkerHost(id),
                   2 + n * (NCentral + NRelays) + id)
    BY <2>1 DEF KubernetesWorkers
  <2>3. id \in 0..(NWorkers - 1)
    BY <1>1, SharesAreWorkers
  <2>4. w = Node(<<"ovn-scale", 0, id>>, WorkerHost(id), 2 + n * NIps + id)
    BY <1>2, <2>2
  <2>5. 2 + n * NIps + id + 0 = 2 + n * NIps + id
    <3>1. n * NIps \in Nat
      BY <1>1, <1>2
    <3>2. QED
      BY <2>3, <3>1
  <2>6. [w EXCEPT !.ip = @ + TooLow(c[1], n)] = w
    BY <1>6, <2>4, <2>5 DEF TooLow, Node
  <2>7. QED
    BY <1>3, <2>3, <2>4, <2>6
<1>7. QED
  BY <1>4, <1>5, <1>6

(***************************************************************************)
(* The invariant: a play starts from no containers, if nothing has failed  *)
(* every item that its loops have left behind has its containers, and      *)
(* whatever fails, there are no others.                                    *)
(***************************************************************************)
LEMMA StartedIsDeployed ==
  ASSUME NEW n \in Nat
  PROVE  /\ \A item \in CentralItems(n) :
              ZoneContainers(item[2], item[1]) \subseteq Deployed(n)
         /\ \A item \in WorkerItems :
              WorkerContainer(n, item[2], item[1]) \in Deployed(n)
  BY CentralItemsAre, WorkerItemsAre DEF Deployed, Zones

LEMMA AllStarted ==
  ASSUME NEW n \in Nat, NEW S,
         \A item \in CentralItems(n) : ZoneContainers(item[2], item[1]) \subseteq S,
         \A item \in WorkerItems : WorkerContainer(n, item[2], item[1]) \in S
  PROVE  Deployed(n) \subseteq S
<1>1. ASSUME NEW az \in 0..(n - 1)
      PROVE  ZoneContainers(az, CentralHost(az)) \subseteq S
  <2> DEFINE item == <<CentralHost(az), az>>
  <2>1. item \in CentralItems(n) /\ item[1] = CentralHost(az) /\ item[2] = az
    BY CentralItemsAre
  <2> HIDE DEF item
  <2>2. ZoneContainers(item[2], item[1]) \subseteq S
    BY <2>1
  <2>3. QED
    BY <2>1, <2>2
<1>2. ASSUME NEW id \in 0..(NWorkers - 1)
      PROVE  WorkerContainer(n, id, WorkerHost(id)) \in S
  <2> DEFINE item == <<WorkerHost(id), id>>
  <2>1. item \in WorkerItems /\ item[1] = WorkerHost(id) /\ item[2] = id
    BY WorkerItemsAre
  <2> HIDE DEF item
  <2>2. WorkerContainer(n, item[2], item[1]) \in S
    BY <2>1
  <2>3. QED
    BY <2>1, <2>2
<1>3. QED
  BY <1>1, <1>2 DEF Deployed, Zones

LEMMA DeployedHosts ==
  ASSUME NEW n \in Nat, NEW c \in Deployed(n)
  PROVE  c.host \in Hosts
<1>1. CASE InZone(n, c)
  <2>1. c.name[2] \in Nat /\ c.host = CentralHost(c.name[2])
    BY <1>1, NodeFields DEF InZone
  <2>2. QED
    BY <2>1, HostNumbers DEF Hosts
<1>2. CASE IsWorker(n, c)
  <2>1. c.name[3] \in Nat /\ c.host = WorkerHost(c.name[3])
    BY <1>2, NodeFields DEF IsWorker, WorkerContainer
  <2>2. QED
    BY <2>1, HostNumbers DEF Hosts
<1>3. QED
  BY <1>1, <1>2, DeployedKinds

ContainersInv ==
  /\ config \in Configs
  /\ \A c \in containers : c.host \in Hosts

CleanInv ==
  play = "clean" =>
    \A c \in containers : c.host \in failedHosts \/ <<c.host, 0>> \in todo

CentralInv ==
  play = "central" =>
    /\ containers \subseteq Deployed(NAz) /\ todo \subseteq CentralItems(NAz)
    /\ failedHosts = {} =>
         \A item \in CentralItems(NAz) :
           item \in todo \/ ZoneContainers(item[2], item[1]) \subseteq containers

WorkerInv ==
  play = "worker" =>
    /\ containers \subseteq Deployed(NAz) /\ todo \subseteq WorkerItems
    /\ failedHosts = {} =>
         /\ \A item \in CentralItems(NAz) :
              ZoneContainers(item[2], item[1]) \subseteq containers
         /\ \A item \in WorkerItems :
              item \in todo \/ WorkerContainer(NAz, item[2], item[1]) \in containers

TestInv == play = "test" => containers = Deployed(NAz)

DeployInv == ContainersInv /\ CleanInv /\ CentralInv /\ WorkerInv /\ TestInv

LEMMA ZoneCount == ContainersInv => NAz \in Nat
  BY DeploymentAssumption, PlanAssumption DEF ContainersInv, NAz

LEMMA CleanKeeps ==
  ASSUME DeployInv, NEW item \in todo, Clean(item)
  PROVE  DeployInv'
<1>1. /\ play = "clean" /\ play' = "clean" /\ config' = config
      /\ todo' = todo \ {item}
  BY DEF Clean
<1> DEFINE old == {c \in containers : c.host = item[1]}
<1>2. /\ containers' \subseteq containers /\ failedHosts \subseteq failedHosts'
      /\ item[1] \in failedHosts' \/ containers' = containers \ old
  <2>1. \/ containers' = containers \ old /\ UNCHANGED failedHosts
        \/ /\ \E some \in SUBSET old : containers' = containers \ some
           /\ failedHosts' = failedHosts \cup {item[1]}
    BY DEF Clean
  <2>2. QED
    BY <2>1
<1>3. ContainersInv'
  BY <1>1, <1>2 DEF DeployInv, ContainersInv
<1>4. CleanInv'
  <2>1. ASSUME NEW c \in containers', c.host \notin failedHosts'
        PROVE  <<c.host, 0>> \in todo'
    <3>1. c \in containers /\ c.host # item[1] /\ c.host \notin failedHosts
      BY <1>1, <1>2, <2>1
    <3>2. <<c.host, 0>> \in todo /\ <<c.host, 0>> # item
      BY <1>1, <3>1 DEF DeployInv, CleanInv
    <3>3. QED
      BY <1>1, <3>2
  <2>2. QED
    BY <1>1, <2>1 DEF CleanInv
<1>5. CentralInv' /\ WorkerInv' /\ TestInv'
  BY <1>1 DEF CentralInv, WorkerInv, TestInv
<1>6. QED
  BY <1>3, <1>4, <1>5 DEF DeployInv

LEMMA StartKeeps ==
  ASSUME DeployInv, NEW item \in todo, Start(item)
  PROVE  DeployInv'
<1>0. NAz \in Nat /\ NAz' = NAz /\ config' = config
  BY ZoneCount DEF DeployInv, Start, NAz
<1>1. /\ play \in {"central", "worker"} /\ play' = play
      /\ todo' = todo \ {item} /\ containers \subseteq containers'
      /\ containers' \subseteq containers \cup Started(item)
      /\ failedHosts' = {} => failedHosts = {} /\ Started(item) \subseteq containers'
  BY DEF Start
<1>2. Started(item) \subseteq Deployed(NAz)
  BY <1>0, <1>1, StartedIsDeployed DEF DeployInv, CentralInv, WorkerInv, Started
<1>3. containers' \subseteq Deployed(NAz)
  BY <1>1, <1>2 DEF DeployInv, CentralInv, WorkerInv
<1>4. ContainersInv'
  BY <1>0, <1>3, DeployedHosts DEF DeployInv, ContainersInv
<1>5. CentralInv'
  <2>1. SUFFICES ASSUME play = "central"
                 PROVE  CentralInv'
    BY <1>1 DEF CentralInv
  <2>2. Started(item) = ZoneContainers(item[2], item[1])
    BY <2>1 DEF Started
  <2>3. CentralItems(NAz)' = CentralItems(NAz) /\ Deployed(NAz)' = Deployed(NAz)
    BY <1>0
  <2>4. QED
    BY <1>1, <1>3, <2>1, <2>2, <2>3 DEF DeployInv, CentralInv
<1>6. WorkerInv'
  <2>1. SUFFICES ASSUME play = "worker"
                 PROVE  WorkerInv'
    BY <1>1 DEF WorkerInv
  <2>2. Started(item) = {WorkerContainer(NAz, item[2], item[1])}
    BY <2>1 DEF Started
  <2>3. CentralItems(NAz)' = CentralItems(NAz) /\ Deployed(NAz)' = Deployed(NAz)
    BY <1>0
  <2>4. \A other : WorkerContainer(NAz, other[2], other[1])'
                     = WorkerContainer(NAz, other[2], other[1])
    BY <1>0
  <2>5. QED
    BY <1>1, <1>3, <2>1, <2>2, <2>3, <2>4 DEF DeployInv, WorkerInv
<1>7. CleanInv' /\ TestInv'
  BY <1>1 DEF CleanInv, TestInv
<1>8. QED
  BY <1>4, <1>5, <1>6, <1>7 DEF DeployInv

LEMMA PlaysKeep ==
  ASSUME DeployInv, RunTest \/ PlayCentral \/ PlayWorkers \/ TesterStarts \/ RunOver
  PROVE  DeployInv'
<1>1. CASE RunTest
  <2>1. ContainersInv' /\ CleanInv'
    BY <1>1 DEF RunTest, DeployInv, ContainersInv, CleanInv
  <2>2. CentralInv' /\ WorkerInv' /\ TestInv'
    BY <1>1 DEF RunTest, CentralInv, WorkerInv, TestInv
  <2>3. QED
    BY <2>1, <2>2 DEF DeployInv
<1>2. CASE PlayCentral
  <2>1. containers = {} /\ containers' = {} /\ config' = config /\ NAz' = NAz
    BY <1>2 DEF PlayCentral, Cleaned, DeployInv, CleanInv, NAz
  <2>2. play' = "central" /\ todo' = CentralItems(NAz)
    BY <1>2 DEF PlayCentral
  <2>3. ContainersInv' /\ CentralInv'
    BY <2>1, <2>2 DEF DeployInv, ContainersInv, CentralInv
  <2>4. CleanInv' /\ WorkerInv' /\ TestInv'
    BY <2>2 DEF CleanInv, WorkerInv, TestInv
  <2>5. QED
    BY <2>3, <2>4 DEF DeployInv
<1>3. CASE PlayWorkers
  <2>1. /\ containers' = containers /\ config' = config /\ NAz' = NAz
        /\ failedHosts' = failedHosts /\ play = "central" /\ todo = {}
        /\ play' = "worker" /\ todo' = WorkerItems
    BY <1>3 DEF PlayWorkers, NAz
  <2>2. WorkerInv'
    BY <2>1 DEF DeployInv, CentralInv, WorkerInv
  <2>3. ContainersInv' /\ CleanInv' /\ CentralInv' /\ TestInv'
    BY <2>1 DEF DeployInv, ContainersInv, CleanInv, CentralInv, TestInv
  <2>4. QED
    BY <2>2, <2>3 DEF DeployInv
<1>4. CASE TesterStarts
  <2>1. /\ containers' = containers /\ config' = config /\ NAz' = NAz
        /\ play = "worker" /\ todo = {} /\ failedHosts = {} /\ play' = "test"
    BY <1>4 DEF TesterStarts, NAz
  <2>2. containers = Deployed(NAz)
    BY <2>1, ZoneCount, AllStarted DEF DeployInv, WorkerInv
  <2>3. TestInv'
    BY <2>1, <2>2 DEF TestInv
  <2>4. ContainersInv' /\ CleanInv' /\ CentralInv' /\ WorkerInv'
    BY <2>1 DEF DeployInv, ContainersInv, CleanInv, CentralInv, WorkerInv
  <2>5. QED
    BY <2>3, <2>4 DEF DeployInv
<1>5. CASE RunOver
  BY <1>5 DEF RunOver, DeployInv, ContainersInv, CleanInv, CentralInv,
              WorkerInv, TestInv
<1>6. QED
  BY <1>1, <1>2, <1>3, <1>4, <1>5

(***************************************************************************)
(* For any number of hosts, servers, relays, workers and zones, and        *)
(* whatever fails in whatever order, a test that runs finds every node     *)
(* where the playbook has put it, if the prefix is the one in the tester's *)
(* text; but for the addresses of workers of several clouds, which are too *)
(* low by exactly TooLow (ovn_kubernetes.py:371, openstack.py:112,         *)
(* ovn_workload.py:314, bringup-cluster.yml:64-106).                       *)
(***************************************************************************)
THEOREM TesterAndPlaybookAgree ==
  ASSUME Prefix = "ovn-scale"
  PROVE  DeploySpec => []NodesAreWhereDeployed
<1>1. DeployInit => DeployInv
  BY DEF DeployInit, DeployInv, ContainersInv, CleanInv, CentralInv, WorkerInv,
         TestInv
<1>2. DeployInv /\ [DeployNext]_deployVars => DeployInv'
  <2>1. SUFFICES ASSUME DeployInv, [DeployNext]_deployVars
                 PROVE  DeployInv'
    OBVIOUS
  <2>2. CASE \E item \in todo : Clean(item) \/ Start(item)
    BY <2>1, <2>2, CleanKeeps, StartKeeps
  <2>3. CASE RunTest \/ PlayCentral \/ PlayWorkers \/ TesterStarts \/ RunOver
    BY <2>1, <2>3, PlaysKeep
  <2>4. CASE UNCHANGED deployVars
    BY <2>1, <2>4 DEF deployVars, DeployInv, ContainersInv, CleanInv, CentralInv,
                      WorkerInv, TestInv, NAz
  <2>5. QED
    BY <2>1, <2>2, <2>3, <2>4 DEF DeployNext
<1>3. DeployInv => NodesAreWhereDeployed
  <2>1. SUFFICES ASSUME DeployInv, play = "test"
                 PROVE  /\ ServersOf(NAz) \subseteq containers
                        /\ \A w \in WorkerNodes(config[1], NAz) :
                             [w EXCEPT !.ip = @ + TooLow(config[1], NAz)]
                               \in containers
                        /\ \A c, d \in containers : c.ip = d.ip => c = d
    BY DEF NodesAreWhereDeployed
  <2>2. containers = Deployed(NAz) /\ config \in Configs /\ NAz \in Nat
    BY <2>1, ZoneCount DEF DeployInv, TestInv, ContainersInv
  <2>3. /\ ServersOf(NAz) \subseteq Deployed(NAz)
        /\ \A w \in WorkerNodes(config[1], NAz) :
             [w EXCEPT !.ip = @ + TooLow(config[1], NAz)] \in Deployed(NAz)
    BY <2>2, TesterAgrees DEF NAz
  <2>4. QED
    BY <2>2, <2>3, DeployedAddresses
<1>4. QED
  BY <1>1, <1>2, <1>3, PTL DEF DeploySpec

=============================================================================
