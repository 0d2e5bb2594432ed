------------------------------- MODULE NbSync -------------------------------
(***************************************************************************)
(* OvnNbctl.sync(): the tester's barrier against the OVN control plane.    *)
(*                                                                         *)
(* A sync transaction increments NB_Global:nb_cfg and then waits until     *)
(* NB_Global:sb_cfg (wait="sb"), or both sb_cfg and hv_cfg (wait="hv"),    *)
(* have reached the incremented value.  ovn-northd carries nb_cfg into the *)
(* Southbound database, every ovn-controller installs what it finds there  *)
(* and publishes the nb_cfg it has caught up with, and ovn-northd reports  *)
(* the minimum of those back as hv_cfg.  northd and the controllers are    *)
(* not in the repository: they are modelled from what the transaction      *)
(* relies on, and may take their steps at any moment.                      *)
(*                                                                         *)
(* A database's content is abstracted to ver, the number of configuration  *)
(* transactions it reflects; [cfg, ver] travels as one snapshot.           *)
(***************************************************************************)
EXTENDS Integers

CONSTANTS
  Chassis,   \* the chassis that may register with this cluster
  CfgMax,    \* LLONG_MAX, the largest value of the nb_cfg column
  MaxVer,    \* bound: configuration transactions the tester commits
  NoSnap     \* northd is not translating a snapshot

ASSUME CfgMaxAssumption == CfgMax \in Nat \ {0}
ASSUME MaxVerAssumption == MaxVer \in Nat

VARIABLES
  nb,          \* Northbound: nb_cfg and the content version
  sb,          \* Southbound: nb_cfg and the content version
  sbCfg,       \* NB_Global:sb_cfg
  hvCfg,       \* NB_Global:hv_cfg
  snap,        \* the Northbound snapshot northd is translating, or NoSnap
  registered,  \* chassis with a row in the Southbound
  flows,       \* per chassis: the snapshot its flows implement
  published,   \* per chassis: the nb_cfg it has written to its own row
  txn,         \* the sync transaction in progress, or the last one
  wrapped      \* history: nb_cfg has been reset to 0 at least once

northdVars  == <<sb, sbCfg, hvCfg, snap>>
chassisVars == <<registered, flows, published>>
vars == <<nb, northdVars, chassisVars, txn, wrapped>>

Cfg       == 0..CfgMax
Snapshot  == [cfg : Cfg, ver : 0..MaxVer]
WaitTypes == {"sb", "hv"}

ASSUME NoSnapAssumption == NoSnap \notin Snapshot

(***************************************************************************)
(* txn.cover and txn.target are history: the chassis registered, and the   *)
(* content version committed, when the increment was committed.            *)
(***************************************************************************)
Txn == [state  : {"none", "waiting", "synced", "timedout", "raised"},
        wait   : WaitTypes,
        next   : Cfg,
        target : 0..MaxVer,
        cover  : SUBSET Chassis]

(* A transaction that is over and promises nothing.                        *)
Ended(state) ==
  [state |-> state, wait |-> "hv", next |-> 0, target |-> 0, cover |-> {}]

Init ==
  /\ nb \in [cfg : Cfg, ver : {0}]   \* nb_cfg survives from earlier tests
  /\ sb = nb
  /\ sbCfg = nb.cfg
  /\ hvCfg = nb.cfg
  /\ snap = NoSnap
  /\ registered \in SUBSET Chassis
  /\ flows = [c \in Chassis |-> nb]
  /\ published = [c \in Chassis |-> nb.cfg]
  /\ txn = Ended("none")
  /\ wrapped = FALSE

-----------------------------------------------------------------------------
(***************************************************************************)
(* The tester.  It is single threaded: it commits nothing while it waits.  *)
(***************************************************************************)
Running == txn.state \notin {"waiting", "raised"}

(* A transaction with no wait_type: pre_commit and do_post_commit do       *)
(* nothing besides committing the commands.                                *)
Configure ==
  /\ Running
  /\ nb.ver < MaxVer
  /\ nb' = [nb EXCEPT !.ver = @ + 1]
  /\ UNCHANGED <<northdVars, chassisVars, txn, wrapped>>

(* Mutant: the increment is forgotten once the wrap is handled.            *)
PreCommitMutant(cfg) == IF cfg = CfgMax THEN 0 ELSE cfg

(* Mutant: nb_cfg is not reset at the largest value.                       *)
PreCommitNoReset(cfg) == cfg + 1

(* pre_commit: an nb_cfg at LLONG_MAX is set to 0 before the increment.    *)
PreCommit(cfg) == IF cfg = CfgMax THEN 1 ELSE cfg + 1

(* The increment is committed and do_post_commit starts to wait for it.    *)
SyncCommit(w) ==
  /\ Running
  /\ nb' = [nb EXCEPT !.cfg = PreCommit(@)]
  /\ txn' = [state |-> "waiting", wait |-> w, next |-> nb'.cfg,
             target |-> nb.ver, cover |-> registered]
  /\ wrapped' = (wrapped \/ nb.cfg = CfgMax)
  /\ UNCHANGED <<northdVars, chassisVars>>

(* The transaction appears to fail and check_error raises; during a RAFT   *)
(* leadership change the increment may have been committed all the same.   *)
SyncRaises ==
  /\ Running
  /\ \/ nb' = [nb EXCEPT !.cfg = PreCommit(@)]
     \/ nb' = nb
  /\ wrapped' = (wrapped \/ (nb' # nb /\ nb.cfg = CfgMax))
  /\ txn' = Ended("raised")
  /\ UNCHANGED <<northdVars, chassisVars>>

(* Mutant: hv_cfg is not consulted.                                        *)
CurCfgMutant(w) == sbCfg

CurCfg(w) ==
  IF w = "hv" /\ hvCfg < sbCfg THEN hvCfg ELSE sbCfg

(* Mutants: the comparison is off by one in either direction.              *)
NbHasCompletedEarly == CurCfg(txn.wait) + 1 >= txn.next
NbHasCompletedNever == CurCfg(txn.wait) > txn.next

NbHasCompleted == CurCfg(txn.wait) >= txn.next

(* One round of do_post_commit's loop that finds the increment completed.  *)
SyncCompletes ==
  /\ txn.state = "waiting"
  /\ NbHasCompleted
  /\ txn' = [txn EXCEPT !.state = "synced", !.next = 0]
  /\ UNCHANGED <<nb, northdVars, chassisVars, wrapped>>

(* The loop's condition is tested before the completion is, so the timeout *)
(* may win even when the answer has arrived.  post_commit only logs it.    *)
SyncTimesOut ==
  /\ txn.state = "waiting"
  /\ txn' = Ended("timedout")
  /\ UNCHANGED <<nb, northdVars, chassisVars, wrapped>>

Tester ==
  \/ Configure
  \/ \E w \in WaitTypes : SyncCommit(w)
  \/ SyncRaises
  \/ SyncCompletes
  \/ SyncTimesOut

-----------------------------------------------------------------------------
(***************************************************************************)
(* ovn-northd (external).                                                  *)
(***************************************************************************)
NorthdRead ==
  /\ snap = NoSnap
  /\ nb # sb
  /\ snap' = nb
  /\ UNCHANGED <<nb, sb, sbCfg, hvCfg, chassisVars, txn, wrapped>>

NorthdWrite ==
  /\ snap # NoSnap
  /\ sb' = snap
  /\ snap' = NoSnap
  /\ UNCHANGED <<nb, sbCfg, hvCfg, chassisVars, txn, wrapped>>

NorthdReportSb ==
  /\ sbCfg' = sb.cfg
  /\ UNCHANGED <<nb, sb, hvCfg, snap, chassisVars, txn, wrapped>>

(* hv_cfg becomes the least nb_cfg any registered chassis has published,   *)
(* and the Southbound's own nb_cfg if none is registered.                  *)
NorthdReportHv ==
  /\ \E m \in {sb.cfg} \cup {published[c] : c \in registered} :
       /\ m <= sb.cfg
       /\ \A c \in registered : m <= published[c]
       /\ hvCfg' = m
  /\ UNCHANGED <<nb, sb, sbCfg, snap, chassisVars, txn, wrapped>>

Northd == NorthdRead \/ NorthdWrite \/ NorthdReportSb \/ NorthdReportHv

-----------------------------------------------------------------------------
(***************************************************************************)
(* ovn-controller on one chassis (external).                               *)
(***************************************************************************)
Register(c) ==
  /\ c \notin registered
  /\ registered' = registered \cup {c}
  /\ flows' = [flows EXCEPT ![c] = [cfg |-> 0, ver |-> 0]]
  /\ published' = [published EXCEPT ![c] = 0]
  /\ UNCHANGED <<nb, northdVars, txn, wrapped>>

(* It starts from the Southbound as it is now; how long the installation   *)
(* takes shows in when it publishes.                                       *)
ChassisInstall(c) ==
  /\ c \in registered
  /\ flows' = [flows EXCEPT ![c] = sb]
  /\ UNCHANGED <<nb, northdVars, registered, published, txn, wrapped>>

ChassisPublish(c) ==
  /\ c \in registered
  /\ published' = [published EXCEPT ![c] = flows[c].cfg]
  /\ UNCHANGED <<nb, northdVars, registered, flows, txn, wrapped>>

Controller(c) == ChassisInstall(c) \/ ChassisPublish(c)

-----------------------------------------------------------------------------
Next ==
  \/ Tester
  \/ Northd
  \/ \E c \in Chassis : Register(c) \/ Controller(c)

Spec == Init /\ [][Next]_vars

(***************************************************************************)
(* The daemons keep running and the tester keeps polling; nothing obliges  *)
(* a test to configure anything, or a chassis to register.  do_post_commit *)
(* polls whenever its IDL changes, so completion is fair.                  *)
(***************************************************************************)
Fairness ==
  /\ WF_vars(NorthdRead) /\ WF_vars(NorthdWrite)
  /\ WF_vars(NorthdReportSb) /\ WF_vars(NorthdReportHv)
  /\ \A c \in Chassis :
       WF_vars(ChassisInstall(c)) /\ WF_vars(ChassisPublish(c))
  /\ WF_vars(SyncCompletes)

FairSpec == Spec /\ Fairness

-----------------------------------------------------------------------------
TypeOK ==
  /\ nb \in Snapshot
  /\ sb \in Snapshot
  /\ sbCfg \in Cfg
  /\ hvCfg \in Cfg
  /\ snap \in Snapshot \cup {NoSnap}
  /\ registered \in SUBSET Chassis
  /\ flows \in [Chassis -> Snapshot]
  /\ published \in [Chassis -> Cfg]
  /\ txn \in Txn
  /\ wrapped \in BOOLEAN

(***************************************************************************)
(* The inductive strengthening of the properties below, in three parts.    *)
(* The nb_cfg values trail one another along the path an increment takes.  *)
(***************************************************************************)
CfgsTrail ==
  /\ sb.cfg <= nb.cfg
  /\ sbCfg <= sb.cfg
  /\ hvCfg <= sb.cfg
  /\ snap # NoSnap => sb.cfg <= snap.cfg /\ snap.cfg <= nb.cfg
  /\ \A c \in Chassis : flows[c].cfg <= sb.cfg /\ published[c] <= flows[c].cfg

(* So do the contents.                                                     *)
VersTrail ==
  /\ sb.ver <= nb.ver
  /\ snap # NoSnap => sb.ver <= snap.ver /\ snap.ver <= nb.ver
  /\ \A c \in Chassis : flows[c].ver <= sb.ver

(* Whatever carries the awaited nb_cfg carries the content that preceded   *)
(* it, and hv_cfg reaches it only after every covered chassis has.         *)
AnswerCarriesTarget ==
  txn.state = "waiting" =>
    /\ txn.next = nb.cfg
    /\ txn.target <= nb.ver
    /\ snap # NoSnap /\ snap.cfg >= txn.next => snap.ver >= txn.target
    /\ sb.cfg >= txn.next => sb.ver >= txn.target
    /\ \A c \in txn.cover :
         /\ flows[c].cfg >= txn.next => flows[c].ver >= txn.target
         /\ hvCfg >= txn.next => published[c] >= txn.next

(***************************************************************************)
(* When sync(wait="hv") returns without a timeout, every chassis that was  *)
(* registered when it was called has installed everything the tester had   *)
(* committed before the call.  Context.__exit__ and the tests' connectivity*)
(* checks rely on it.  It is claimed only while nb_cfg has not wrapped:    *)
(* after pre_commit's reset, sb_cfg and hv_cfg are still near LLONG_MAX    *)
(* and `cur_cfg >= next_cfg` holds at once.                                *)
(***************************************************************************)
HvSyncCoversChassis ==
  txn.state = "synced" /\ txn.wait = "hv" /\ ~wrapped =>
    \A c \in txn.cover : flows[c].ver >= txn.target

(***************************************************************************)
(* When sync(wait="sb") returns without a timeout, northd has translated   *)
(* everything committed before the call into the Southbound.  The hv wait  *)
(* promises this too: nb_has_completed takes the minimum of both columns,  *)
(* which matters when no chassis is registered.                            *)
(***************************************************************************)
SyncCoversSouthbound ==
  txn.state = "synced" /\ ~wrapped => sb.ver >= txn.target

(***************************************************************************)
(* The value a sync is about to wait for has never been reported back when *)
(* the increment is committed: no earlier sync's answer, in particular the *)
(* late answer to one that timed out, can complete it.                     *)
(***************************************************************************)
SyncStartsIncomplete ==
  [][(txn.state # "waiting" /\ txn'.state = "waiting" /\ ~wrapped') =>
       ~NbHasCompleted']_vars

IInv ==
  /\ VersTrail
  /\ txn.cover \subseteq registered
  /\ ~wrapped => CfgsTrail /\ AnswerCarriesTarget
  /\ HvSyncCoversChassis
  /\ SyncCoversSouthbound

(***************************************************************************)
(* A sync's wait ends: the control plane echoes the increment and the loop *)
(* of do_post_commit observes it, unless the timeout ended it first.       *)
(***************************************************************************)
SyncReturns == (txn.state = "waiting") ~> (txn.state # "waiting")

=============================================================================
