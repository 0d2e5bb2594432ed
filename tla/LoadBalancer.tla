----------------------------- MODULE LoadBalancer -----------------------------
(***************************************************************************)
(* An OvnLoadBalancer: the VIPs its object remembers, and the Northbound   *)
(* Load_Balancer rows, one per protocol, that should hold the same VIPs;   *)
(* with the operations the OVN-Kubernetes cluster and its workers perform  *)
(* on it.                                                                  *)
(*                                                                         *)
(* The rows are written one transaction at a time without check_error: a   *)
(* failed transaction is only logged, and a spurious failure may have been *)
(* committed.  A VIP is numbered by its host address in the VIP subnet; a  *)
(* list of backends is abstracted to the set of its members, and all the   *)
(* ports of one worker to a single backend.                                *)
(***************************************************************************)
EXTENDS Integers, FiniteSets, Functions

CONSTANTS
  Protocols,    \* VALID_PROTOCOLS
  Workers,      \* worker nodes; each is also the backend its ports provide
  StaticHost,   \* the backends of the static VIPs
  NConfig,      \* cluster_cfg.vips are the hosts 1..NConfig
  NStatic,      \* cluster_cfg.static_vips are the hosts 1..NStatic
  MaxBatch,     \* MAX_VIPS_IN_BATCH
  MaxVips,      \* bound: VIPs the load balancer ever has at once
  MaxFailures   \* bound: transactions whose failure is only logged

ASSUME NumbersAssumption ==
  /\ NConfig \in Nat /\ NStatic \in Nat /\ MaxBatch \in Nat \ {0}
  /\ MaxVips \in Nat /\ MaxFailures \in Nat
  /\ NConfig <= MaxVips /\ NStatic <= MaxVips
ASSUME NamesAssumption == Workers \cap {StaticHost, "none", "static"} = {}

VARIABLES
  vips,      \* OvnLoadBalancer.vips
  rows,      \* per protocol that has a row: its vips column
  lbs,       \* OvnLoadBalancer.lbs: the protocols whose row it will write
  attached,  \* <<protocol, worker, kind>>: datapaths a row is attached to
  served,    \* history: workers added as backends since the last clear
  doubtful,  \* history: <<protocol, VIP>> whose last write has been logged as
             \* failed
  failures,  \* counts the logged failures
  pc         \* where the tester is

database == <<rows, attached>>
vars     == <<vips, rows, lbs, attached, served, doubtful, failures, pc>>

Hosts    == 1..MaxVips
Backends == Workers \cup {StaticHost}
VipMaps  == UNION {[D -> SUBSET Backends] : D \in {1..n : n \in 0..MaxVips}}
Updates  == UNION {[D -> SUBSET Backends] : D \in SUBSET Hosts}
Kinds    == {"switch", "router"}

Empty  == [v \in {} |-> {}]
Config == [v \in 1..NConfig |-> {}]
Static == [v \in 1..NStatic |-> {StaticHost}]

(***************************************************************************)
(* pc.todo maps the VIPs add_vips has not reached yet to their backends,   *)
(* pc.upd is what is being written to each row, pc.left the rows that the  *)
(* current loop has still to visit, and pc.next what follows the loop.     *)
(***************************************************************************)
At(loc, todo, upd, left, next) ==
  [at |-> loc, todo |-> todo, upd |-> upd, left |-> left, next |-> next]
Idle == At("idle", Empty, Empty, {}, "none")
Dead == At("dead", Empty, Empty, {}, "none")
Gone == At("gone", Empty, Empty, {}, "none")

AddVips(map, next) == At("batch", map, Empty, {}, next)

(* Construction makes the rows, then adds the configured VIPs; the static  *)
(* ones follow (create_cluster_load_balancer).                             *)
Init ==
  /\ vips = Empty
  /\ rows = [pr \in Protocols |-> Empty]
  /\ lbs = Protocols
  /\ attached = {}
  /\ served = {}
  /\ doubtful = {}
  /\ failures = 0
  /\ pc = AddVips(Config, "static")

-----------------------------------------------------------------------------
(***************************************************************************)
(* add_vips, one batch at a time.                                          *)
(***************************************************************************)
(* The first MaxBatch VIPs of a contiguous range.                          *)
FirstOf(S) == {v \in S : Cardinality({u \in S : u < v}) < MaxBatch}

(* setdefault gives the object a list of its own, which is then extended.  *)
Extended(map) ==
  [v \in DOMAIN vips \cup DOMAIN map |->
     (IF v \in DOMAIN vips THEN vips[v] ELSE {})
       \cup (IF v \in DOMAIN map THEN map[v] ELSE {})]

Batch ==
  /\ pc.at = "batch" /\ DOMAIN pc.todo # {}
  /\ LET batch == FirstOf(DOMAIN pc.todo) IN
       /\ vips' = Extended(Restrict(pc.todo, batch))
       /\ pc' = [pc EXCEPT !.at = "set",
                           !.todo = Restrict(@, DOMAIN @ \ batch),
                           !.upd = Restrict(vips', batch),
                           !.left = lbs]
  /\ UNCHANGED <<database, lbs, served, doubtful, failures>>

(* All batches written: the call returns to whoever made it.               *)
Batches ==
  /\ pc.at = "batch" /\ DOMAIN pc.todo = {}
  /\ pc' = IF pc.next = "static" THEN AddVips(Static, "none") ELSE Idle
  /\ UNCHANGED <<vips, database, lbs, served, doubtful, failures>>

(* Mutant: the column is replaced, so that only the last batch stays.      *)
MergedMutant(row, map) == map

(* db_set merges a map into the column: VIPs it does not name stay.        *)
Merged(row, map) ==
  [v \in DOMAIN row \cup DOMAIN map |->
     IF v \in DOMAIN map THEN map[v] ELSE row[v]]

(* One write of row pr: it succeeds; or the failure is logged, whether the *)
(* transaction was committed or not.                                       *)
Writes(pr, row, named) ==
  \/ /\ rows' = [rows EXCEPT ![pr] = row]
     /\ doubtful' = doubtful \ ({pr} \X named)
     /\ UNCHANGED failures
  \/ /\ failures < MaxFailures
     /\ rows' \in {rows, [rows EXCEPT ![pr] = row]}
     /\ doubtful' = doubtful \cup ({pr} \X named)
     /\ failures' = failures + 1

SetVips(pr) ==
  /\ pc.at = "set" /\ pr \in pc.left
  /\ Writes(pr, Merged(rows[pr], pc.upd), DOMAIN pc.upd)
  /\ pc' = [pc EXCEPT !.left = @ \ {pr}]
  /\ UNCHANGED <<vips, lbs, attached, served>>

SetDone ==
  /\ pc.at = "set" /\ pc.left = {}
  /\ pc' = IF pc.next \in Workers
           THEN At("switch", Empty, Empty, lbs, pc.next)
           ELSE At("batch", pc.todo, Empty, {}, pc.next)
  /\ UNCHANGED <<vips, database, lbs, served, doubtful, failures>>

-----------------------------------------------------------------------------
(***************************************************************************)
(* The cluster's operations.                                               *)
(***************************************************************************)
(* Mutants: the host addresses start one too low, or one too high.         *)
VipIpLow  == Cardinality(DOMAIN vips)
VipIpHigh == Cardinality(DOMAIN vips) + 2

(* n_vips is the number of VIPs the object remembers.                      *)
VipIp == Cardinality(DOMAIN vips) + 1

(* provision_vips_to_load_balancers: new VIPs for n lists of backends.     *)
ProvisionVips(n) ==
  /\ pc = Idle
  /\ n \in 1..(MaxVips - Cardinality(DOMAIN vips))
  /\ \E lists \in [VipIp..(VipIp + n - 1) -> SUBSET Workers] :
       pc' = AddVips(lists, "none")
  /\ UNCHANGED <<vips, database, lbs, served, doubtful, failures>>

(* Mutant: the rows are cleared, the object is not.                        *)
UnprovisionVipsMutant ==
  /\ pc = Idle
  /\ served' = {}
  /\ pc' = At("clear", Empty, Empty, lbs, "static")
  /\ UNCHANGED <<vips, database, lbs, doubtful, failures>>

(* unprovision_vips: clear_vips, then the static VIPs again.               *)
UnprovisionVips ==
  /\ pc = Idle
  /\ vips' = Empty
  /\ served' = {}
  /\ pc' = At("clear", Empty, Empty, lbs, "static")
  /\ UNCHANGED <<database, lbs, doubtful, failures>>

ClearVips(pr) ==
  /\ pc.at = "clear" /\ pr \in pc.left
  /\ Writes(pr, Empty, Hosts)
  /\ pc' = [pc EXCEPT !.left = @ \ {pr}]
  /\ UNCHANGED <<vips, lbs, attached, served>>

ClearDone ==
  /\ pc.at = "clear" /\ pc.left = {}
  /\ pc' = AddVips(Static, "none")
  /\ UNCHANGED <<vips, database, lbs, served, doubtful, failures>>

(***************************************************************************)
(* provision_load_balancers of worker w.  port_ips is a generator, which   *)
(* the first matching VIP exhausts: the later ones are extended with       *)
(* nothing.  `if not vips` also holds of an empty cluster_cfg.vips.        *)
(***************************************************************************)
Matching ==
  IF NConfig = 0 THEN DOMAIN vips ELSE DOMAIN vips \cap 1..NConfig

Receiving == {v \in Matching : \A u \in Matching : v <= u}

AddBackendsToVip(w) ==
  /\ pc = Idle
  /\ w \notin served
  /\ vips' = [v \in DOMAIN vips |->
                IF v \in Receiving THEN vips[v] \cup {w} ELSE vips[v]]
  /\ served' = served \cup {w}
  /\ pc' = At("set", Empty, vips', lbs, w)
  /\ UNCHANGED <<database, lbs, doubtful, failures>>

(* add_to_switches, then add_to_routers, one transaction per row; with     *)
(* check_error=True a failure is raised and ends the run.                  *)
Attach(pr) ==
  /\ pc.at \in Kinds /\ pr \in pc.left
  /\ attached' = attached \cup {<<pr, pc.next, pc.at>>}
  /\ pc' = [pc EXCEPT !.left = @ \ {pr}]
  /\ UNCHANGED <<vips, rows, lbs, served, doubtful, failures>>

AttachRaises(pr) ==
  /\ pc.at \in Kinds /\ pr \in pc.left
  /\ attached' \in {attached, attached \cup {<<pr, pc.next, pc.at>>}}
  /\ pc' = Dead
  /\ UNCHANGED <<vips, rows, lbs, served, doubtful, failures>>

AttachDone ==
  /\ pc.at \in Kinds /\ pc.left = {}
  /\ pc' = IF pc.at = "switch"
           THEN At("router", Empty, Empty, lbs, pc.next) ELSE Idle
  /\ UNCHANGED <<vips, database, lbs, served, doubtful, failures>>

(***************************************************************************)
(* destroy: the rows are deleted one by one, failures again only logged,   *)
(* and then forgotten.  The database drops the references to a row it      *)
(* deletes.                                                                *)
(***************************************************************************)
Destroy ==
  /\ pc = Idle
  /\ pc' = At("destroy", Empty, Empty, lbs, "none")
  /\ UNCHANGED <<vips, database, lbs, served, doubtful, failures>>

Deleted(pr) ==
  /\ rows' = Restrict(rows, DOMAIN rows \ {pr})
  /\ attached' = {a \in attached : a[1] # pr}

DeleteRow(pr) ==
  /\ pc.at = "destroy" /\ pr \in pc.left
  /\ \/ Deleted(pr) /\ UNCHANGED <<doubtful, failures>>
     \/ /\ failures < MaxFailures
        /\ Deleted(pr) \/ UNCHANGED database
        /\ doubtful' = doubtful \cup ({pr} \X Hosts)
        /\ failures' = failures + 1
  /\ pc' = [pc EXCEPT !.left = @ \ {pr}]
  /\ UNCHANGED <<vips, lbs, served>>

DestroyDone ==
  /\ pc.at = "destroy" /\ pc.left = {}
  /\ lbs' = {}
  /\ pc' = Gone
  /\ UNCHANGED <<vips, database, served, doubtful, failures>>

Operation ==
  \/ \E n \in Hosts : ProvisionVips(n)
  \/ UnprovisionVips \/ Destroy
  \/ \E w \in Workers : AddBackendsToVip(w)

Progress ==
  \/ Batch \/ Batches \/ SetDone \/ ClearDone \/ AttachDone
  \/ DestroyDone
  \/ \E pr \in Protocols :
       SetVips(pr) \/ ClearVips(pr) \/ Attach(pr) \/ AttachRaises(pr)
         \/ DeleteRow(pr)

Next == Operation \/ Progress

Spec == Init /\ [][Next]_vars

-----------------------------------------------------------------------------
Locations ==
  {"idle", "batch", "set", "clear", "switch", "router", "destroy"}
    \cup {"dead", "gone"}

TypeOK ==
  /\ vips \in VipMaps
  /\ rows \in [DOMAIN rows -> Updates] /\ DOMAIN rows \subseteq Protocols
  /\ lbs \subseteq Protocols
  /\ attached \subseteq Protocols \X Workers \X Kinds
  /\ served \subseteq Workers
  /\ doubtful \subseteq Protocols \X Hosts
  /\ failures \in 0..MaxFailures
  /\ pc.at \in Locations
  /\ pc.todo \in Updates /\ pc.upd \in Updates
  /\ pc.left \subseteq Protocols
  /\ pc.next \in {"none", "static"} \cup Workers

(* Row pr and the object say the same of VIP v.                            *)
Agrees(pr, v) ==
  /\ v \in DOMAIN rows[pr] <=> v \in DOMAIN vips
  /\ v \in DOMAIN vips => rows[pr][v] = vips[v]

(***************************************************************************)
(* Between operations, every row holds exactly the VIPs and backends the   *)
(* object remembers, except where the last write of that VIP was logged as *)
(* failed.  Batches, merging writes and the clearing of all rows conspire  *)
(* in this: a VIP written once is never written again until it changes.    *)
(***************************************************************************)
RowsFollowVips ==
  pc = Idle =>
    \A pr \in lbs, v \in Hosts : <<pr, v>> \in doubtful \/ Agrees(pr, v)

(***************************************************************************)
(* provision_vips_to_load_balancers computes its addresses from the number *)
(* of VIPs alone.  They are new all the same: neither configured or static *)
(* VIPs nor VIPs of an earlier call get the backends of another service.   *)
(***************************************************************************)
ProvisionedVipsAreNew ==
  [][(pc = Idle /\ pc'.at = "batch") =>
       DOMAIN pc'.todo \cap DOMAIN vips = {}]_vars

(***************************************************************************)
(* When unprovision_vips has ended, and the writes succeeded, the rows hold*)
(* the static VIPs with the backends they had at first and nothing else,   *)
(* whatever was provisioned, or added to the static VIPs, in between.      *)
(***************************************************************************)
OnlyStaticVipsRemain ==
  (/\ pc = Idle /\ served = {} /\ doubtful = {}
   /\ DOMAIN vips = DOMAIN Static) =>
    \A pr \in lbs : rows[pr] = Static

(***************************************************************************)
(* Between operations, the rows of all protocols are attached alike: a     *)
(* worker that has been served has all of them on its switch and its       *)
(* gateway router, an unserved one of a fresh cluster none.                *)
(***************************************************************************)
AttachedAlike ==
  pc = Idle =>
    \A w \in Workers :
      LET on == {a \in attached : a[2] = w} IN
        /\ on \in {{}, Protocols \X {w} \X Kinds}
        /\ w \in served => on = Protocols \X {w} \X Kinds

(***************************************************************************)
(* A destroyed load balancer has no row left, unless the deletion of that  *)
(* row was logged as failed: nothing will delete it later, since the object*)
(* has forgotten its rows.                                                 *)
(***************************************************************************)
DestroyLeavesNothing ==
  pc.at = "gone" =>
    \A pr \in DOMAIN rows : {pr} \X Hosts \subseteq doubtful

(***************************************************************************)
(* The rows of an OvnLoadBalancer are what the object says: in what they   *)
(* hold, in what they are attached to, and in whether they are there.      *)
(***************************************************************************)
RowsAreAsRemembered == RowsFollowVips /\ AttachedAlike /\ DestroyLeavesNothing

=============================================================================
