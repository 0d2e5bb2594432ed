------------------------------ MODULE BgpBatches ------------------------------
(***************************************************************************)
(* BaseBgp.run on one cloud: projects are created in batches; the routes   *)
(* of each project's VRF are injected on the chassis that hosts the VRF    *)
(* and learned into the Southbound by ovn-controller; then, again in       *)
(* batches, static routes are added to the Northbound and ovn-controller   *)
(* installs them in the VRFs.  Each batch waits for what it has caused,    *)
(* by comparing counts, until a timeout that is only logged.               *)
(*                                                                         *)
(* A project and its VRF are the same number.  All the projects of this    *)
(* test are connected to the external network and have a gw_port.          *)
(***************************************************************************)
EXTENDS Integers, FiniteSets

CONSTANTS
  NProjects,   \* n_projects
  BatchSize,   \* batch_size; 0 stands for all the projects
  NLearn,      \* n_routes_per_vrf
  NAdvertise,  \* n_advertised_routes
  Chassis,     \* worker nodes, in the order of their numbers
  GwChassis,   \* per VRF: chassis that may claim its gateway port
  MaxOthers,   \* per VRF: bound on its other routes on one chassis
  NoHost

ASSUME CountsAssumption ==
  /\ NProjects \in Nat \ {0} /\ BatchSize \in Nat
  /\ NLearn \in Nat \ {0} /\ NAdvertise \in Nat \ {0}
ASSUME ChassisAssumption == Chassis \subseteq Nat /\ NoHost \notin Chassis

VARIABLES
  projects,    \* how many projects the cloud has
  devices,     \* per VRF: the chassis on which its device exists
  injectedAt,  \* per VRF: the chassis its script was started on, or NoHost
  injected,    \* per VRF: how many routes the script has added
  learned,     \* rows of Learned_Route: a VRF and the number of a route
  requested,   \* VRFs whose static routes are in the Northbound
  installed,   \* per VRF and chassis: static routes installed in the VRF
  others,      \* per VRF and chassis: connected and default routes in it
  snapshot,    \* vrf_info of the advertising batch: hosts and baseline
  pc           \* where the tester is

cloud == <<devices, injectedAt, injected, learned, installed, others>>
vars  == <<projects, cloud, requested, snapshot, pc>>

Vrfs == 1..NProjects

-----------------------------------------------------------------------------
(***************************************************************************)
(* The batches.                                                            *)
(***************************************************************************)
Size == IF BatchSize = 0 THEN NProjects ELSE BatchSize

(* Mutant: the division rounds down.                                       *)
NBatchesMutant == NProjects \div Size

NBatches == (NProjects + Size - 1) \div Size

LesserOf(a, b) == IF a < b THEN a ELSE b

EndIdx(b)   == LesserOf(b * Size + Size, NProjects)
StartIdx(b) == b * Size
Batch(b)    == (StartIdx(b) + 1)..EndIdx(b)

(***************************************************************************)
(* pc.batch is the batch being processed and pc.left those of its VRFs     *)
(* that the current loop has still to visit, in increasing order.          *)
(***************************************************************************)
At(loc, b, left) == [at |-> loc, batch |-> b, left |-> left]
First(S) == CHOOSE v \in S : \A u \in S : v <= u

(* The next batch of a phase, or what follows its last one.                *)
NextLearn(b) ==
  IF b < NBatches THEN At("create", b, {}) ELSE At("snapshot", 0, Batch(0))
NextAdvertise(b) ==
  IF b < NBatches THEN At("snapshot", b, Batch(b)) ELSE At("done", b, {})

NoInfo == [v \in {} |-> {}]

Init ==
  /\ projects = 0
  /\ devices = [v \in Vrfs |-> {}]
  /\ injectedAt = [v \in Vrfs |-> NoHost]
  /\ injected = [v \in Vrfs |-> 0] /\ learned = {}
  /\ requested = {}
  /\ installed = [v \in Vrfs |-> [c \in Chassis |-> 0]]
  /\ others = [v \in Vrfs |-> [c \in Chassis |-> 0]]
  /\ snapshot = NoInfo
  /\ pc = At("create", 0, {})

-----------------------------------------------------------------------------
(***************************************************************************)
(* run_batch_learn.                                                        *)
(***************************************************************************)
(* The batch's projects and VMs, then dynamic routing on all of them.      *)
CreateProjects ==
  /\ pc.at = "create"
  /\ projects' = projects + (EndIdx(pc.batch) - StartIdx(pc.batch))
  /\ pc' = At("inject", pc.batch, Batch(pc.batch))
  /\ UNCHANGED <<cloud, requested, snapshot>>

(* find_vrf_host finds a chassis with the device, and the script is run    *)
(* there.  The call returns when the script ends or, after its timeout,    *)
(* without it; its exit status is not looked at.                           *)
InjectRoutes ==
  /\ pc.at = "inject" /\ pc.left # {}
  /\ LET v == First(pc.left) IN
       /\ \E c \in devices[v] : injectedAt' = [injectedAt EXCEPT ![v] = c]
       /\ pc' = [pc EXCEPT !.left = @ \ {v}]
  /\ UNCHANGED <<projects, devices, injected, learned, installed, others,
                 requested, snapshot>>

(* find_vrf_host gives up after its timeout: the project is passed over.   *)
HostNotFound ==
  /\ pc.at = "inject" /\ pc.left # {}
  /\ pc' = [pc EXCEPT !.left = @ \ {First(@)}]
  /\ UNCHANGED <<projects, cloud, requested, snapshot>>

AllInjected ==
  /\ pc.at = "inject" /\ pc.left = {}
  /\ pc' = At("waitLearned", pc.batch, {})
  /\ UNCHANGED <<projects, cloud, requested, snapshot>>

(* injected_count counts this batch's projects that have a gw_port.        *)
Expected == NLearn * Cardinality(Batch(pc.batch))

(* All the rows of Learned_Route are counted, whatever batch caused them.  *)
LearnedRoutes == Cardinality(learned)

(* Mutant: the wait is over one route early.                               *)
LearnedEnoughMutant == LearnedRoutes + 1 >= Expected

LearnedEnough == LearnedRoutes >= Expected

RoutesLearned ==
  /\ pc.at = "waitLearned"
  /\ LearnedEnough
  /\ pc' = At("learned", pc.batch, {})
  /\ UNCHANGED <<projects, cloud, requested, snapshot>>

(* Mutant: the deadline is computed anew on every poll.                    *)
LearnTimesOutMutant == FALSE /\ UNCHANGED vars

(* The deadline passes; the caller does not look at the returned count.    *)
LearnTimesOut ==
  /\ pc.at = "waitLearned"
  /\ ~LearnedEnough
  /\ pc' = NextLearn(pc.batch + 1)
  /\ UNCHANGED <<projects, cloud, requested, snapshot>>

(* timeit turns an SSHError of the injection into a failed measurement of  *)
(* the batch, whose remaining projects get no routes.                      *)
LearnRaises ==
  /\ pc.at = "inject" /\ pc.left # {}
  /\ pc' = NextLearn(pc.batch + 1)
  /\ UNCHANGED <<projects, cloud, requested, snapshot>>

LearnReturns ==
  /\ pc.at = "learned"
  /\ pc' = NextLearn(pc.batch + 1)
  /\ UNCHANGED <<projects, cloud, requested, snapshot>>

-----------------------------------------------------------------------------
(***************************************************************************)
(* run_batch_advertise.                                                    *)
(***************************************************************************)
(* The routes of VRF v on chassis c that the advertising batches have not  *)
(* asked for, and all those that `ip route show vrf` lists there.          *)
Elsewhere(v, c) == (IF injectedAt[v] = c THEN injected[v] ELSE 0) + others[v][c]
Count(v, c)     == Elsewhere(v, c) + installed[v][c]

(* What is read if the command times out: the lines that came until then.  *)
Readings(v, c) == 0..Count(v, c)

(* The baseline is the count on vrf_hosts[0].  seen is history: how many   *)
(* routes were there that are not those the batch will add.                *)
Snapshots(v, hosts) ==
  [hosts : {hosts}, base : Readings(v, First(hosts)),
   seen : {Elsewhere(v, First(hosts))}]

(* A chassis whose command fails is left out like one without the device.  *)
TakeSnapshot ==
  /\ pc.at = "snapshot" /\ pc.left # {}
  /\ LET v == First(pc.left) IN
       /\ \/ UNCHANGED snapshot
          \/ \E hosts \in (SUBSET devices[v]) \ {{}} :
               \E info \in Snapshots(v, hosts) :
                 snapshot' = [u \in DOMAIN snapshot \cup {v} |->
                                IF u = v THEN info ELSE snapshot[u]]
       /\ pc' = [pc EXCEPT !.left = @ \ {v}]
  /\ UNCHANGED <<projects, cloud, requested>>

(* The static routes of one router after the other, with check_error.      *)
AddStaticRoutes ==
  /\ pc.at = "snapshot" /\ pc.left = {}
  /\ requested' = requested \cup Batch(pc.batch)
  /\ pc' = At("waitInstalled", pc.batch, DOMAIN snapshot)
  /\ UNCHANGED <<projects, cloud, snapshot>>

(* Mutant: the wait is over one route early.                               *)
InstalledEnoughMutant(v) ==
  \E c \in snapshot[v].hosts :
    Count(v, c) + 1 >= snapshot[v].base + NAdvertise

InstalledEnough(v) ==
  \E c \in snapshot[v].hosts :
    Count(v, c) >= snapshot[v].base + NAdvertise

(* The greatest count of all hosts is compared.                            *)
RoutesInstalled ==
  /\ pc.at = "waitInstalled" /\ pc.left # {}
  /\ InstalledEnough(First(pc.left))
  /\ pc' = [pc EXCEPT !.at = "installed"]
  /\ UNCHANGED <<projects, cloud, requested, snapshot>>

InstalledNext ==
  /\ pc.at = "installed"
  /\ pc' = At("waitInstalled", pc.batch, pc.left \ {First(pc.left)})
  /\ UNCHANGED <<projects, cloud, requested, snapshot>>

(* The deadline may pass with counts that were read short.                 *)
InstallTimesOut ==
  /\ pc.at = "waitInstalled" /\ pc.left # {}
  /\ pc' = [pc EXCEPT !.left = @ \ {First(@)}]
  /\ UNCHANGED <<projects, cloud, requested, snapshot>>

(* An SSHError while counting ends the batch, too.                         *)
AdvertiseReturns ==
  /\ \/ pc.at = "waitInstalled"
     \/ pc.at = "snapshot" /\ pc.left # {}
  /\ pc' = NextAdvertise(pc.batch + 1)
  /\ snapshot' = NoInfo
  /\ UNCHANGED <<projects, cloud, requested>>

(* The Northbound transactions raise what timeit does not catch; part of   *)
(* the batch may have been created or requested.                           *)
NorthboundRaises ==
  /\ \/ /\ pc.at = "create"
        /\ projects' \in projects..EndIdx(pc.batch)
        /\ UNCHANGED requested
     \/ /\ pc.at = "snapshot" /\ pc.left = {}
        /\ \E some \in SUBSET Batch(pc.batch) : requested' = requested \cup some
        /\ UNCHANGED projects
  /\ pc' = At("aborted", pc.batch, {})
  /\ UNCHANGED <<cloud, snapshot>>

(* What a remote call raises that is no SSHError passes timeit, too.       *)
RunRaises ==
  /\ pc.at \in {"inject", "snapshot", "waitInstalled"} /\ pc.left # {}
  /\ pc' = At("aborted", pc.batch, {})
  /\ UNCHANGED <<projects, cloud, requested, snapshot>>

-----------------------------------------------------------------------------
(***************************************************************************)
(* ovn_inject_routes.py on the chassis.  It adds one route after the       *)
(* other, while the tester waits for it or long after, or stops half-way.  *)
(***************************************************************************)
AddRoute(v) ==
  /\ injectedAt[v] # NoHost /\ injected[v] < NLearn
  /\ injected' = [injected EXCEPT ![v] = @ + 1]
  /\ UNCHANGED <<projects, devices, injectedAt, learned, installed, others,
                 requested, snapshot, pc>>

(***************************************************************************)
(* ovn-controller on the chassis (external).                               *)
(***************************************************************************)
(* It creates the device of a VRF whose gateway port it claims, or takes   *)
(* over, once dynamic routing is enabled.                                  *)
DeviceAppears(v, c) ==
  /\ v <= projects
  /\ c \in GwChassis[v] \ devices[v]
  /\ devices' = [devices EXCEPT ![v] = @ \cup {c}]
  /\ UNCHANGED <<projects, injectedAt, injected, learned, installed, others,
                 requested, snapshot, pc>>

Learn(v) ==
  /\ \E r \in 1..injected[v] : learned' = learned \cup {<<v, r>>}
  /\ UNCHANGED <<projects, devices, injectedAt, injected, installed, others,
                 requested, snapshot, pc>>

Install(v, c) ==
  /\ v \in requested /\ c \in devices[v]
  /\ installed[v][c] < NAdvertise
  /\ installed' = [installed EXCEPT ![v][c] = @ + 1]
  /\ UNCHANGED <<projects, devices, injectedAt, injected, learned, others,
                 requested, snapshot, pc>>

(* The routes of connected networks are redistributed like static ones.    *)
OtherRouteAppears(v, c) ==
  /\ c \in devices[v] /\ others[v][c] < MaxOthers[v]
  /\ others' = [others EXCEPT ![v][c] = @ + 1]
  /\ UNCHANGED <<projects, devices, injectedAt, injected, learned, installed,
                 requested, snapshot, pc>>

Tester ==
  \/ CreateProjects \/ InjectRoutes \/ HostNotFound \/ AllInjected
  \/ RoutesLearned \/ LearnTimesOut \/ LearnRaises \/ LearnReturns
  \/ TakeSnapshot \/ AddStaticRoutes \/ RoutesInstalled \/ InstalledNext
  \/ InstallTimesOut \/ AdvertiseReturns \/ NorthboundRaises
  \/ RunRaises

Controllers ==
  \E v \in Vrfs :
    \/ AddRoute(v) \/ Learn(v)
    \/ \E c \in Chassis :
         DeviceAppears(v, c) \/ Install(v, c) \/ OtherRouteAppears(v, c)

Next == Tester \/ Controllers

Spec == Init /\ [][Next]_vars

(* The tester never blocks beyond a deadline, if each of its remote calls  *)
(* ends; nothing is asked of the scripts and the controllers.              *)
FairSpec == Spec /\ WF_vars(Tester)

-----------------------------------------------------------------------------
Locations ==
  {"create", "inject", "waitLearned", "learned", "snapshot", "waitInstalled",
   "installed", "done", "aborted"}

TypeOK ==
  /\ projects \in 0..NProjects
  /\ devices \in [Vrfs -> SUBSET Chassis]
  /\ injectedAt \in [Vrfs -> Chassis \cup {NoHost}]
  /\ injected \in [Vrfs -> 0..NLearn] /\ learned \subseteq Vrfs \X (1..NLearn)
  /\ requested \subseteq Vrfs
  /\ installed \in [Vrfs -> [Chassis -> 0..NAdvertise]]
  /\ others \in [Vrfs -> [Chassis -> Nat]]
  /\ DOMAIN snapshot \subseteq Vrfs
  /\ \A v \in DOMAIN snapshot :
       /\ snapshot[v].hosts \subseteq Chassis
       /\ snapshot[v].base \in Nat /\ snapshot[v].seen \in Nat
  /\ pc.at \in Locations /\ pc.batch \in 0..NBatches /\ pc.left \subseteq Vrfs

(***************************************************************************)
(* When the wait of the first batch succeeds, the routes of all its        *)
(* projects have been learned, whatever could not be injected or is        *)
(* injected late: this is what the batch's duration is meant to measure.   *)
(* With the default batch_size there is no other batch; later ones may be  *)
(* satisfied by the routes of those before, since the count of all batches *)
(* is compared with what one has injected (base_bgp.py:236, 48).           *)
(***************************************************************************)
FirstWaitCoversBatch ==
  pc.at = "learned" /\ pc.batch = 0 => Batch(0) \X (1..NLearn) \subseteq learned

(***************************************************************************)
(* When the wait for a VRF's static routes succeeds, some chassis has all  *)
(* of them installed: "Wait for advertised routes to appear", says the     *)
(* comment at base_bgp.py:168.  What is compared are numbers of routes of  *)
(* any kind.  So the wait can be wrong, but only in one of three ways: the *)
(* VRF had its device on more chassis than the one of the baseline; the    *)
(* baseline was read short; or other routes have appeared in the VRF       *)
(* since, like those of a script that is late (base_bgp.py:139, 80).       *)
(***************************************************************************)
Undisturbed(v) ==
  LET info == snapshot[v]
      c    == First(info.hosts)
  IN /\ info.hosts = {c}
     /\ info.base >= info.seen
     /\ Elsewhere(v, c) = info.seen

UndisturbedWaitIsRight ==
  pc.at = "installed" /\ Undisturbed(First(pc.left)) =>
    \E c \in Chassis : installed[First(pc.left)][c] = NAdvertise

(***************************************************************************)
(* The batches cover every project once: a run that ends, whatever timed   *)
(* out or failed on the way, has created the configured number of          *)
(* projects, and no batch refers to a project that does not exist.         *)
(***************************************************************************)
BatchesCoverProjects ==
  /\ TypeOK
  /\ pc.at = "done" => projects = NProjects
  /\ pc.at \in Locations \ {"create", "done", "aborted"} =>
       Batch(pc.batch) \subseteq 1..projects

(***************************************************************************)
(* The run ends even if no route is ever learned or installed: every wait  *)
(* has a deadline, and a batch that fails is followed by the next one.     *)
(* That a remote call ends is assumed here, see SandboxChannel.            *)
(***************************************************************************)
RunEnds == <>(pc.at \in {"done", "aborted"})

=============================================================================
