------------------------------ MODULE Deployment ------------------------------
(***************************************************************************)
(* Runs of do.sh on the same physical hosts, one after the other: each     *)
(* removes the containers of the last one, has the playbook                *)
(* bringup-cluster.yml start its own, and then runs the tester, which      *)
(* computes anew on which host, under which name and at which address it   *)
(* expects every node.                                                     *)
(*                                                                         *)
(* Ansible runs a task on all hosts in parallel and waits for all of them. *)
(* A loop goes on after an item that failed, but then its host takes no    *)
(* part in what follows, and the playbook fails in the end.                *)
(***************************************************************************)
EXTENDS AddressPlan, FiniteSets

CONSTANTS
  Configs,      \* scenarios that may be run: pairs of cms_name and n_az
  NCentralHosts, NWorkerHosts,   \* physical hosts, numbered from 0
  Prefix,       \* `prefix` of the physical deployment
  MaxRuns       \* bound on the number of runs

ASSUME DeploymentAssumption ==
  /\ Configs \subseteq {"ovn_kubernetes", "openstack"} \X (1..MaxAz)
  /\ NCentralHosts \in Nat \ {0} /\ NWorkerHosts \in Nat \ {0}

VARIABLES
  config,       \* the scenario of this run
  play,         \* where the run is
  todo,         \* pairs of a host and what its current task has yet to do
  failedHosts,  \* hosts on which something has failed in this playbook
  containers,   \* the containers that exist
  runs          \* how many runs there have been

deployVars == <<config, play, todo, failedHosts, containers, runs>>

NAz == config[2]

CentralHosts == {"central"} \X (0..(NCentralHosts - 1))
WorkerHosts  == {"worker"} \X (0..(NWorkerHosts - 1))
Hosts        == CentralHosts \cup WorkerHosts

CentralHost(i) == <<"central", i % NCentralHosts>>
WorkerHost(i)  == <<"worker", i % NWorkerHosts>>

Node(name, host, ip) == [name |-> name, host |-> host, ip |-> ip]

(* Addresses of a zone, in the tester and in the playbook.                 *)
NIps == NCentral + NRelays

-----------------------------------------------------------------------------
(***************************************************************************)
(* The playbook.  An item of a host's loop is a zone or a worker.          *)
(***************************************************************************)
(* range(index of the host, n, number of hosts).                           *)
Loop(index, n, hosts) ==
  {i \in index..(n - 1) : (i - index) % hosts = 0}

CentralItems(n) ==
  {item \in CentralHosts \X (0..(n - 1)) :
     item[2] \in Loop(item[1][2], n, NCentralHosts)}
WorkerItems ==
  {item \in WorkerHosts \X (0..(NWorkers - 1)) :
     item[2] \in Loop(item[1][2], NWorkers, NWorkerHosts)}

(* `ovn_cluster.sh start` with IP_START: servers, and then relays, have    *)
(* consecutive addresses.                                                  *)
ZoneContainers(az, h) ==
  {Node(<<"ovn-central", az, i>>, h, 2 + az * NIps + i) :
     i \in 0..(NCentral - 1)}
  \cup {Node(<<"ovn-relay", az, i>>, h, 2 + az * NIps + NCentral + i) :
          i \in 0..(NRelays - 1)}

(* `ovn_cluster.sh add-chassis`.                                           *)
WorkerContainer(n, id, h) == Node(<<Prefix, 0, id>>, h, 2 + n * NIps + id)

Started(item) ==
  IF play = "central" THEN ZoneContainers(item[2], item[1])
  ELSE {WorkerContainer(NAz, item[2], item[1])}

-----------------------------------------------------------------------------
(***************************************************************************)
(* The tester: Cluster.__init__ of every zone, then its workers.           *)
(***************************************************************************)
CentralNodes(az) ==
  {Node(<<"ovn-central", az, i>>, CentralHost(az),
        2 + az * (NCentral + NRelays) + i) : i \in 0..(NCentral - 1)}
RelayNodes(az) ==
  {Node(<<"ovn-relay", az, i>>, CentralHost(az),
        2 + az * (NCentral + NRelays) + NCentral + i) : i \in 0..(NRelays - 1)}

(* OVNKubernetesCluster: a share of the workers for each zone.             *)
KubernetesWorkers(n, az) ==
  {Node(<<"ovn-scale", 0, id>>, WorkerHost(id),
        2 + n * (NCentral + NRelays) + id) : id \in WorkersOf(n, az)}

(* OpenStackCloud: every cloud takes all workers, and counts from its own  *)
(* servers and relays.                                                     *)
OpenStackWorkers ==
  {Node(<<"ovn-scale", 0, id>>, WorkerHost(id),
        2 + NCentral + NRelays + id) : id \in 0..(NWorkers - 1)}

ServersOf(n) == UNION {CentralNodes(az) \cup RelayNodes(az) : az \in 0..(n - 1)}
WorkerNodes(cms, n) ==
  IF cms = "openstack" THEN OpenStackWorkers
  ELSE UNION {KubernetesWorkers(n, az) : az \in 0..(n - 1)}

-----------------------------------------------------------------------------
DeployInit ==
  /\ config \in Configs /\ play = "over"
  /\ todo = {} /\ failedHosts = {} /\ containers = {} /\ runs = 0

(* The next run begins with a minimal redeploy: "old containers if any".   *)
RunTest ==
  /\ play = "over" /\ runs < MaxRuns
  /\ config' \in Configs
  /\ play' = "clean" /\ todo' = Hosts \X {0}
  /\ failedHosts' = {} /\ runs' = runs + 1
  /\ UNCHANGED containers

(* `ovn_cluster.sh stop` on a host; if it fails, containers may be left.   *)
Clean(item) ==
  /\ play = "clean" /\ item \in todo
  /\ LET old == {c \in containers : c.host = item[1]} IN
       \/ containers' = containers \ old /\ UNCHANGED failedHosts
       \/ /\ \E some \in SUBSET old : containers' = containers \ some
          /\ failedHosts' = failedHosts \cup {item[1]}
  /\ todo' = todo \ {item}
  /\ UNCHANGED <<config, play, runs>>

(* The next item of a host's loop; it may fail half-way, and does so where *)
(* a container has the name of one to be started.                          *)
Taken(h) == {c.name : c \in {c \in containers : c.host = h}}

Start(item) ==
  /\ play \in {"central", "worker"} /\ item \in todo
  /\ \A other \in todo : other[1] = item[1] => item[2] <= other[2]
  /\ LET new  == Started(item)
         free == {c \in new : c.name \notin Taken(item[1])}
     IN \/ /\ free = new
           /\ containers' = containers \cup new /\ UNCHANGED failedHosts
        \/ /\ \E some \in SUBSET free : containers' = containers \cup some
           /\ failedHosts' = failedHosts \cup {item[1]}
  /\ todo' = todo \ {item}
  /\ UNCHANGED <<config, play, runs>>

(* Mutant: without errexit, a clean-up that failed is not noticed.         *)
CleanedMutant == play = "clean" /\ todo = {}

(* errexit: a clean-up that failed ends the run.                           *)
Cleaned == play = "clean" /\ todo = {} /\ failedHosts = {}

PlayCentral ==
  /\ Cleaned
  /\ play' = "central" /\ todo' = CentralItems(NAz) /\ failedHosts' = {}
  /\ UNCHANGED <<config, containers, runs>>

(* The hosts that are left go on, unless none of a play's is.              *)
PlayWorkers ==
  /\ play = "central" /\ todo = {}
  /\ ~(CentralHosts \subseteq failedHosts)
  /\ play' = "worker" /\ todo' = WorkerItems
  /\ UNCHANGED <<config, failedHosts, containers, runs>>

(* The playbooks have succeeded on all hosts: the tester builds its        *)
(* clusters and runs.                                                      *)
TesterStarts ==
  /\ play = "worker" /\ todo = {} /\ failedHosts = {}
  /\ play' = "test"
  /\ UNCHANGED <<config, todo, failedHosts, containers, runs>>

(* The test ends; or the run dies of what has failed, or of a task that is *)
(* not modelled.                                                           *)
RunOver ==
  /\ play \in {"clean", "central", "worker", "test"} /\ todo = {}
  /\ play' = "over"
  /\ UNCHANGED <<config, todo, failedHosts, containers, runs>>

DeployNext ==
  \/ RunTest \/ PlayCentral \/ PlayWorkers \/ TesterStarts \/ RunOver
  \/ \E item \in todo : Clean(item) \/ Start(item)

DeploySpec == DeployInit /\ [][DeployNext]_deployVars

-----------------------------------------------------------------------------
Plays == {"over", "clean", "central", "worker", "test"}

DeployTypeOK ==
  /\ config \in Configs /\ play \in Plays
  /\ todo \subseteq Hosts \X Nat /\ failedHosts \subseteq Hosts

(***************************************************************************)
(* Whatever an earlier run has left and whatever has failed, when a test   *)
(* runs every node that the tester knows is a container of that name on    *)
(* the host and at the address it assumes, and no two containers have one  *)
(* address: the loops of the playbook, which are distributed over the      *)
(* hosts, and the tester's own arithmetic agree (ovn_kubernetes.py:371,    *)
(* ovn_workload.py:314, bringup-cluster.yml:64-106).                       *)
(*                                                                         *)
(* Except for the addresses of workers of several OpenStack clouds: the    *)
(* sum at openstack.py:115 leaves out n_az, so that they are too low by    *)
(* the servers and relays of all clouds but one.                           *)
(***************************************************************************)
TooLow(cms, n) == IF cms = "openstack" THEN (n - 1) * NIps ELSE 0

NodesAreWhereDeployed ==
  play = "test" =>
    /\ ServersOf(NAz) \subseteq containers
    /\ \A w \in WorkerNodes(config[1], NAz) :
         [w EXCEPT !.ip = @ + TooLow(config[1], NAz)] \in containers
    /\ \A c, d \in containers : c.ip = d.ip => c = d

=============================================================================
