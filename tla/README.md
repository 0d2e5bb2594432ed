# A TLA+ model of ovn-heater

ovn-heater deploys an OVN control plane on simulated chassis (containers made by
ovn-fake-multinode) and drives it with scale tests that play the part of a CMS,
OVN-Kubernetes or OpenStack. The tester is one Python thread. It is nevertheless
a participant in a distributed system: it writes databases that daemons on other
hosts translate, it executes commands through remote shells that time out while
their command may still run, and it keeps going after most failures, because a
failed operation is a measurement and not an error. A scale test whose barrier
does not wait, whose counts do not mean what the log says or whose leftovers
slow down the next iteration still produces numbers. The properties here are
about that: what the tester believes against what the system has done.

## Inventory

| Component | Code | State | Operations | What makes it correct | Module |
|---|---|---|---|---|---|
| Northbound synchronisation | `ovn_utils.py` NBTransaction, NBIdl, OvnNbctl.sync; `ovn_context.py` | `nb_cfg`, `sb_cfg`, `hv_cfg` of NB_Global; the transaction's next_cfg and deadline | increment and commit, poll, time out, raise | a sync that returns is a barrier; no earlier answer completes it | NbSync |
| Ports of a worker | `ovn_workload.py` ChassisNode; `ovn_utils.py` OvsVsctl; `ovn_sandbox.py` background processes | lports, background_processes; Northbound rows, br-int, namespaces and processes on the node | provision, bind, start, stop, unbind, unprovision | nothing leaks without a trace; what runs is tracked; what is provisioned is plumbed | PortLifecycle |
| Remote shell | `ovn_sandbox.py` SSH, Sandbox | channel; output read so far | ensure_channel, run, abandon | each call gets its own output and status, and ends unless its command keeps printing | RemoteCall, SandboxChannel; its outcomes in PortLifecycle |
| Load balancers | `ovn_load_balancer.py`; users in `ovn_kubernetes.py` | vips, lbs; rows per protocol, attachments | add, clear, destroy, backends, attach | rows follow the object | LoadBalancer |
| BGP test | `cms/openstack/tests/base_bgp.py` | projects, counts, VRF hosts and baselines; scripts on the chassis | batches, injection, waits | a wait that succeeds means what it measures | BgpBatches |
| do.sh, lock | `do.sh` | lock file, runtime directory | install, generate, init, refresh-tester, run | one invocation at a time | RunLock |
| do.sh run, deployment | `do.sh` run_test; `playbooks/deploy-minimal.yml`, `playbooks/bringup-cluster.yml`; nodes of a Cluster in `ovn_workload.py`, `ovn_kubernetes.py`, `openstack.py` | containers on the physical hosts; hosts on which something failed | remove old containers, start servers, relays and workers, run the tester | the tester finds every node where the playbook put it | Deployment |
| Namespaces and policies | `ovn_kubernetes.py` Namespace, netpol tests | ports, port groups, address sets, enforcing | add ports, enforce, sub-namespaces, VIPs, unprovision | membership follows the ports; rules name the right sets; VIPs are unique | Namespace |
| Kubernetes topology | `ovn_kubernetes.py` cluster, WorkerNode; `tests/base_cluster_bringup.py`, `tests/density_light.py` | switches, routers, routes, NAT, pods, addresses; settings of nodes | prepare, bring up a zone, provision a worker, its ports and load balancers, ping | addresses are unique; what is reported as done is reachable | ClusterBringup |
| OpenStack cloud | `openstack.py`, `tests/base_openstack.py` | projects, address pools, cycled nodes | external network, projects, internal networks, VMs, gateways, mesh of pings | addresses and chassis unique; gateways fail over; refusals leave nothing | OpenStackCloud |
| Advertised routes | `tests/advertised_route.py` | routes, listeners | distributed and monitor transitions, waits | expected counts are right and sampled coherently | listeners in PortLifecycle; planned |
| Context, statistics, external commands | `ovn_context.py`, `ovn_stats.py`, `ovn_ext_cmd.py` | iteration, failed, measurements | enter, iterate, record, leave | a failure reaches its own iteration; external commands run between iterations | TestContext, in ClusterBringup |
| UUID transactions | `ovn_utils.py` | row caches | retry with may_exist, execute with and without check_error | no duplicate rows; retries end | CommandScript, in OpenStackCloud and ClusterBringup |
| Address plan | `ovn_utils.py` DualStackSubnet; address arithmetic in `ovn_workload.py`, `ovn_kubernetes.py`, `openstack.py`; `playbooks/bringup-cluster.yml` | none | pure functions | no overlap; tester and playbook agree | AddressPlan, in ClusterBringup; management addresses in Deployment; VIP numbers in LoadBalancer |
| Process monitor, log collection | `process-monitor.py`, `log-collector.sh` | samples, exit file | sample, write, collect | the report is collected after it was written | planned |
| Installer, other playbooks, generators, miners | `do.sh`, playbooks, `utils/` | files on hosts | run once | | not modelled |

How they interact. Tests call operations of a cluster inside a `Context`, which
synchronises with the control plane when it is left. Operations reach the
Northbound and the chassis' OVS databases through ovsdbapp transactions, with or
without `check_error`, and the chassis itself through a `Sandbox`. `@timeit`
records a duration and swallows an OvnTestException (an SSHError is one), so
that the caller continues after the failed operation; any other exception, in
particular one of ovsdbapp, ends the run. Without `check_error` a failed
transaction is a line in the log.

What is hard here, and the source of the hazards in `PROJECT.json`:
answers that arrive after their timeout, commands that execute after theirs;
exceptions that stop an operation half-way while its caller continues; caches
next to rows that are written without checking; counts compared with other
counts taken at another time or place; deadlines that pass silently.

## Modules

Names of variables and actions follow the code; `pc` is where the single thread
of the tester is, with a record field for each local variable that matters.

### NbSync
The tester (`Configure`, `SyncCommit`, `SyncRaises`, `SyncCompletes`,
`SyncTimesOut`), ovn-northd and one ovn-controller per chassis. `nb` and `sb` are
snapshots [cfg, ver]: `nb_cfg` and the number of configuration transactions the
content reflects. northd and the controllers are not in the repository; they
take over a snapshot, write it and report, in separate steps that interleave
with everything. `PreCommit` is the reset and increment of `pre_commit`,
`NbHasCompleted` the comparison with `sb_cfg` or the minimum of both columns.
`post_commit` only logs a timeout, so a timed-out transaction returns like a
completed one and its answer may arrive during the next.

`txn.cover` and `txn.target` are history: who was registered and what was
committed at the increment. The barrier is stated in terms of them.

### PortLifecycle
One worker. State in four places: the Northbound rows, the interfaces on br-int,
`node` (namespaces, live processes, pid files) and the tester's books (`lports`,
`tracked`). Each remote command is one of `Executes`, `TimesOut` (the shell is
abandoned, the command may be in `late` and execute at any later moment) and
`NoShell` (ensure_channel's own check failed, and raised). `reported` are ports
with a failed measurement, `logged` ports with a logged error.

### RemoteCall and SandboxChannel
RemoteCall is what a caller of `Sandbox.run` may rely on: the command executes at
most once, perhaps late, and the answer is that of this command or says that there
is none (`Unsent`, timed out, `Unreadable`). SandboxChannel is the code: a channel
that is opened when there is none (`OpenShell`), the two markers and the command
typed into it (`SendCommand`), `Recv` until the end marker, `Parse`, and `TimesOut`,
which abandons the channel. A remote shell has its own lines to execute (`todo`,
`step`) and `bytes` not yet received; it goes on after it was abandoned until it
is hung up (`HangUp`). The time-out is one of each recv: it passes only while nothing
has arrived, and a command that goes on printing (`Trickle`) keeps it from passing. One
token stands for all the text a command has printed; that there is more of it is
remembered in `more`. `ImplementsRemoteCall` is the refinement, by an instance of
RemoteCall over the same variables.

### CommandScript
What OpenStackCloud and ClusterBringup share: an operation is a script (`todo`) of
commands, each with the row or column it writes, the objects it refers to, and
what its failure means: `"retry"` for uuid_transaction, `"log"` for execute() without
check_error, `"measure"` for what timeit catches, `"raise"` for what nothing does, and
`"lose"` for db_create_transaction, whose retry is never reached
(`ovn_utils.py:449`). A command can fail before or after it took effect (`Fails`), and
always fails when what it refers to is missing (`Refused`). The database is one
set of rows in order of creation (`db`); what went wrong is in `logged` or `measured`.

### OpenStackCloud
`NewExternalNetwork`, `NewProject`, `AddVm` or `RefuseVm`, and `MeshPing`; each begins a
script with the commands of the Python method in its order, which `Work` executes.
`used` is a network's pool of addresses, an iterator that ends: `AddVm` takes the
next address before any row is made, so that `RefuseVm` makes none. `turn` is the
cycle over nodes that all projects share. Gateway chassis are any sample.

### AddressPlan, TestContext and ClusterBringup
AddressPlan is arithmetic: subnets, the workers of a zone and the
distribution of tasks. TestContext is Context and ovn_stats: `Conclude` and
`NextIteration` are the two halves of `__next__`, between which external commands
run; `AddFailure` is what timeit does with an exception. ClusterBringup is the
program: prepare_test, base_cluster_bringup of each zone, and density_light, as a
sequence of contexts (`at`), in each of which the stages (`stage`) of the protocol
of a Context follow one another: `Enter`, `Top`, `Iterate`, `StopIteration`, `Leave`.
Their scripts have the commands of the Python methods in the same order. What
packets do is not in the repository: `PathIn` and `IcPathIn` say which rows a ping
needs, from the pod to the external host and back or to another zone, and a ping
whose path is incomplete times out. A network is a tag of its own: that one series of
networks does not run into the next, as it would with the default /16 series of nodes
beyond 1024 workers, is not represented.

### Deployment
Runs of do.sh one after the other on the same hosts (`RunTest`). Ansible runs a task on
all hosts in parallel and then the next: `todo` has the items of each host's loop,
`failedHosts` the hosts that take no further part. `Clean` stops the containers of the
last run on a host (that `ovn_cluster.sh stop` stops all of them when it succeeds is
assumed, it is not in the repository), `Start` is an item of one of the two loops of
bringup-cluster.yml, and each may fail half-way; podman refuses a name that is taken.
`Cleaned` is errexit, `TesterStarts` the check of the playbook's status. `ServersOf` is
what Cluster.__init__ computes, `WorkerNodes` what the two add_cluster_worker_nodes do: host,
name and address of each node, for OVN-Kubernetes and for OpenStack, which differ by
`TooLow`.

### LoadBalancer
`vips` and `lbs` of one OvnLoadBalancer against `rows`. A VIP is its host number,
a list of backends the set of its members, a worker's ports one backend.
add_vips is a loop over batches (`Batch`) of a loop over rows (`SetVips`), each
write a transaction that may fail silently, committed or not (`Writes`,
`doubtful`). `Merged` is what a db_set of a map does to a map column.

### BgpBatches
BaseBgp.run on one cloud: `CreateProjects`, `InjectRoutes`/`HostNotFound` per
project and the wait for learned routes of each batch, then `TakeSnapshot` per
project, `AddStaticRoutes` and the wait for each VRF. `InjectRoutes` starts the script on
a chassis and goes on, as the call does after its time-out; the script adds its routes
one by one (`AddRoute`), at once, late, some of them or none. `Readings` are what a count
can return: all the routes of the VRF, whoever caused them (static, injected, and the
connected and default ones of `OtherRouteAppears`), or fewer if the command timed out.
The wait for learned routes times out only while its condition is false
(`LearnTimesOut`), because its loop tests it first; that for static routes also if the
counts were read short (`InstallTimesOut`). ovn-controller creates and moves devices,
learns and installs single routes at any moment; `GwChassis` are the chassis to which the
gateway port of a VRF can go.

### Namespace
The namespaces of OVN-Kubernetes over one Northbound per zone. `member` is one
relation between the rows of all port groups and address sets and the ports in
them, so that a write is a set of pairs of which `Adds` may lose some (`lost`).
`Create`, `AddPorts`, `UnprovisionPorts`, `Unprovision`, `Policy` (default_deny,
allow_within_namespace and allow_from_external differ only in the groups their ACLs
are attached to), `CreateSubNs`, `AllowSubNs` and `ProvisionVips` are the operations,
each synchronous and hence one step; what interleaves is their order, over
namespaces and zones, as far as the tests' own order leaves it open.
`Unprovision` goes as far as the code does: it raises an AttributeError
(`ovn_kubernetes.py:106`) and the run ends (`failed`), like `AllowSubNs` with an empty
label (`netpol.py:69`).

### RunLock
Invocations of do.sh: `OpenFile`, `Flock` or `Refused`, `SetTrap`, `ExitTrap`, `Exit`,
`Killed`. flock locks a file and not a path, so files are numbered in order of
creation and `path` names one of them or none. Children of the shell inherit
descriptor 42 and can prolong the lock after a kill; this is left out. The names
that NbSync has too begin with `Lock`, as one module of proofs extends both.

Each module has an `MC` module (instances and symmetry sets) and one or more
configurations. Definitions whose names end in `Mutant`, or that a comment calls a
mutant, are plausible bugs of the definition they precede; nothing refers to
them, and each breaks one of the properties.

## Runs

| Configuration | Bounds | Shows |
|---|---|---|
| MCNbSync | 2 chassis, `nb_cfg` wraps at 2, 1 configuration transaction | barrier for chassis and Southbound, and that a sync never starts complete, from every initial `nb_cfg`; every wait ends |
| MCPortLifecycle | 2 active ports, 1 passive, 2 processes | leaks are reported, processes tracked, ports plumbed |
| MCLoadBalancer | 2 protocols, 2 workers, 2 configured of 3 static VIPs, batches of 2, at most 5 VIPs, 2 silent failures | rows follow the object; unprovisioning, attaching, destroying |
| MCBgpBatches | 3 projects in batches of 2; 1 injected and 1 static route per VRF; 2 chassis, of which the gateway of the last VRF may be on both, and 1 other route in this VRF | batches cover the projects; the first wait means that its batch's routes are learned; a wait for static routes is right unless something disturbed the counts; the run ends |
| MCNamespace | 2 namespaces, 2 zones, 2 ports, IPv4, 2 sub-namespaces, 1 lost write | policies apply to the namespace's ports and to no others; addresses reach all zones; rules name their sets; VIPs are unique |
| MCRunLock | 4 invocations | exclusion until the first exit; no stale file |
| MCRunLockOverlap | 3 invocations | *violated*: one at a time |
| MCSandboxChannel | 3 calls, whose commands fail, are checked or leave their output unterminated in all combinations that differ; 3 shells | a call reads its own output; it ends while the connection is up, unless its command keeps printing; the code implements the abstract call |
| MCSandboxChannelTrickle | the same | *violated*: every call ends while the connection is up |
| MCOpenStackCloud | 2 projects of 3 VMs, networks of 4 or 5 addresses, 2 nodes, 3 gateways asked for, 2 attempts, 1 spurious failure | unique addresses, connected VMs, gateways that fail over, balanced placement, no duplicates, a complete mesh; every operation ends |
| MCClusterBringup | 1 to 3 zones of 3 workers, 3 servers and 1 relay each, 1 pod per node, 4 pods of density_light of which 1 at start-up, 2 attempts, 1 spurious failure | unique addresses, success means reachable, verdicts and external commands in order, as many pods as configured; the run ends |
| MCDeployment | 2 runs, each of 1 or 2 zones of OVN-Kubernetes or OpenStack; 2 central and 2 worker hosts, 1 server and 1 relay per zone, 3 workers | when a test runs, every node is where the tester expects it, but for what openstack.py leaves out of the addresses of workers; no address is given twice |

Why the bounds are enough. Two chassis make the minimum in `hv_cfg` differ from
either; a wrap at 2 lets a sync overlap the late answer of an earlier one and
the reset. Two ports are needed for a late command of one to meet an operation on
another; two processes, for a kill to fail after another succeeded or before one
remains. Three static VIPs in batches of two are the smallest uneven batches, and
two protocols the smallest number of rows that can differ. Two failures can hit
both rows or the same row twice. Three invocations are the fewest for the lock's
race, four let a fourth be refused meanwhile.

In ClusterBringup, three workers are divided by one and by three zones and not by
two, and one to three zones get one to three of the tasks. A spurious failure can hit
any one command, and what depends on it fails
in turn; a second one would hit a command of its own. In OpenStackCloud, networks
of four addresses run out of them before the third VM of a project and those of
five do not, and two nodes are fewer than the gateways asked for. Its failed pings and
paths need a pod on each node: with `n_pods_per_node: 0` there is none to speak of.

In BgpBatches, three projects in batches of two make an uneven last batch. With all
that can disturb a count, routes, devices and readings, this leaves room for one
route of each kind: part of a batch's routes can be late or missing, but not part of
one script's. The theorems about the waits have no such bound. Only the last VRF, which
is alone in its batch, has a gateway that moves and another route; the VRFs of a batch
are visited one by one, and what disturbs one does not concern the others. In Deployment,
two runs let the first leave
containers behind, two hosts of a kind make loops that interleave and share, and
three workers on two of them a loop of two items; a zone has one server and one
relay, since an address is what matters and not the number.

In Namespace, two
ports let one be added before and one after the first policy, or in different
zones; two namespaces let one provision VIPs before the other exists, and make
labels of ports of another namespace; a rule needs two sub-namespaces. More ports
or failures only repeat a write, whose pairs are independent.

Deadlock is not checked (`CHECK_DEADLOCK FALSE`) where the system may stop: the
test has ended or its run was aborted, or a bound (versions, ports, invocations,
each started once) is used up. In NbSync the daemons' idle steps are stutters.

Fairness. NbSync: the daemons keep running (weak fairness of each of their steps)
and do_post_commit polls whenever its IDL changes (of `SyncCompletes`); timeouts,
configuration and registration are never obliged to happen. BgpBatches: only the
tester's own steps, nothing of the scripts and the controllers; the deadlines bound its
loops.
SandboxChannel: the tester's `Recv`, `Parse` or `TimesOut`, since paramiko's recv returns
or times out; nothing of the remote shell. `CallEnds` is claimed while the connection is
up, and of commands that do not print for ever, only. OpenStackCloud: the execution of
a script that was begun
and its end; whether another operation follows is the test's affair.
ClusterBringup: the whole next-state relation, as it is one thread. The loops of these
three have deadlines or a number of attempts, but not every remote call has: one
does not end if its connection is closed or its command keeps printing, see
SandboxChannel. `RunEnds` of BgpBatches and ClusterBringup and `OperationsEnd` of
OpenStackCloud therefore assume that each remote call ends. The other modules have safety
properties only.

## What the violated runs say

- **Two invocations of do.sh can overlap** once a third has ended, because its
  trap unlinks the lock file while the lock is held (`do.sh:475`). What does hold
  is `OneRunUntilAnExit`.
- **A command that keeps printing never times out**: the timeout of a call is set on
  its channel and begins anew with each recv (`ovn_sandbox.py:108`). `CallEnds` is
  what holds, for commands that print only so much.

## Where the code falls short of what it seems to promise

These are exceptions in the wording of a property, or the reason why one is not
checked; the modules have the code as it is.

- **The wait of a second BGP batch can end before any of its routes is learned**: it
  expects the routes of one batch (`base_bgp.py:236`) and counts those of all
  (`base_bgp.py:48`). `FirstWaitCoversBatch` is about the first batch, which is the
  only one with the default `batch_size: 0`.
- **The wait for static routes can be ended by other routes**: it compares numbers of
  routes of any kind, on any chassis, with a baseline that was read on one
  (`base_bgp.py:139`). `Undisturbed` names all the ways in which this can happen, on a
  second chassis with the device, after a baseline read short, or by routes that are
  no static ones of this batch and appear after the baseline was read; otherwise
  the wait is right (`UndisturbedWaitIsRight`).
- **With several OpenStack clouds the tester gives workers the addresses of other
  clouds' servers**: the sum at `openstack.py:115` leaves out the factor `n_az` of the
  playbook (`bringup-cluster.yml:94`). `NodesAreWhereDeployed` has this difference,
  `TooLow`, and shows that there is no other.
- **With a prefix of its own no worker is found**: the tester hard-codes the names that
  the playbook makes of the prefix (`ovn_kubernetes.py:387`; `README.md:125` of the
  repository allows any). `Prefix` is a constant, and the theorem has the hypothesis
  that it is `ovn-scale`.
- **A worker's ports do not become backends of every VIP.** provision_load_balancers
  passes a generator that the first VIP of the loop exhausts
  (`ovn_kubernetes.py:614`). `AddBackendsToVip` does the same; no property is about it.
- **With both address families the rules of netpol name the wrong sets**:
  create_sub_ns returns a number of port groups, and allow_sub_namespace uses it as
  an index into a list with two sets per sub-namespace (`ovn_kubernetes.py:249`).
  `SubPoliciesNameTheirSets` is checked, and proved, with one family.

## Proofs

All for any value of the constants, under the named assumptions of the modules.

`RunAndBarrierProofs`, what surrounds a test. Of
NbSync: `TypeCorrect`, `HvSyncIsBarrier`, `SyncIsSouthboundBarrier`,
`SyncNeverStartsComplete`. The barrier alone is not inductive: it speaks of the
moment a transaction ends, and says nothing of the values on their way. `IInv` adds
that the `nb_cfg` values trail one another along the path nb, snapshot, sb, flows,
published (`CfgsTrail`), that contents do, too (`VersTrail`), and that while the
transaction waits, whatever carries the awaited value carries the content that
preceded it (`AnswerCarriesTarget`). The first and the last are claimed only until
`nb_cfg` wraps. Assumptions: `CfgMax` and `MaxVer` natural, `NoSnap` no snapshot.
Of RunLock: `LockTypeCorrect`, `RunsExcludeUntilAnExit`, `LockFileIsRemoved`.
`LockIInv` adds that a file has at most one holder, that an exiting run's file is
no longer the one the path names, and that before the first exit all open
descriptors are on the path's file. The numbering of files is what tells an
unlinked file from a later one.
Of Deployment: `TesterAndPlaybookAgree`, that `NodesAreWhereDeployed` holds in all runs,
for any numbers of hosts, servers, relays, workers, zones and runs of either CMS, if the
prefix is the one in the tester's text.
`DeployInv` says of each play that the containers are some of those the loops make of
this configuration (`Deployed`), and that, as long as nothing has failed, those of every
item that is no longer to be done are there; of the clean-up, that what is left on a
host is still to be cleaned or has failed (`CleanInv`). So a test begins with exactly
`Deployed`. That the loops, which skip from one number of a host to the next, reach each zone
and worker once and on the host the tester computes is an argument on remainders
(`LoopIs`); that no address is given twice, one on blocks of addresses (`PlacesAreUnique`).

`PortLifecycleProofs`: `TypeCorrect`, from lemmas on what a remote call can do to
the node and on the records of `pc`, then `LeaksAreReported`,
`ProcessesStayTracked`, `PortsStayPlumbed`. The three speak of the moments between
operations; `IInv` says what each step of an operation leaves to the next one.
What it adds is that a command that may still be executed late starts nothing, and
if it makes or deletes a namespace is in the log already (`LateIsLogged`), that a running process is tracked, reported, or the
one that stop is about to kill (`ProcessesKnown`), and that while a port is
stopped or unbound nothing is tracked for it any more, so that forgetting it loses
no process.

`SandboxChannelProofs`: `TypeCorrect`, `OutputIsOfTheCommand`, `ShellIsARemoteCall`.
That an answer belongs to its command depends on everything that is still in
the stream. `IInv` describes the stream: what was received since the call began and
what the shell has printed but not delivered (`Stream`) is some prompts of earlier
lines followed by a beginning of the output of the line being read, and the
shell stands at the end of that beginning as long as it is connected
(`StreamAgrees`). This holds because a shell owes nothing but a prompt when the next line
is typed into it (`IdleAgrees`, `ShellsAgree`), and a shell that owes more has been
abandoned. The refinement is proved action by action: each step of the code is a
step of RemoteCall or a stutter, and `Parse` is the step that answers.

`LoadBalancerProofs`: `TypeCorrect`, `RowsFollowTheObject`, `ClearingIsComplete`,
`AddressesOfVipsAreNew`, for any numbers of VIPs, batches and failures. The rows
lag behind the object while a batch is written: `RowsKnown` allows a difference
only where the loop over rows has still to come or a failure is in the log;
`AttachKnown` and `DestroyKnown` say the same of the two other loops, and
`StaticKnown` of the static VIPs, which are added empty and get their backends
later. `PcAgrees` says that what is left of an addition continues the numbers the
object has or starts over. Assumption: the external host and the two marks of
a pending update are no workers (`NamesAssumption`).

`BgpBatchesProofs`: `EveryProjectIsInABatch`, `FirstWaitIsRight` and
`WaitsAreRightIfUndisturbed`, for any numbers of projects, routes and chassis, any batch
size, devices on any chassis, and scripts that are late or stop. `IInv` ties the number of
projects to the place in the loops (`PhaseAgrees`) and says that nothing was injected
for, or learned by, projects that do not exist (`OnlyCreated`), without which the routes
counted by the first wait could be others'. The third needs that a wait is for
VRFs whose snapshot has been taken (`SnapshotAgrees`) and that routes never go, so that
what ended the wait still holds when it is left (`StillEnough`).

`NamespaceProofs`: `TypeCorrect`, `PoliciesApply`, `GroupsHoldOwnPorts`,
`VipsAreDisjoint`, `SubPoliciesInSingleStack`, `AddressesAreEverywhere`. `IInv` says of all groups of an
enforcing namespace what `PoliciesApplyToPorts` says of those with ACLs
(`EnforcedAreInGroups`), since the next policy may attach an ACL to any of them; it
does so until the run fails, because `Unprovision` then removes groups whose ports
it may have failed to delete. For the VIPs, `VipsTrail` orders subnets: those of all
namespaces but the last are below the counter. For the rules, `HandlesMatch` ties
the two lists create_sub_ns extends. No bound on anything is used but that `MaxSubs`
limits the numbers of sub-namespaces. For the addresses, `AddressesHeld` restates
the property in pairs of an address set's row and an address, which is what a
write adds or loses; the steps that remove pairs remove them from groups only
(`unprovision_ports`), or the rows they remove are no address sets.

`OpenStackCloudProofs`: `AddressesStayUnique`, `VmsStayConnected`, `LoadIsShared`,
`NothingIsTooMuch`, for any numbers of projects, VMs, nodes, addresses of a network,
attempts and spurious failures. `IInv` has a conjunct for each of the things they
rest on. The tester's books (`BooksAgree`): project p has network p, its VMs are
numbered in order, and the pool of its network has given out an address for
each of them and no other; so an address tells whose it is. The script
(`ScriptAgrees`): its commands are about what is being made and no two write the
same row; those of a VM begin with its port. The rows (`RowsAgree`): each is one that
this plan has (`Planned`), and what is about a VM's port is there only if the port
is (`Backed`). `OnceOnly`, no row twice, needs an argument about names: the name of a
port is made of six digits of its project's uuid (the model's tag, new or that of an
earlier project) and the VM's number, and a port that is added under a name another
switch has is refused.
Hence what is still to be written is not there yet (`Fresh`), or nothing
more will be written because the first command will be refused (`Doomed`).
`NeedsMet` says of a listed project and VM that each command it needs has left its
row, a line in the log or a failed measurement (`Ensured`), and of what is being
made that each is still to come or is ensured (`Tracked`); `GatewaysKnown`, that the
gateways of a router, written, logged or still to be written, are one of the
samples that could be drawn; `Balanced`, that the nodes before the next one have one
VM more than the others. Assumptions: networks have more than one address
(`HostsAssumption`), a transaction is tried at least once (`RetryAssumption`), the numbers
are natural (`NumbersAssumption`) and there is a node (`WorkersAssumption`).

`ClusterBringupProofs`: `VerdictsAreRight`,
`AddressesUniqueWhilePodsFit`, `ReportsAreRight`, `ConfigurationIsFollowed`. The first
needs `VerdictInv`, which relates the verdicts to the stage of the context: while an
iteration runs, no verdict on it exists and the context's `failed` is whether it has
a failed measurement; in the other stages `failed` must not be set, which is so
because the scripts of these stages (external commands, load balancer group,
synchronisation, what a test does between contexts) have no command that fails as
a measurement (`QuietScripts`). A command executed there under timeit would be
attributed to the wrong iteration, and the proof would fail at that lemma.

The second is `Spec => [](PodsFit => AddressesAreUnique)`. The networks of workers
have a size and the code takes the addresses of ports by number, without asking
whether they are still in the network or are those of its router; `PodsFit` says
that the ports a worker has so far leave its router's address free, for which the
default /16 is enough (`translate_yaml.py:103`). It is a condition on the state and not on
the constants, since the program decides how many ports a worker gets. The
invariant, `AddressInv`, is that each address in a row, or in a command still to be
executed, is one that the plan has for this interface; an address of the plan
tells whose it is (`Holder`), and so two interfaces cannot share one. `StageInv`
says where the program is, and which workers and ports its scripts can name.

The third takes two invariants. `TrackInv`: of every script that a path consists of
(the node's configuration, the join switch of its zone, the worker, the port and
its binding), each command is still to be executed, or has left its row, or its
failure is in the log or a measurement. Between scripts there is nothing to be
executed, and `TracksReachOutside` collects the rows of a path from the scripts that
make them. `PingInv`: during the bring-up of a worker each ping is still to come, has
found its path, or has failed the iteration; a ping of a later iteration is not
measured yet, which excludes that a failure that was measured before hides
a new one. `PlaceInv` has the place of an iteration: the workers before it are
brought up and those after it have no ports.

The fourth is `Feasible => (Spec => []RunIsAsConfigured)`. `Feasible` is what the
configuration must be for the program to be able to follow it: density_light makes
no fewer pods than it starts with, and no external command belongs to an iteration
before -1, which is where a Context begins. Neither is checked by the program, which
takes both from a file; with fewer pods than started ones its loop does not run and
more pods exist than were asked for. `ScriptInv` has the commands: of the known kinds,
and none an external one, but in the stage where those are executed. `LoopInv`
has the length of each loop, `ExtInv` says that the external command of an iteration
was begun if and only if there is a verdict on the iteration, which puts it
between that verdict and the next, and `CountInv` counts ports: so far, `NPods` for each
worker that is brought up and one for each pod of density_light. The pods of
start-up are shared out over the zones before they are made, so the count needs
that the shares add up to all of them (`SharesAddUp`, `HandedOut`).

Only model-checked: liveness (`SyncReturns`, `RunEnds`, `CallEnds`, `OperationsEnd`),
which needs fairness and ENABLED and is beyond the prover. Every invariant and
every property of a step that a passing run checks is proved, where a hypothesis is
stated above under that hypothesis.

Scripts are concatenated with FlattenSeq of
the community modules, a recursive function; that there is a function with its
equation, and that the commands of the result are those of its parts, is proved
by least counterexamples (`FlattenDefined`, `ListFlatten`), from the well-ordering of
the naturals, since the induction theorems of the library cannot be used here.

## Plan

In the order in which they will be written:

1. *AdvertisedRoute*: transitions against northd, monitors and controllers, with
   the expected counts checked against the rows they count.
2. *ProcessMonitor*: sampling, exit file and collector.
3. An abstract barrier, with NbSync shown to implement it.

## Not modelled

Generators and log miners, and the installer: each runs once, from files to files;
of the playbooks only the removal and start of the containers, of do.sh only that and
its lock. The parsing of the configuration, TLS and logging. Of the Kubernetes tests,
density_heavy, cluster_density and service_route as programs (their operations are
in the models of the components they use), the clean-up of density_light, and the
transitions of advertised_route. Statistics, charts and reports. OVN itself, beyond
what the waits and the pings of the tester rely on.

What the code does there that a reader should know of, although no property is
about it: timeit counts an exception that is no OvnTestException as a success of
the measured call, in a report that is still written (`ovn_stats.py:23`); the report
of one zone's bring-up overwrites that of the zone before it (`ovn_stats.py:92`);
address_set_del, address_set_remove and address_set_add build a command that is
never executed (`ovn_utils.py:710`); service_route numbers the load balancers of its
nodes so that two iterations meet with more workers than load balancers
(`service_route.py:80`); podman exec can fail after the shell of its host has
opened, which then answers in the container's place (`ovn_sandbox.py:79`).
