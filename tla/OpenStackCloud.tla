---------------------------- MODULE OpenStackCloud ----------------------------
(***************************************************************************)
(* An OpenStack cloud as BaseOpenstack provisions it: an external network, *)
(* then projects (a router with gateway chassis, an internal network with  *)
(* metadata port, security group, DHCP options and SNAT), then VMs on the  *)
(* compute nodes in turn, and at last a ping from every VM of a project to *)
(* every other.                                                            *)
(*                                                                         *)
(* Python computes the names and addresses; each operation then executes a *)
(* script of commands, which CommandScript says how to execute.            *)
(***************************************************************************)
EXTENDS CommandScript, FiniteSets

CONSTANTS
  NWorkers,          \* compute nodes, all of them possible gateways
  NProjects,         \* config.n_projects
  NVms,              \* config.n_vms_per_project
  NGateways,         \* config.n_chassis_per_gw_lrp
  MaxGwPerRouter,    \* 5 in the code
  HostCounts,        \* usable addresses of a network, by configuration
  NameRoom           \* VM indices that fit a port name, 100000 in the code

ASSUME WorkersAssumption == NWorkers \in Nat \ {0}
ASSUME HostsAssumption   == HostCounts \subseteq Nat \ {0, 1}
ASSUME NumbersAssumption ==
  /\ NProjects \in Nat /\ NVms \in Nat /\ NameRoom \in Nat
  /\ NGateways \in Nat /\ MaxGwPerRouter \in Nat

VARIABLES
  hosts,     \* the configuration's usable addresses of a network
  making,    \* the network, project or VM that exists once todo is done
  projects,  \* OpenStackCloud._projects
  used,      \* addresses taken from each network's pool, by network number
  turn,      \* where the cycle over the compute nodes stands
  pinged     \* pairs of VMs the mesh has pinged

cloud == <<hosts, making, projects, used, turn, pinged>>
vars  == <<script, cloud>>

(***************************************************************************)
(* Objects and values.  Networks are numbered by _int_net_offset, in the   *)
(* order of their creation: 0 is the external one.                         *)
(***************************************************************************)
Router(p)    == <<"router", p, 0>>
Switch(n)    == <<"switch", n, 0>>
Metadata(n)  == <<"metadata", n, 0>>
Provider(n)  == <<"provnet", n, 0>>
Lrp(p, n)    == <<"lrp", p, n>>
Lsp(p, n)    == <<"lsp", p, n>>
Vm(tag, i)   == <<"vm", tag, i>>
Group(n)     == <<"pg", n, 0>>
Dhcp(n)      == <<"dhcp", n, 0>>
Ip(n, h)     == <<"ip", n, h>>
ExtIp(k)     == <<"external_net", k, 0>>
Chassis(w)   == <<"chassis", w, 0>>
Gw(w, prio)  == <<"gw", w, prio>>

Gateway == 1             \* NeutronNetwork.gateway: the pool's first address

-----------------------------------------------------------------------------
(***************************************************************************)
(* The scripts, one operator per method.                                   *)
(***************************************************************************)
CreateProjectNet(n) == <<LsAdd(Switch(n))>>

CreateProjectRouter(p) == <<LrAdd(Router(p)), LrSetOptions(Router(p), None)>>

AddMetadataPort(n) ==
  <<LsPortAdd(Metadata(n), Switch(n), None), LsPortSetType(Metadata(n)),
    LsPortEnable(Metadata(n))>>

AddProviderPort(n) ==
  <<LsPortAdd(Provider(n), Switch(n), None), LsPortSetType(Provider(n)),
    LsPortSetOptions(Provider(n), None)>>

AddRouterPort(p, n, ip, isGw) ==
  <<LrPortAdd(Lrp(p, n), Router(p), ip), LsPortAdd(Lsp(p, n), Switch(n), None),
    LsPortEnable(Lsp(p, n))>>
  \o IF isGw THEN <<LsPortSetOptions(Lsp(p, n), Lrp(p, n))>> ELSE <<>>

(* The external port's address is next_external_ip, the default route goes *)
(* through it, and the chassis of the sample get priorities from 1 on.     *)
ConnectExternalNetwork(p, sample) ==
  AddRouterPort(p, 0, ExtIp(p), TRUE)
  \o <<RouteAdd(Router(p), "route", ExtIp(p))>>
  \o [k \in DOMAIN sample |-> LrPortSetGwChassis(Lrp(p, 0), Gw(sample[k], k))]

CreateDefaultSecurityGroup(n) ==
  <<PortGroupCreate(Group(n))>>
  \o [k \in 1..4 |-> AclAdd(Group(n), <<"rule", k, 0>>)]

AddNetworkSubnet(n) ==
  <<CreateDhcpOptions(Dhcp(n)), DhcpOptionsSetOptions(Dhcp(n), Ip(n, Gateway))>>

(* The metadata port is the only one the network has at that moment.       *)
AssignPortIps(n) == <<LsPortSetIpv4Address(Metadata(n), Ip(n, Gateway + 1))>>

(* Mutant: the router's port takes a fresh address instead of the gateway. *)
AddRouterPortInternalMutant(p, n) ==
  AddRouterPort(p, n, Ip(n, Gateway + 2), FALSE)

AddRouterPortInternal(p, n) == AddRouterPort(p, n, Ip(n, Gateway), FALSE)

AddInternalNetwork(p, n) ==
  CreateProjectNet(n) \o AddMetadataPort(n) \o CreateDefaultSecurityGroup(n)
  \o AddNetworkSubnet(n) \o AssignPortIps(n) \o AddRouterPortInternal(p, n)
  \o <<NatAdd(Router(p), Switch(n))>>

AddVmPort(n, vm, host, w) ==
  <<LsPortAdd(vm, Switch(n), Ip(n, host)), LsPortSetOptions(vm, Chassis(w)),
    LsPortEnable(vm), PortGroupAddPorts(Group(n), vm)>>

-----------------------------------------------------------------------------
(***************************************************************************)
(* The operations, in the order of BaseOpenstack.run.                      *)
(***************************************************************************)
Nothing == [what |-> "nothing"]

Init ==
  /\ ScriptInit
  /\ hosts \in HostCounts
  /\ making = Nothing
  /\ projects = <<>> /\ used = <<>> /\ turn = 1
  /\ pinged = {}

Starts(cmds, what) ==
  /\ Begin(cmds)
  /\ making' = what
  /\ UNCHANGED <<hosts, projects, pinged>>

(* used[n + 1] addresses of network n are taken: at first its gateway.     *)
NewExternalNetwork ==
  /\ used = <<>>
  /\ used' = <<1>>
  /\ Starts(CreateProjectNet(0) \o AddMetadataPort(0) \o AddProviderPort(0),
            [what |-> "network"])
  /\ UNCHANGED turn

Least(a, b) == IF a < b THEN a ELSE b

(* _get_gateway_chassis: a random sample of at most MaxGwPerRouter.        *)
GatewayChassis ==
  {s \in [1..Least(Least(NGateways, NWorkers), MaxGwPerRouter) -> 1..NWorkers] :
     IsInjective(s)}

(* Its VMs' names have six digits of its uuid, which are a new tag or that  *)
(* of an earlier project.  Gateway and metadata port have taken two        *)
(* addresses when it is done.                                              *)
NewProject(tag, sample) ==
  LET p == Len(projects) + 1  n == Len(used) IN
    /\ used # <<>> /\ p <= NProjects
    /\ used' = Append(used, 2)
    /\ Starts(CreateProjectRouter(p) \o ConnectExternalNetwork(p, sample)
                \o AddInternalNetwork(p, n),
              [what |-> "project", tag |-> tag, net |-> n])
    /\ UNCHANGED turn

(* The first project that has not got all its VMs, once all exist.         *)
Filling(p) ==
  /\ pc = "idle" /\ Len(projects) = NProjects
  /\ Len(projects[p].vms) < NVms
  /\ \A q \in 1..(p - 1) : Len(projects[q].vms) = NVms

(* Mutant: the pool's address is read and not taken.                       *)
NextHostIpMutant(n) == used[n + 1]

NextHostIp(n) == used[n + 1] + 1

(* Mutant: the cycle does not advance.                                     *)
NextTurnStuck == turn

(* select_worker_for_port: the cycle is shared by all projects.            *)
NextTurn == (turn % NWorkers) + 1

AddVm(p) ==
  LET n    == projects[p].net
      host == NextHostIp(n)
      i    == Len(projects[p].vms)
      vm   == Vm(projects[p].tag, i)
  IN /\ Filling(p)
     /\ i < NameRoom /\ host <= hosts
     /\ turn' = NextTurn
     /\ used' = [used EXCEPT ![n + 1] = host]
     /\ Starts(AddVmPort(n, vm, host, turn)
                 \o BindPort(vm, Chassis(turn), Ip(n, Gateway)),
               [what |-> "vm", of |-> p, port |-> vm, host |-> host,
                on |-> turn])

(* The name is too long (RuntimeError) or the pool empty (StopIteration).  *)
RefuseVm(p) ==
  LET proj == projects[p]  i == Len(proj.vms) IN
    /\ Filling(p)
    /\ i >= NameRoom \/ NextHostIp(proj.net) > hosts
    /\ pc' = "refused"
    /\ UNCHANGED <<db, todo, attempts, logged, measured, faults, cloud>>

Work == Execute /\ UNCHANGED cloud

(* Projects and VMs are listed when their scripts are done.                *)
Finish ==
  /\ End
  /\ projects' =
       CASE making.what = "network" -> projects
         [] making.what = "project" ->
              Append(projects, [tag |-> making.tag, net |-> making.net,
                                vms |-> <<>>])
         [] making.what = "vm" ->
              [projects EXCEPT ![making.of].vms =
                 Append(@, [port |-> making.port, host |-> making.host,
                            on |-> making.on])]
  /\ making' = Nothing
  /\ UNCHANGED <<hosts, used, turn, pinged>>

(* mesh_ping_ports tells ports apart by their addresses; a ping that fails *)
(* is a failed measurement and the next one follows.                       *)
MeshPing ==
  /\ pc = "idle" /\ Len(projects) = NProjects
  /\ \A p \in 1..NProjects : Len(projects[p].vms) = NVms
  /\ pinged' = {pair \in (1..NProjects) \X (1..NVms) \X (1..NVms) :
                  LET vms == projects[pair[1]].vms IN
                    vms[pair[2]].host # vms[pair[3]].host}
  /\ pc' = "done"
  /\ UNCHANGED <<db, todo, attempts, logged, measured, faults>>
  /\ UNCHANGED <<hosts, making, projects, used, turn>>

Next ==
  \/ Work \/ Finish
  \/ NewExternalNetwork
  \/ \E tag \in 1..(Len(projects) + 1) :
       \E sample \in GatewayChassis : NewProject(tag, sample)
  \/ \E p \in DOMAIN projects : AddVm(p) \/ RefuseVm(p)
  \/ MeshPing

(* The tester is one thread: an operation it has begun, it goes on with.   *)
Fairness == WF_vars(Work \/ Finish)

Spec == Init /\ [][Next]_vars /\ Fairness

-----------------------------------------------------------------------------
TypeOK ==
  /\ ScriptTypeOK
  /\ hosts \in HostCounts
  /\ turn \in 1..NWorkers
  /\ used \in Seq(1..hosts)
  /\ Len(projects) <= NProjects
  /\ \A p \in DOMAIN projects :
       /\ projects[p].tag \in 1..p
       /\ projects[p].net + 1 \in DOMAIN used
       /\ Len(projects[p].vms) <= NVms
       /\ \A k \in DOMAIN projects[p].vms :
            projects[p].vms[k].on \in 1..NWorkers
  /\ making.what \in {"nothing", "network", "project", "vm"}
  /\ pc \in {"idle", "busy", "dead", "refused", "done"}

VmsOf(p) == Range(projects[p].vms)
Listed   == UNION {VmsOf(p) : p \in DOMAIN projects}

(***************************************************************************)
(* No address of a network is used twice: not by two of its VMs, not by a  *)
(* VM and its metadata port, and not by a VM and the router's port, whose  *)
(* address comes from the network's gateway and not from the pool.         *)
(***************************************************************************)
AddressesAreUnique ==
  LET Addressed == {r \in Rows : /\ r[1] \in {"in", "addresses"} /\ r[4] # None
                                  /\ r[2][1] # "netns"}
  IN \A r, s \in Addressed : r[2] # s[2] => r[4] # s[4]

(***************************************************************************)
(* A VM that the cloud lists is on its own project's switch, whatever its  *)
(* name, and its way out is complete except for what the log says is       *)
(* missing: the gateway it is told, by DHCP too, is the address of its     *)
(* router's port; the router is on the external network, has its default   *)
(* route there and translates the VM's network; the security group has its *)
(* four rules and the VM; the VM's interface is on the node that the port  *)
(* is meant for, and its namespace has a default route to that gateway.    *)
(***************************************************************************)
VmsReachOutside ==
  pc \in {"idle", "done"} =>
    \A p \in DOMAIN projects : \A vm \in VmsOf(p) :
      LET n == projects[p].net IN
        /\ <<"in", vm.port, Switch(n), Ip(n, vm.host)>> \in Rows
        /\ Has(<<"in", Lrp(p, n), Router(p), Ip(n, Gateway)>>)
        /\ Has(<<"router", Dhcp(n), None, Ip(n, Gateway)>>)
        /\ Exists(Lsp(p, n)) /\ Exists(Lsp(p, 0))
        /\ \E k \in 1..NProjects :
             /\ Has(<<"in", Lrp(p, 0), Router(p), ExtIp(k)>>)
             /\ Has(<<"route", Router(p), None, ExtIp(k)>>)
        /\ Has(<<"snat", Router(p), None, Switch(n)>>)
        /\ Has(<<"ports", Group(n), None, vm.port>>)
        /\ \A k \in 1..4 : Has(<<"acl", Group(n), None, <<"rule", k, 0>>>>)
        /\ Has(<<"options", vm.port, None, Chassis(vm.on)>>)
        /\ <<"iface", vm.port, None, Chassis(vm.on)>> \in Rows
        /\ Has(<<"in", Netns(vm.port), None, Ip(n, Gateway)>>)

(***************************************************************************)
(* The mesh of a project has a ping from each of its VMs to each other: a  *)
(* pair with the same address would be left out without a word.            *)
(***************************************************************************)
MeshIsComplete ==
  pc = "done" =>
    \A p \in 1..NProjects, a, b \in 1..NVms : a # b => <<p, a, b>> \in pinged

(***************************************************************************)
(* Every VM can be reached as far as the log knows, and has been pinged.   *)
(***************************************************************************)
VmsAreConnected == VmsReachOutside /\ MeshIsComplete

(***************************************************************************)
(* The gateway port of a listed project has as many chassis as were asked  *)
(* for, or as the cloud or a router can have, apart from those the log     *)
(* says are missing: no two of them the same, so that a failover finds     *)
(* another one, and no two with the same priority.                         *)
(***************************************************************************)
GatewaysFailOver ==
  \A p \in DOMAIN projects :
    LET gws == {r[4] : r \in {r \in Rows \cup logged :
                              r[1] = "gateway" /\ r[2] = Lrp(p, 0)}}
    IN /\ Cardinality(gws) = Least(Least(NGateways, NWorkers), MaxGwPerRouter)
       /\ \A g, h \in gws : g # h => g[2] # h[2] /\ g[3] # h[3]

(***************************************************************************)
(* The listed VMs are spread evenly over the compute nodes, whatever the   *)
(* number of VMs in a project.                                             *)
(***************************************************************************)
PlacementIsBalanced ==
  \A w, x \in 1..NWorkers :
    Cardinality({vm \in Listed : vm.on = w})
      <= Cardinality({vm \in Listed : vm.on = x}) + 1

(***************************************************************************)
(* Gateways and VMs are where a failure of one node hits as few as it can. *)
(***************************************************************************)
NodesShareTheLoad == GatewaysFailOver /\ PlacementIsBalanced

(***************************************************************************)
(* No row is in the Northbound twice, although a transaction that appeared *)
(* to fail may have been committed and is executed again.                  *)
(***************************************************************************)
NothingIsMadeTwice == IsInjective(db)

(***************************************************************************)
(* A VM that is refused, because its network has no address left or its    *)
(* name is too long, leaves nothing behind: the Northbound has the ports   *)
(* of listed VMs only.                                                     *)
(***************************************************************************)
RefusalLeavesNothing ==
  pc = "refused" =>
    {r[2] : r \in {r \in Rows : r[1] = "in" /\ r[2][1] = "vm"}}
      \subseteq {vm.port : vm \in Listed}

(***************************************************************************)
(* The Northbound has no row too many: none twice, none of a refused VM.   *)
(***************************************************************************)
NothingIsLeftOver == TypeOK /\ NothingIsMadeTwice /\ RefusalLeavesNothing

(***************************************************************************)
(* Every operation ends, also one whose transaction can never succeed      *)
(* because another project's VM has the name of its port.                  *)
(***************************************************************************)
OperationsEnd == pc = "busy" ~> pc # "busy"

=============================================================================
