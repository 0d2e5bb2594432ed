---------------------------- MODULE ClusterBringup ----------------------------
(***************************************************************************)
(* The life of an OVN-Kubernetes run: the zones are prepared, each brought *)
(* up worker by worker, connected by a transit switch and checked, and     *)
(* then filled with pods by the density_light test.  What is done is done  *)
(* in contexts (TestContext), by scripts of commands (CommandScript), with *)
(* the addresses of AddressPlan.                                           *)
(*                                                                         *)
(* A ping is answered only if its path is complete, of which many parts    *)
(* are made by commands that do no more than log an error.                 *)
(***************************************************************************)
EXTENDS CommandScript, TestContext, AddressPlan, SequencesExt

CONSTANTS
  RaftElectionTo,  \* config.raft_election_to, in seconds
  NPods,           \* base_cluster_bringup.n_pods_per_node
  NStartup,        \* density_light.n_startup
  NDensity,        \* density_light.n_pods
  ExtIterations    \* iterations of density_light with an external command

ASSUME BringupAssumption ==
  /\ NWorkers >= MaxAz
  /\ RaftElectionTo \in Nat
  /\ NPods \in Nat /\ NStartup \in Nat /\ NDensity \in Nat
  /\ ExtIterations \subseteq Int

VARIABLES
  n_az,      \* config.n_az
  at,        \* which of the contexts, in order
  stage,     \* where in it
  lports,    \* per worker: for each of its ports, whether it is passive
  selected   \* cluster.last_selected_worker, by zone

where == <<n_az, at, stage, lports, selected>>
vars  == <<script, stats, where>>

Zones          == 0..(n_az - 1)
Workers(az)    == WorkersOf(n_az, az)
AllWorkers     == 0..(NWorkers - 1)
ZoneOf(w)      == w \div AzWorkers(n_az)
FirstWorker(az) == az * AzWorkers(n_az)

(***************************************************************************)
(* Networks: GwNet is a zone's, IntNet and ExtNet are a worker's.          *)
(***************************************************************************)
GwNet(az) == <<"gw", az * AzWorkers(n_az)>>
IntNet(w) == <<"int", w>>
ExtNet(w) == <<"ext", w>>
TsNet     == <<"ts", 0>>

(* Mutant: the index does not leave out the router's own address.          *)
JoinIpMutant(w) == FromEnd(GwNet(ZoneOf(w)), w + 1)

JoinIp(w)    == FromEnd(GwNet(ZoneOf(w)), w + 2)
ExtHostIp(w) == FromEnd(ExtNet(w), 2)

(* Objects of a zone or of a worker; ports have the numbers of both ends.  *)
Of(what, i)  == <<what, i, 0>>
Router(az)   == Of("lr-cluster", az)
JoinRp(az)   == Of("rtr-to-join", az)
Join(az)     == Of("ls-join", az)
ClusterLb(az) == Of("lb-cluster", az)
Lbg(az)      == Of("lb-group", az)
Ts           == Of("ts", 0)
TsFound(az)  == Of("ts-uuid", az)
TsRp(az)     == Of("lr-to-ts", az)
Switch(w)    == Of("lswitch", w)
GwRouter(w)  == Of("gwrouter", w)
ExtSwitch(w) == Of("ext", w)
NodeRp(w)    == Of("rtr-to-node", w)
GwRp(w)      == Of("gw-to-join", w)
ExtRp(w)     == Of("gw-to-ext", w)
Physnet(w)   == Of("provnet", w)
ExtNs(w)     == Of("ext-ns", w)
Bound(w)     == Of("chassis", w)
GwLb(w)      == Of("lb-gwrouter", w)
Lsp(rp)      == <<"lsp", rp>>           \* the switch's port to a router's
Pod(w, k)    == <<"lp", w, k>>
Ping(w, k)   == <<"ping", w, k>>
IcPing(w)    == Of("ic-ping", w)

-----------------------------------------------------------------------------
(***************************************************************************)
(* Scripts: preparing the zones.                                           *)
(***************************************************************************)
(* A command in a node's shell, outside of timeit.                         *)
Shell(x) == Insert(x, None, None, {"log", "raise"})

(* One step per second of the time-out but the last, on every server.      *)
SetRaftElectionTimeout(az) ==
  IF NCentral = 1 THEN <<>>
  ELSE [k \in 1..((RaftElectionTo - 1) * NCentral) |->
          Shell(<<"election-timer", az, k>>)]

StartCentral(az) ==
  [i \in 1..NCentral |-> Shell(<<"set-n-threads", az, i>>)]
StartRelay(az) ==
  [i \in 1..NRelays |-> Shell(<<"trim-on-compaction", az, i>>)]

(* The external host's address, and its default route.                     *)
Configure(w) ==
  <<SetGlobalExternalId(Of("bridge-mappings", w)),
    Insert(ExtNs(w), None, <<ExtHostIp(w), Gateway(ExtNet(w))>>,
           {"log", "raise"})>>

PrepareTest(az) ==
  SetRaftElectionTimeout(az) \o StartCentral(az)
  \o <<SetGlobal(Of("ic-route-learn", az)), SetGlobal(Of("ic-route-adv", az))>>
  \o StartRelay(az)
  \o FlattenSeq([i \in 1..AzWorkers(n_az) |->
                   Configure(FirstWorker(az) + i - 1)])
  \o <<SetGlobal(Of("options", az)), SetGlobal(Of("name", az)),
       SetGlobal(Of("inactivity_probe", az))>>

-----------------------------------------------------------------------------
(***************************************************************************)
(* Scripts: bringing up a zone.                                            *)
(***************************************************************************)
CreateTransitSwitch == IF n_az = 1 THEN <<>> ELSE <<LsAdd(Ts)>>

CreateClusterRouter(az) == <<LrAdd(Router(az)), LrSetOptions(Router(az), None)>>

CreateClusterJoinSwitch(az) ==
  <<LsAdd(Join(az)),
    LrPortAdd(JoinRp(az), Router(az), Gateway(GwNet(az))),
    LsPortAdd(Lsp(JoinRp(az)), Join(az), None)>>

CreateClusterLoadBalancer(az) ==
  <<CreateLb(ClusterLb(az)), LbSetVips(ClusterLb(az), None)>>

(* ls_get_uuid gives up after ten seconds; the tester's knowledge of the   *)
(* UUID is a row here.                                                     *)
ConnectTransitSwitch(az) ==
  IF n_az = 1 THEN <<>>
  ELSE <<Insert(TsFound(az), Ts, None, {"log"}),
         LrPortAdd(TsRp(az), Router(az), Forward(TsNet, az)),
         LsPortAdd(Lsp(TsRp(az)), TsFound(az), None),
         LrPortSetGwChassis(TsRp(az), Bound(FirstWorker(az))),
         SetGlobalExternalId(Of("is-interconn", FirstWorker(az)))>>

(* connect, then wait: it polls for the chassis until a time-out, which    *)
(* timeit swallows.                                                        *)
ConnectAndWait(w) ==
  <<SetGlobalExternalId(Of("ovn-remote", w)),
    Insert(Bound(w), Of("ovn-remote", w), None, {"measure"})>>

NodeSwitch(w) ==
  <<LsAdd(Switch(w)),
    LrPortAdd(NodeRp(w), Router(ZoneOf(w)), Gateway(IntNet(w))),
    LsPortAdd(Lsp(NodeRp(w)), Switch(w), None),
    LrPortSetGwChassis(NodeRp(w), Bound(w))>>

NodeGateway(w) ==
  <<LrAdd(GwRouter(w)), LrSetOptions(GwRouter(w), Bound(w)),
    LrPortAdd(GwRp(w), GwRouter(w), JoinIp(w)),
    LsPortAdd(Lsp(GwRp(w)), Join(ZoneOf(w)), None)>>

NodeExternal(w) ==
  <<LsAdd(ExtSwitch(w)),
    LrPortAdd(ExtRp(w), GwRouter(w), Gateway(ExtNet(w))),
    LsPortAdd(Lsp(ExtRp(w)), ExtSwitch(w), None),
    LsPortAdd(Physnet(w), ExtSwitch(w), None), LsPortSetType(Physnet(w)),
    LsPortSetOptions(Physnet(w), None)>>

NodeRoutes(w) ==
  <<RouteAdd(GwRouter(w), "cluster_net", Gateway(GwNet(ZoneOf(w)))),
    RouteAdd(GwRouter(w), "default", ExtHostIp(w)),
    RouteAdd(Router(ZoneOf(w)), "src-ip", <<IntNet(w), JoinIp(w)>>),
    NatAdd(GwRouter(w), JoinIp(w))>>

Provision(w) ==
  ConnectAndWait(w) \o NodeSwitch(w) \o NodeGateway(w) \o NodeExternal(w)
  \o NodeRoutes(w)

ProvisionPort(w, k) ==
  <<LsPortAdd(Pod(w, k), Switch(w), Forward(IntNet(w), k + 1))>>

Bind(w, k, passive) ==
  IF passive THEN <<AddPort(Pod(w, k), Bound(w))>>
  ELSE BindPort(Pod(w, k), Bound(w), Gateway(IntNet(w)))

ProvisionPorts(w) ==
  FlattenSeq([k \in 1..NPods |-> ProvisionPort(w, k - 1)])
  \o FlattenSeq([k \in 1..NPods |-> Bind(w, k - 1, FALSE)])

ProvisionLoadBalancers(w) ==
  <<LbSetVips(ClusterLb(ZoneOf(w)), Switch(w)),
    LbAddTo(ClusterLb(ZoneOf(w)), Switch(w)),
    LbAddTo(ClusterLb(ZoneOf(w)), GwRouter(w)),
    CreateLb(GwLb(w)), LbAddTo(GwLb(w), GwRouter(w))>>

PingPort(w, k) ==
  Insert(Ping(w, k), Netns(Pod(w, k)), ExtHostIp(w), {"measure"})
PingPorts(w)   == [k \in 1..NPods |-> PingPort(w, k - 1)]

ProvisionLbGroup(az) ==
  <<CreateLb(Lbg(az))>>
  \o [i \in 1..(2 * AzWorkers(n_az)) |->
       LET w == FirstWorker(az) + ((i - 1) \div 2) IN
         AddLbg(Lbg(az), IF i % 2 = 1 THEN Switch(w) ELSE GwRouter(w))]

(* From the first zone's first pod to the first pod of every worker of     *)
(* another zone: outside of timeit, and an IndexError without a pod.       *)
CheckIcConnectivity ==
  [i \in 1..((n_az - 1) * AzWorkers(n_az)) |->
     LET w == AzWorkers(n_az) + i - 1 IN
       Command(<<"in", IcPing(w), None, None>>, {Pod(0, 0), Pod(w, 0)},
               {"raise"})]

(* The namespace of the test: port groups, which stay empty, and a set of  *)
(* addresses in every zone, which all have the addresses of all pods.      *)
PortGroups(what) == [i \in 1..n_az |-> PortGroupCreate(Of(what, i - 1))]

NewNamespace ==
  PortGroups("pg_deny_igr") \o PortGroups("pg_deny_egr") \o PortGroups("pg")
  \o [i \in 1..n_az |-> AddressSetCreate(Of("as", i - 1))]

AddToNamespace(pods) ==
  IF pods = {} THEN <<>>
  ELSE [i \in 1..n_az |-> AddressSetAddAddrs(Of("as", i - 1), pods)]

-----------------------------------------------------------------------------
(***************************************************************************)
(* What is there, according to the rows S.                                 *)
(***************************************************************************)
AddressesOf(S, x) == {r[4] : r \in {r \in S : r[1] = "in" /\ r[2] = x}}
In(S, objects)    == \A x \in objects : \E r \in S : r[1] = "in" /\ r[2] = x

(* The path from a pod to the external host of its worker and back.        *)
PathIn(S, w, k) ==
  LET az == ZoneOf(w) IN
  \E gw \in AddressesOf(S, NodeRp(w)),  join \in AddressesOf(S, GwRp(w)),
     back \in AddressesOf(S, JoinRp(az)), ext \in AddressesOf(S, ExtRp(w)),
     host \in AddressesOf(S, ExtNs(w)) :
    /\ <<"in", Netns(Pod(w, k)), None, gw>> \in S
    /\ <<"iface", Pod(w, k), None, Bound(w)>> \in S
    /\ <<"src-ip", Router(az), None, <<IntNet(w), join>>>> \in S
    /\ <<"snat", GwRouter(w), None, join>> \in S
    /\ <<"cluster_net", GwRouter(w), None, back>> \in S
    /\ <<"default", GwRouter(w), None, host[1]>> \in S /\ host[2] = ext
    /\ <<"gateway", NodeRp(w), None, Bound(w)>> \in S
    /\ <<"options", GwRouter(w), None, Bound(w)>> \in S
    /\ {<<"type", Physnet(w), None, None>>,
        <<"options", Physnet(w), None, None>>} \subseteq S
    /\ In(S, {Bound(w), Of("bridge-mappings", w), Pod(w, k), Lsp(NodeRp(w)),
              Lsp(GwRp(w)), Lsp(JoinRp(az)), Lsp(ExtRp(w)), Physnet(w)})

(* The path from the first zone's first pod to that of another zone.       *)
IcPathIn(S, w) ==
  /\ \A x \in {0, w} :
       /\ \E gw \in AddressesOf(S, NodeRp(x)) :
            <<"in", Netns(Pod(x, 0)), None, gw>> \in S
       /\ <<"iface", Pod(x, 0), None, Bound(x)>> \in S
       /\ In(S, {Bound(x), Pod(x, 0), Lsp(NodeRp(x))})
  /\ \A az \in {0, ZoneOf(w)} :
       /\ <<"gateway", TsRp(az), None, Bound(FirstWorker(az))>> \in S
       /\ In(S, {TsRp(az), Lsp(TsRp(az)), Of("is-interconn", FirstWorker(az)),
                 Of("ic-route-learn", az), Of("ic-route-adv", az),
                 Bound(FirstWorker(az))})

Answerable(cmd) ==
  LET x == cmd.row[2] IN
    CASE x[1] = "ping"    -> PathIn(Rows, x[2], x[3])
      [] x[1] = "ic-ping" -> IcPathIn(Rows, x[2])
      [] OTHER            -> TRUE

-----------------------------------------------------------------------------
(***************************************************************************)
(* The contexts: prepare_test, base_cluster_bringup for each zone,         *)
(* density_light_startup and density_light.                                *)
(***************************************************************************)
Startup == n_az + 2
Density == n_az + 3
Name(c) ==
  CASE c = 1       -> "prepare_test"
    [] c = Startup -> "density_light_startup"
    [] c = Density -> "density_light"
    [] OTHER       -> "base_cluster_bringup"
Zone(c) == c - 2                        \* of a bring-up

Iterations(c) ==
  CASE c = 1       -> 1
    [] c = Startup -> n_az
    [] c = Density -> NDensity - NStartup
    [] OTHER       -> AzWorkers(n_az)

Opening(c) ==
  CASE c = 1 -> FlattenSeq([i \in 1..n_az |-> PrepareTest(i - 1)])
    [] c \in {Startup, Density} -> <<>>
    [] OTHER -> CreateClusterRouter(Zone(c)) \o CreateClusterJoinSwitch(Zone(c))
                  \o CreateClusterLoadBalancer(Zone(c))
                  \o ConnectTransitSwitch(Zone(c))

Closing(c) ==
  IF c \in {1, Startup, Density} THEN <<>> ELSE ProvisionLbGroup(Zone(c))

(* __exit__ synchronises every zone.                                       *)
Sync(c) ==
  [i \in 1..n_az |-> Insert(<<"sync", i, c>>, None, None, {"raise"})]

(* What a test does after a context, and before its next one.              *)
Following(c) ==
  CASE c = 1        -> CreateTransitSwitch
    [] c = n_az + 1 -> CheckIcConnectivity \o NewNamespace
    [] OTHER        -> <<>>

(* Mutant: the commands of the iteration that is about to begin.           *)
ExternalMutant(c, i) ==
  IF c = Density /\ i + 1 \in ExtIterations
  THEN <<Insert(Of("ext-cmd", i + 1), None, None, {"log", "raise"})>> ELSE <<>>

(* exec_cmd: in the shell of a node, outside of timeit.                    *)
External(c, i) ==
  IF c = Density /\ i \in ExtIterations
  THEN <<Insert(Of("ext-cmd", i), None, None, {"log", "raise"})>> ELSE <<>>

(* select_worker_for_port advances before it selects.                      *)
Target(az, k)  == FirstWorker(az) + ((selected[az] + k) % AzWorkers(n_az))
SameWorker(az, k, n) == {j \in 1..n : Target(az, j) = Target(az, k)}
NextIndex(az, k) ==
  Len(lports[Target(az, k)]) + Cardinality(SameWorker(az, k, k - 1))

ClusterPods(az, n) == {Pod(Target(az, k), NextIndex(az, k)) : k \in 1..n}

ClusterPorts(az, n, passive) ==
  FlattenSeq([k \in 1..n |->
    ProvisionPort(Target(az, k), NextIndex(az, k))
      \o Bind(Target(az, k), NextIndex(az, k), passive)])

AddPorts(az, n, passive) ==
  /\ lports' = [w \in AllWorkers |->
       lports[w] \o [j \in 1..Cardinality({k \in 1..n : Target(az, k) = w})
                       |-> passive]]
  /\ selected' = [selected EXCEPT ![az] = (@ + n) % AzWorkers(n_az)]

(* The body of the loop for iteration i.                                   *)
Body(c, i) ==
  CASE c = Startup ->
         LET n == Distribute(NStartup, n_az, i) IN
           /\ Begin(ClusterPorts(i, n, TRUE)
                      \o AddToNamespace(ClusterPods(i, n)))
           /\ AddPorts(i, n, TRUE)
    [] c = Density ->
         LET az == i % n_az IN
           /\ Begin(ClusterPorts(az, 1, FALSE)
                      \o AddToNamespace(ClusterPods(az, 1))
                      \o <<PingPort(Target(az, 1), NextIndex(az, 1))>>)
           /\ AddPorts(az, 1, FALSE)
    [] OTHER ->
         LET w == FirstWorker(Zone(c)) + i IN
           /\ Begin(Provision(w) \o ProvisionPorts(w)
                      \o ProvisionLoadBalancers(w) \o PingPorts(w))
           /\ lports' = [lports EXCEPT ![w] = @ \o [k \in 1..NPods |-> FALSE]]
           /\ UNCHANGED selected

-----------------------------------------------------------------------------
Init ==
  /\ ScriptInit /\ ContextInit
  /\ n_az \in 1..MaxAz
  /\ at = 1 /\ stage = "enter"
  /\ lports = [w \in AllWorkers |-> <<>>]
  /\ selected = [az \in Zones |-> 0]

Enter ==
  /\ stage = "enter" /\ at <= Density
  /\ Begin(Opening(at))
  /\ EnterContext(Name(at), Iterations(at))
  /\ stage' = IF at = 1 THEN "leave" ELSE "top"
  /\ UNCHANGED <<n_az, at, lports, selected>>

Top ==
  /\ stage = "top"
  /\ Begin(External(at, context.iteration))
  /\ Conclude
  /\ stage' = "advance"
  /\ UNCHANGED <<n_az, at, lports, selected>>

Iterate ==
  /\ stage = "advance"
  /\ NextIteration
  /\ Body(at, context.iteration + 1)
  /\ stage' = "top"
  /\ UNCHANGED <<n_az, at>>

StopIteration ==
  /\ stage = "advance" /\ ~MoreIterations
  /\ Begin(Closing(at))
  /\ stage' = "leave"
  /\ UNCHANGED <<stats, n_az, at, lports, selected>>

Leave ==
  /\ stage = "leave"
  /\ Begin(Sync(at) \o Following(at))
  /\ stage' = "enter" /\ at' = at + 1
  /\ UNCHANGED <<stats, n_az, lports, selected>>

Finish ==
  /\ pc = "idle" /\ stage = "enter" /\ at > Density
  /\ pc' = "done"
  /\ UNCHANGED <<db, todo, attempts, logged, measured, faults, stats, where>>

(* A ping without a complete path is repeated until it times out.          *)
PingTimesOut ==
  /\ pc = "busy" /\ todo # <<>> /\ ~Answerable(Head(todo))
  /\ \/ /\ "measure" \in Head(todo).fails
        /\ measured' = measured \cup {Head(todo).row}
        /\ Advance
     \/ /\ "raise" \in Head(todo).fails
        /\ Stop /\ UNCHANGED measured
  /\ UNCHANGED <<db, logged, faults>>

Work ==
  /\ \/ Execute /\ Answerable(Head(todo))
     \/ PingTimesOut
  /\ IF measured' # measured THEN AddFailure ELSE UNCHANGED stats
  /\ UNCHANGED where

EndOfScript == End /\ UNCHANGED <<stats, where>>

Next ==
  \/ Enter \/ Top \/ Iterate \/ StopIteration \/ Leave \/ Finish
  \/ Work \/ EndOfScript

(* The tester is one thread.                                               *)
Spec == Init /\ [][Next]_vars /\ WF_vars(Next)

-----------------------------------------------------------------------------
TypeOK ==
  /\ ScriptTypeOK /\ ContextTypeOK
  /\ n_az \in 1..MaxAz
  /\ at \in 1..(Density + 1)
  /\ stage \in {"enter", "top", "advance", "leave"}
  /\ lports \in [AllWorkers -> Seq(BOOLEAN)]
  /\ selected \in [Zones -> 0..(AzWorkers(n_az) - 1)]
  /\ pc \in {"idle", "busy", "dead", "done"}

(***************************************************************************)
(* No two interfaces have the same address, on whatever network they are:  *)
(* routers of a zone and of its workers on the join switch, the pods and   *)
(* the router of a node, its gateway router and the external host, the     *)
(* zones on the transit switch.                                            *)
(***************************************************************************)
Interfaces ==
  {<<r[2], r[4]>> : r \in {r \in Rows : /\ r[1] = "in" /\ r[4] # None
                             /\ r[2][1] \notin {"netns", "ping", "ext-ns"}}}
    \cup {<<r[2], r[4][1]>> : r \in {r \in Rows : /\ r[1] = "in"
                                       /\ r[2][1] = "ext-ns"}}

AddressesAreUnique ==
  \A i, j \in Interfaces : i[1] # j[1] => i[2] # j[2]

(***************************************************************************)
(* Every pod that is no passive one has a complete path to the external    *)
(* host of its worker and back, except for what the log or a measurement   *)
(* says is missing.                                                        *)
(***************************************************************************)
Active(w) == {k \in DOMAIN lports[w] : ~lports[w][k]}

PodsReachOutside ==
  pc \in {"idle", "done"} =>
    \A w \in AllWorkers : \A k \in Active(w) :
      PathIn(Rows \cup logged \cup measured, w, k - 1)

(***************************************************************************)
(* An iteration of the bring-up that is reported as a success has left its *)
(* worker with a complete path from each of its pods, and its chassis      *)
(* bound, although most of the commands that make the path log their       *)
(* failure and do no more.                                                 *)
(***************************************************************************)
Entered == IF stage = "enter" THEN at - 1 ELSE at

SuccessMeansReachable ==
  context.name = "base_cluster_bringup" =>
    \A i \in 0..(AzWorkers(n_az) - 1) :
      Passed(i) => \A k \in 1..NPods :
                     PathIn(Rows, FirstWorker(Zone(Entered)) + i, k - 1)

(***************************************************************************)
(* What the tester reports or does not report is what there is.            *)
(***************************************************************************)
ReportsAreTrue == PodsReachOutside /\ SuccessMeansReachable

(***************************************************************************)
(* The external commands of an iteration have been executed when the next  *)
(* one begins, and not before the verdict on their own; those of iteration *)
(* -1 before the first.                                                    *)
(***************************************************************************)
Executed(i) == Of("ext-cmd", i) \in {r[2] : r \in Rows \cup logged}

ExtCommandsInOrder ==
  at = Density /\ pc = "idle" /\ context.name = "density_light" =>
    \A i \in ExtIterations :
      Executed(i) <=> \/ i < context.iteration
                      \/ i = context.iteration /\ stage \in {"advance", "leave"}

(***************************************************************************)
(* When all is done, there are as many pods as the configuration asks for, *)
(* whatever the number of zones they are distributed over.                 *)
(***************************************************************************)
Lports ==
  {p \in AllWorkers \X (1..(NPods + NDensity)) : p[2] <= Len(lports[p[1]])}

PodsAsConfigured ==
  pc = "done" =>
    Cardinality(Lports) = NDensity + NPods * n_az * AzWorkers(n_az)

(***************************************************************************)
(* The run does what its configuration says: its external commands at the  *)
(* time, and its pods in the number, that are asked for.                   *)
(***************************************************************************)
RunIsAsConfigured == TypeOK /\ ExtCommandsInOrder /\ PodsAsConfigured

(***************************************************************************)
(* The run ends, with an exception or without.                             *)
(***************************************************************************)
RunEnds == <>(pc \in {"done", "dead"})

=============================================================================
