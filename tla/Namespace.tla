------------------------------ MODULE Namespace ------------------------------
(***************************************************************************)
(* The namespaces of an OVN-Kubernetes deployment with one Northbound      *)
(* database per availability zone: the port groups and address sets that   *)
(* follow a namespace's ports, the policies attached to the groups, and    *)
(* the virtual IPs of its load balancer.                                   *)
(*                                                                         *)
(* The content of all groups and sets of all zones is one relation,        *)
(* member, between rows and ports: for a port group its ports, for an      *)
(* address set their addresses.  None of the writes passes check_error, so *)
(* a failed one is a line in the log (lost, kept) and the caller goes on.  *)
(***************************************************************************)
EXTENDS Naturals, Sequences, FiniteSets

CONSTANTS
  Namespaces,
  AZs,            \* the clusters, one per availability zone
  FirstAz,        \* clusters[0], also the default of every az parameter
  Ports,
  Families,       \* those configured by run_ipv4 and run_ipv6, in that order
  NBackendLists,  \* VIPs provisioned per namespace and family
  MaxSubs,        \* bound on the sub-namespaces of any two namespaces
  MaxLost         \* bound on the writes that fail

ASSUME AzAssumption == FirstAz \in AZs
ASSUME FamiliesAssumption ==
  Families \in {<<"ip4">>, <<"ip6">>, <<"ip4", "ip6">>}
ASSUME BoundsAssumption ==
  NBackendLists \in Nat /\ MaxSubs \in Nat /\ MaxLost \in Nat

VARIABLES
  created,    \* the namespaces that exist
  last,       \* those created last: one, or none at first
  nNs,        \* n_ns of every cluster
  lsps,       \* ports with a Northbound row, per zone
  used,       \* history: ports that have been provisioned
  ports,      \* Namespace.ports: per namespace and zone
  enforcing,  \* the enforcing namespaces
  member,     \* <<row, port>>: contents of groups and sets
  lost,       \* <<row, port>> of additions that failed
  kept,       \* ports whose deletion failed
  acls,       \* port groups of namespaces that have ACLs
  sub,        \* history: the ports each sub-namespace was created for
  subAs,      \* Namespace.sub_as of the first zone
  allowed,    \* ACLs between sub-namespaces
  vips,       \* virtual IPs of each namespace's load balancer
  failed      \* an exception ended the run

content == <<member, lost, kept>>
subs    == <<sub, subAs, allowed>>
count   == <<created, last, nNs>>
vars == <<count, lsps, used, ports, enforcing, content, acls, subs, vips,
          failed>>

Groups      == {"deny_igr", "deny_egr", "allow"}
AddressSets == {"ip4", "ip6"}
Rows == [az : AZs, kind : Groups \cup AddressSets \cup {"sub_pg"},
         ns : Namespaces, sub : 0..MaxSubs]
Rules == [ns : Namespaces, family : AddressSets, src : Nat, dst : Nat,
          from : Rows, to : Rows]

GroupRow(az, ns, g)  == [az |-> az, kind |-> g, ns |-> ns, sub |-> 0]
SubGroup(ns, k)      == [az |-> FirstAz, kind |-> "sub_pg", ns |-> ns, sub |-> k]
SetRow(az, ns, f, k) == [az |-> az, kind |-> f, ns |-> ns, sub |-> k]
FamilySet == {Families[i] : i \in DOMAIN Families}

Init ==
  /\ created = {} /\ last = {} /\ nNs = 0
  /\ lsps = [az \in AZs |-> {}] /\ used = {}
  /\ ports = [ns \in Namespaces |-> [az \in AZs |-> {}]]
  /\ enforcing = {}
  /\ member = {} /\ lost = {} /\ kept = {}
  /\ acls = {}
  /\ sub = [ns \in Namespaces |-> << >>]
  /\ subAs = [ns \in Namespaces |-> << >>]
  /\ allowed = {}
  /\ vips = [ns \in Namespaces |-> << >>]
  /\ failed = FALSE

-----------------------------------------------------------------------------
(***************************************************************************)
(* Writes.                                                                 *)
(***************************************************************************)
(* Additions are made in batches of one row each: some rows, and in them   *)
(* the batches that hold some of the ports, fail.                          *)
Losses(W) ==
  {{w \in W : w[1] \in R /\ w[2] \in P} :
      R \in SUBSET {w[1] : w \in W}, P \in SUBSET Ports}

Adds(W) ==
  \E L \in Losses(W) :
    /\ Cardinality(lost \cup L) + Cardinality(kept) <= MaxLost
    /\ lost' = lost \cup L
    /\ member' = member \cup (W \ L)

(* Port groups hold weak references to the ports of their own database,    *)
(* address sets hold strings.                                              *)
Without(D) == {w \in member : w[1].kind \in AddressSets \/ w[2] \notin D}

(* Cluster.unprovision_ports deletes the Northbound rows first; what       *)
(* happens on the workers does not matter here.                            *)
Deletes(ps) ==
  \E D \in SUBSET ps :
    /\ Cardinality(lost) + Cardinality(kept \cup (ps \ D)) <= MaxLost
    /\ kept' = kept \cup (ps \ D)
    /\ member' = Without(D)
    /\ lsps' = [az \in AZs |-> lsps[az] \ D]
    /\ UNCHANGED lost

(* A namespace's own set (k = 0) or that of its k-th sub-namespace: every  *)
(* zone has one.                                                           *)
SetRowsMutant(ns, k) == {SetRow(FirstAz, ns, f, k) : f \in FamilySet}
SetRows(ns, k) == {SetRow(az, ns, f, k) : az \in AZs, f \in FamilySet}

GroupWrites(ns, az, ps) == {GroupRow(az, ns, g) : g \in Groups} \X ps

-----------------------------------------------------------------------------
(***************************************************************************)
(* Namespaces and their ports.                                             *)
(***************************************************************************)
CountedMutant == nNs
Counted == nNs + 1

Create(ns) ==
  /\ ns \notin created
  /\ created' = created \cup {ns}
  /\ last' = {ns}
  /\ nNs' = Counted
  /\ UNCHANGED <<lsps, used, ports, enforcing, content, acls, subs, vips,
                 failed>>

(* Mutants: the groups are joined never, or before any policy exists.      *)
JoinedNeverMutant(ns, az, ps) == {}
JoinedEarlyMutant(ns, az, ps) == GroupWrites(ns, az, ps)

(* "Simulate what OpenShift does, which is: create the port groups when    *)
(* the first network policy is applied."                                   *)
Joined(ns, az, ps) ==
  IF ns \in enforcing THEN GroupWrites(ns, az, ps) ELSE {}

(* The caller has provisioned the ports in the zone it passes; netpol has  *)
(* added all of them before its first sub-namespace.                       *)
NoSubs == \A ns \in Namespaces : sub[ns] = << >>

AddPorts(ns, az, ps) ==
  /\ ns \in created /\ NoSubs
  /\ ps # {} /\ ps \cap used = {}
  /\ used' = used \cup ps
  /\ lsps' = [lsps EXCEPT ![az] = @ \cup ps]
  /\ ports' = [ports EXCEPT ![ns][az] = @ \cup ps]
  /\ Adds((SetRows(ns, 0) \X ps) \cup Joined(ns, az, ps))
  /\ UNCHANGED <<count, enforcing, kept, acls, subs, vips, failed>>

UnprovisionPorts(ns, az, ps) ==
  /\ NoSubs
  /\ ps # {} /\ ps \subseteq ports[ns][az]
  /\ ports' = [ports EXCEPT ![ns][az] = @ \ ps]
  /\ Deletes(ps)
  /\ UNCHANGED <<count, used, enforcing, acls, subs, vips, failed>>

(* unprovision deletes the ports of all zones and the groups of the first, *)
(* makes commands to delete its address sets without executing them, and   *)
(* raises an AttributeError: it passes the whole list of sub-groups.       *)
Unprovision(ns) ==
  /\ ns \in created
  /\ LET mine == UNION {ports[ns][az] : az \in AZs}
     IN  \E D \in SUBSET mine :
           /\ Cardinality(lost) + Cardinality(kept \cup (mine \ D)) <= MaxLost
           /\ kept' = kept \cup (mine \ D)
           /\ member' = {w \in Without(D) :
                           \A g \in Groups : w[1] # GroupRow(FirstAz, ns, g)}
           /\ lsps' = [az \in AZs |-> lsps[az] \ D]
  /\ acls' = acls \ {GroupRow(FirstAz, ns, g) : g \in Groups}
  /\ failed' = TRUE
  /\ UNCHANGED <<count, used, ports, enforcing, lost, subs, vips>>

-----------------------------------------------------------------------------
(***************************************************************************)
(* Policies.                                                               *)
(***************************************************************************)
EnforceWrites(ns) ==
  IF ns \in enforcing THEN {}
  ELSE UNION {GroupWrites(ns, az, ports[ns][az]) : az \in AZs}

(* default_deny attaches ACLs to both deny groups, allow_within_namespace  *)
(* and allow_from_external to the third; each enforces first.  A caller    *)
(* passes one zone to all of a namespace's policies, default_deny first.   *)
Policy(ns, az, gs) ==
  /\ ns \in created /\ vips[ns] = << >>
  /\ IF ns \in enforcing
     THEN GroupRow(az, ns, "deny_igr") \in acls
     ELSE "deny_igr" \in gs
  /\ enforcing' = enforcing \cup {ns}
  /\ Adds(EnforceWrites(ns))
  /\ acls' = acls \cup {GroupRow(az, ns, g) : g \in gs}
  /\ UNCHANGED <<count, lsps, used, ports, kept, subs, vips, failed>>

-----------------------------------------------------------------------------
(***************************************************************************)
(* Sub-namespaces.  netpol alone creates them, in namespaces that have had *)
(* a default_deny, and leaves az to its default.                           *)
(***************************************************************************)
NextSubMutant(ns) == Len(sub[ns]) + 2
NextSub(ns) == Len(sub[ns]) + 1

(* What create_sub_ns appends to sub_as of the first zone.                 *)
Handles(ns, k) ==
  [i \in DOMAIN Families |-> SetRow(FirstAz, ns, Families[i], k)]

(* The batches with a port of another zone, which the database of the      *)
(* first does not know, are refused.                                       *)
Refused(ps) ==
  IF ps \subseteq lsps[FirstAz] THEN {{}}
  ELSE {q \in SUBSET ps : ps \ lsps[FirstAz] \subseteq q}

CreateSubNs(ns, ps) ==
  /\ ns \in enforcing
  /\ Len(sub[ns]) < MaxSubs
  /\ \A ms \in Namespaces \ {ns} : Len(sub[ns]) + Len(sub[ms]) < MaxSubs
  /\ ps \subseteq UNION {lsps[az] : az \in AZs}
  /\ sub' = [sub EXCEPT ![ns] = Append(@, ps)]
  /\ subAs' = [subAs EXCEPT ![ns] = @ \o Handles(ns, NextSub(ns))]
  /\ \E q \in Refused(ps) :
       Adds(({SubGroup(ns, NextSub(ns))} \X (ps \ q))
              \cup (SetRows(ns, NextSub(ns)) \X ps))
  /\ UNCHANGED <<count, lsps, used, ports, enforcing, kept, acls, allowed,
                 vips, failed>>

RuleMutant(ns, f, src, dst) ==
  [ns |-> ns, family |-> f, src |-> src, dst |-> dst,
   from |-> subAs[ns][dst], to |-> subAs[ns][src]]

(* Both sets are looked up by the number of the sub-namespace.             *)
Rule(ns, f, src, dst) ==
  [ns |-> ns, family |-> f, src |-> src, dst |-> dst,
   from |-> subAs[ns][src], to |-> subAs[ns][dst]]

(* netpol allows, per family, from the sub-namespace created last but one  *)
(* to the last, then pings from the first port of one to the first of the  *)
(* other: without any, an IndexError ends the run.                         *)
AllowSubNs(ns) ==
  /\ Len(sub[ns]) >= 2
  /\ LET dst == Len(sub[ns])
         src == Len(sub[ns]) - 1
     IN  /\ allowed' = allowed \cup {Rule(ns, f, src, dst) : f \in FamilySet}
         /\ failed' = (sub[ns][src] = {} \/ sub[ns][dst] = {})
  /\ acls' = acls \cup {GroupRow(FirstAz, ns, "allow")}
  /\ UNCHANGED <<count, lsps, used, ports, enforcing, content, sub, subAs,
                 vips>>

-----------------------------------------------------------------------------
(***************************************************************************)
(* Load balancers: n_ns numbers the subnet, the VIPs the load balancer has *)
(* already, of either family, offset the host.  cluster_density alone      *)
(* provisions them, before it creates the next namespace and without any   *)
(* policy.                                                                 *)
(***************************************************************************)
NewVips(ns, f) ==
  [i \in 1..NBackendLists |->
     [family |-> f, net |-> nNs, host |-> Len(vips[ns]) + i]]

ProvisionVips(ns, f) ==
  /\ ns \in last \ enforcing
  /\ \A i \in DOMAIN vips[ns] : vips[ns][i].family # f
  /\ vips' = [vips EXCEPT ![ns] = @ \o NewVips(ns, f)]
  /\ UNCHANGED <<count, lsps, used, ports, enforcing, content, acls, subs,
                 failed>>

Next ==
  /\ ~failed
  /\ \E ns \in Namespaces :
       \/ Create(ns)
       \/ \E az \in AZs, ps \in SUBSET Ports :
            AddPorts(ns, az, ps) \/ UnprovisionPorts(ns, az, ps)
       \/ \E az \in AZs : \/ Policy(ns, az, {"deny_igr", "deny_egr"})
                          \/ Policy(ns, az, {"allow"})
       \/ \E ps \in SUBSET Ports : CreateSubNs(ns, ps)
       \/ AllowSubNs(ns)
       \/ \E f \in FamilySet : ProvisionVips(ns, f)
       \/ Unprovision(ns)

Spec == Init /\ [][Next]_vars

-----------------------------------------------------------------------------
TypeOK ==
  /\ created \subseteq Namespaces /\ last \subseteq created /\ nNs \in Nat
  /\ lsps \in [AZs -> SUBSET Ports] /\ used \subseteq Ports
  /\ ports \in [Namespaces -> [AZs -> SUBSET Ports]]
  /\ enforcing \subseteq created
  /\ member \subseteq Rows \X Ports /\ lost \subseteq Rows \X Ports
  /\ kept \subseteq Ports
  /\ acls \subseteq [az : AZs, kind : Groups, ns : Namespaces, sub : {0}]
  /\ sub \in [Namespaces -> Seq(SUBSET Ports)]
  /\ subAs \in [Namespaces -> Seq(Rows)]
  /\ \A ns \in Namespaces : Len(sub[ns]) <= Len(subAs[ns])
  /\ allowed \subseteq Rules
  /\ vips \in [Namespaces -> Seq([family : AddressSets, net : Nat, host : Nat])]
  /\ failed \in BOOLEAN

(***************************************************************************)
(* Whatever the order of adding ports, applying policies and removing      *)
(* ports: a policy of a namespace in a zone applies to every port the      *)
(* namespace has there, unless the write that should have put the port     *)
(* into the policy's group is in the log.                                  *)
(***************************************************************************)
PoliciesApplyToPorts ==
  \A row \in acls : \A p \in ports[row.ns][row.az] \cap lsps[row.az] :
    <<row, p>> \in member \cup lost

(***************************************************************************)
(* And it applies to no other port, and to none before the first policy: a *)
(* namespace's groups hold only ports that are in the namespace, in the    *)
(* group's zone, or whose deletion has failed.                             *)
(***************************************************************************)
GroupsFollowPorts ==
  \A w \in member : w[1].kind \in Groups =>
    /\ w[1].ns \in enforcing
    /\ w[2] \in ports[w[1].ns][w[1].az] \cup kept

(***************************************************************************)
(* Ports live in one zone but policies of all zones match their addresses: *)
(* every zone's sets hold the addresses of all ports of the namespace, and *)
(* those of the sub-namespace they were created for.                       *)
(***************************************************************************)
AddressesReachEveryAz ==
  \A ns \in Namespaces, az \in AZs, f \in FamilySet :
    /\ \A b \in AZs : \A p \in ports[ns][b] :
         <<SetRow(az, ns, f, 0), p>> \in member \cup lost
    /\ \A k \in DOMAIN sub[ns] : \A p \in sub[ns][k] :
         <<SetRow(az, ns, f, k), p>> \in member \cup lost

(***************************************************************************)
(* The rules between two sub-namespaces match the addresses of the ports   *)
(* these were created for, in the rule's family.  So it is with one family *)
(* of addresses; with two, the index of a sub-namespace's sets is not its  *)
(* number (ovn_kubernetes.py:130, 249).                                    *)
(***************************************************************************)
SubPoliciesNameTheirSets ==
  \A r \in allowed : /\ r.from = SetRow(FirstAz, r.ns, r.family, r.src)
                     /\ r.to = SetRow(FirstAz, r.ns, r.family, r.dst)

(***************************************************************************)
(* No VIP is used twice, be it in one namespace or in two: the number of   *)
(* the subnet is the counter's value when the VIPs are provisioned, not    *)
(* when the namespace was created.                                         *)
(***************************************************************************)
NamespaceVipsDisjoint ==
  \A ns, m \in Namespaces :
    \A i \in DOMAIN vips[ns], j \in DOMAIN vips[m] :
      vips[ns][i] = vips[m][j] => ns = m /\ i = j

-----------------------------------------------------------------------------
(***************************************************************************)
(* Inductive strengthening: ports are in a namespace only once they have   *)
(* been provisioned; until the run fails, all groups of an enforcing       *)
(* namespace have its ports, with or without ACLs; and only enforcing      *)
(* namespaces have ACLs or sub-namespaces.                                 *)
(***************************************************************************)
PortsAreUsed ==
  \A az \in AZs : /\ lsps[az] \subseteq used
                  /\ \A ns \in Namespaces : ports[ns][az] \subseteq used

EnforcedAreInGroups ==
  ~failed => \A ns \in enforcing, az \in AZs, g \in Groups :
               \A p \in ports[ns][az] \cap lsps[az] :
                 <<GroupRow(az, ns, g), p>> \in member \cup lost

OnlyEnforced ==
  /\ \A row \in acls : row.ns \in enforcing
  /\ \A ns \in Namespaces : sub[ns] # << >> => ns \in enforcing

IInv ==
  /\ TypeOK
  /\ PortsAreUsed
  /\ EnforcedAreInGroups
  /\ OnlyEnforced
  /\ PoliciesApplyToPorts
  /\ GroupsFollowPorts
=============================================================================
