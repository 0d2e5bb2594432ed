---------------------------- MODULE NamespaceProofs ----------------------------
(***************************************************************************)
(* Proofs about Namespace for any namespaces, zones, ports and families,   *)
(* and any number of failed writes.                                        *)
(***************************************************************************)
EXTENDS Namespace, SequenceTheorems, TLAPS

LEMMA FamiliesFacts ==
  /\ FamilySet \subseteq AddressSets
  /\ Families \in Seq(AddressSets)
  /\ Len(Families) \in {1, 2}
<1>1. CASE Families = <<"ip4">>
  BY <1>1 DEF FamilySet, AddressSets
<1>2. CASE Families = <<"ip6">>
  BY <1>2 DEF FamilySet, AddressSets
<1>3. CASE Families = <<"ip4", "ip6">>
  <2>1. /\ Families \in Seq(AddressSets) /\ Len(Families) = 2
    BY <1>3 DEF AddressSets
  <2>2. DOMAIN Families = 1..2
    BY <2>1
  <2>3. \A i \in 1..2 : Families[i] \in AddressSets
    BY <2>1
  <2>4. QED
    BY <2>1, <2>2, <2>3 DEF FamilySet
<1>4. QED
  BY <1>1, <1>2, <1>3, FamiliesAssumption

(***************************************************************************)
(* The rows written to are rows.                                           *)
(***************************************************************************)
LEMMA RowsAreRows ==
  ASSUME NEW ns \in Namespaces, NEW az \in AZs, NEW k \in 0..MaxSubs
  PROVE  /\ SetRows(ns, k) \subseteq Rows
         /\ \A row \in SetRows(ns, k) : row.kind \notin Groups
         /\ \A g \in Groups : /\ GroupRow(az, ns, g) \in Rows
                              /\ GroupRow(az, ns, g).kind = g
                              /\ GroupRow(az, ns, g).ns = ns
                              /\ GroupRow(az, ns, g).az = az
<1>1. FamilySet \subseteq AddressSets
  BY FamiliesFacts
<1>2. 0 \in 0..MaxSubs
  BY BoundsAssumption
<1>3. \A b \in AZs, f \in FamilySet : /\ SetRow(b, ns, f, k) \in Rows
                                      /\ SetRow(b, ns, f, k).kind = f
  BY <1>1 DEF SetRow, Rows
<1>4. SetRows(ns, k) \subseteq Rows
  BY <1>3 DEF SetRows
<1>5. \A row \in SetRows(ns, k) : row.kind \in AddressSets
  BY <1>1, <1>3 DEF SetRows
<1>6. \A f \in AddressSets : f \notin Groups
  BY DEF AddressSets, Groups
<1>7. \A g \in Groups : /\ GroupRow(az, ns, g) \in Rows
                        /\ GroupRow(az, ns, g).kind = g
                        /\ GroupRow(az, ns, g).ns = ns
                        /\ GroupRow(az, ns, g).az = az
  BY <1>2 DEF GroupRow, Rows
<1>8. QED
  BY <1>4, <1>5, <1>6, <1>7

(***************************************************************************)
(* What a write leaves: nothing disappears, nothing else appears, and what *)
(* should have been added is there or among the lost.                      *)
(***************************************************************************)
LEMMA AddsFacts ==
  ASSUME NEW W, Adds(W)
  PROVE  /\ member \subseteq member'
         /\ member' \subseteq member \cup W
         /\ lost \subseteq lost'
         /\ lost' \subseteq lost \cup W
         /\ W \subseteq member' \cup lost'
<1>1. PICK L \in Losses(W) : /\ lost' = lost \cup L
                             /\ member' = member \cup (W \ L)
  BY DEF Adds
<1>2. L \subseteq W
  BY DEF Losses
<1>3. QED
  BY <1>1, <1>2

LEMMA GroupWritesAreWrites ==
  ASSUME NEW ns \in Namespaces, NEW az \in AZs, NEW ps \in SUBSET Ports
  PROVE  /\ GroupWrites(ns, az, ps) \subseteq Rows \X Ports
         /\ \A w \in GroupWrites(ns, az, ps) :
              w[1].ns = ns /\ w[1].az = az /\ w[2] \in ps
         /\ \A g \in Groups, p \in ps :
              <<GroupRow(az, ns, g), p>> \in GroupWrites(ns, az, ps)
<1>1. 0 \in 0..MaxSubs
  BY BoundsAssumption
<1>2. QED
  BY <1>1, RowsAreRows DEF GroupWrites

(***************************************************************************)
(* The pairs every action writes.                                          *)
(***************************************************************************)
LEMMA OwnSetWrites ==
  ASSUME NEW ns \in Namespaces, NEW az \in AZs, NEW ps \in SUBSET Ports
  PROVE  /\ SetRows(ns, 0) \X ps \subseteq Rows \X Ports
         /\ Joined(ns, az, ps) \subseteq GroupWrites(ns, az, ps)
         /\ Joined(ns, az, ps) \subseteq Rows \X Ports
<1>1. 0 \in 0..MaxSubs
  BY BoundsAssumption
<1>2. SetRows(ns, 0) \subseteq Rows
  BY <1>1, RowsAreRows
<1>3. Joined(ns, az, ps) \subseteq GroupWrites(ns, az, ps)
  BY DEF Joined
<1>4. GroupWrites(ns, az, ps) \subseteq Rows \X Ports
  BY GroupWritesAreWrites
<1>5. QED
  BY <1>2, <1>3, <1>4

LEMMA EnforceWritesAreWrites ==
  ASSUME NEW ns \in Namespaces,
         ports \in [Namespaces -> [AZs -> SUBSET Ports]]
  PROVE  /\ EnforceWrites(ns) \subseteq Rows \X Ports
         /\ ns \notin enforcing =>
              \A az \in AZs : GroupWrites(ns, az, ports[ns][az])
                                \subseteq EnforceWrites(ns)
         /\ \A w \in EnforceWrites(ns) :
              w[1].ns = ns /\ w[1].az \in AZs /\ w[2] \in ports[ns][w[1].az]
<1>1. \A az \in AZs : ports[ns][az] \in SUBSET Ports
  OBVIOUS
<1>2. \A az \in AZs :
        /\ GroupWrites(ns, az, ports[ns][az]) \subseteq Rows \X Ports
        /\ \A w \in GroupWrites(ns, az, ports[ns][az]) :
             w[1].ns = ns /\ w[1].az = az /\ w[2] \in ports[ns][az]
  BY <1>1, GroupWritesAreWrites
<1>3. \A w \in EnforceWrites(ns) :
        \E az \in AZs : w \in GroupWrites(ns, az, ports[ns][az])
  BY DEF EnforceWrites
<1>4. \A w \in EnforceWrites(ns) :
        /\ w \in Rows \X Ports
        /\ w[1].ns = ns /\ w[1].az \in AZs /\ w[2] \in ports[ns][w[1].az]
  BY <1>2, <1>3
<1>5. ns \notin enforcing =>
        \A az \in AZs : GroupWrites(ns, az, ports[ns][az])
                          \subseteq EnforceWrites(ns)
  BY DEF EnforceWrites
<1>6. QED
  BY <1>4, <1>5

LEMMA HandlesFacts ==
  ASSUME NEW ns \in Namespaces, NEW k \in 0..MaxSubs
  PROVE  /\ Handles(ns, k) \in Seq(Rows)
         /\ Len(Handles(ns, k)) = Len(Families)
         /\ Len(Families) \in {1, 2}
         /\ Len(Handles(ns, k)) >= 1
         /\ Handles(ns, k)[1] = SetRow(FirstAz, ns, Families[1], k)
<1>1. /\ Len(Families) \in {1, 2}
      /\ Families \in Seq(AddressSets)
  BY FamiliesFacts
<1>2. DOMAIN Families = 1..Len(Families)
  BY <1>1
<1>3. \A i \in DOMAIN Families :
        SetRow(FirstAz, ns, Families[i], k) \in Rows
  BY <1>1, <1>2, AzAssumption DEF SetRow, Rows
<1>4. Handles(ns, k) \in [1..Len(Families) -> Rows]
  BY <1>2, <1>3 DEF Handles
<1>5. Handles(ns, k) \in Seq(Rows) /\ Len(Handles(ns, k)) = Len(Families)
  BY <1>1, <1>4
<1>6. Handles(ns, k)[1] = SetRow(FirstAz, ns, Families[1], k)
  BY <1>1, <1>2 DEF Handles
<1>7. QED
  BY <1>1, <1>5, <1>6

LEMMA SubWrites ==
  ASSUME NEW ns \in Namespaces, NEW k \in 0..MaxSubs,
         NEW ps \in SUBSET Ports, NEW q
  PROVE  /\ ({SubGroup(ns, k)} \X (ps \ q)) \cup (SetRows(ns, k) \X ps)
              \subseteq Rows \X Ports
         /\ SubGroup(ns, k).kind \notin Groups
<1>1. SubGroup(ns, k) \in Rows /\ SubGroup(ns, k).kind \notin Groups
  BY AzAssumption DEF SubGroup, Rows, Groups
<1>2. SetRows(ns, k) \subseteq Rows
  BY AzAssumption, RowsAreRows
<1>3. QED
  BY <1>1, <1>2

LEMMA InitTypeOK == Init => TypeOK
<1> SUFFICES ASSUME Init
             PROVE  TypeOK
  OBVIOUS
<1>1. \A ns \in Namespaces : Len(sub[ns]) <= Len(subAs[ns])
  BY DEF Init
<1>2. /\ sub \in [Namespaces -> Seq(SUBSET Ports)]
      /\ subAs \in [Namespaces -> Seq(Rows)]
      /\ vips \in [Namespaces ->
                     Seq([family : AddressSets, net : Nat, host : Nat])]
  BY DEF Init
<1>3. /\ lsps \in [AZs -> SUBSET Ports]
      /\ ports \in [Namespaces -> [AZs -> SUBSET Ports]]
  BY DEF Init
<1>4. QED
  BY <1>1, <1>2, <1>3 DEF Init, TypeOK

LEMMA StepTypeOK == TypeOK /\ [Next]_vars => TypeOK'
<1> SUFFICES ASSUME TypeOK, [Next]_vars
             PROVE  TypeOK'
  OBVIOUS
<1> USE DEF TypeOK
<1>1. ASSUME NEW ns \in Namespaces, Create(ns)
      PROVE  TypeOK'
  <2>1. nNs' \in Nat
    BY <1>1 DEF Create, Counted
  <2>2. QED
    BY <1>1, <2>1 DEF Create, content, subs
<1>2. ASSUME NEW ns \in Namespaces, NEW az \in AZs, NEW ps \in SUBSET Ports,
             AddPorts(ns, az, ps)
      PROVE  TypeOK'
  <2> DEFINE W == (SetRows(ns, 0) \X ps) \cup Joined(ns, az, ps)
  <2>1. W \subseteq Rows \X Ports
    <3>1. SetRows(ns, 0) \X ps \subseteq Rows \X Ports
      BY OwnSetWrites
    <3>2. Joined(ns, az, ps) \subseteq Rows \X Ports
      BY OwnSetWrites
    <3>3. QED
      BY <3>1, <3>2
  <2>2. Adds(W)
    BY <1>2 DEF AddPorts
  <2>3. member' \subseteq member \cup W /\ lost' \subseteq lost \cup W
    <3> HIDE DEF W
    <3>1. QED
      BY <2>2, AddsFacts
  <2>4. member' \subseteq Rows \X Ports /\ lost' \subseteq Rows \X Ports
    <3> HIDE DEF W
    <3>1. QED
      BY <2>1, <2>3
  <2>5. /\ lsps' \in [AZs -> SUBSET Ports] /\ used' \subseteq Ports
        /\ ports' \in [Namespaces -> [AZs -> SUBSET Ports]]
    BY <1>2 DEF AddPorts
  <2>6. UNCHANGED <<count, enforcing, kept, acls, subs, vips, failed>>
    BY <1>2 DEF AddPorts
  <2>7. QED
    BY <2>4, <2>5, <2>6 DEF count, subs
<1>3. ASSUME NEW ns \in Namespaces, NEW az \in AZs, NEW ps \in SUBSET Ports,
             UnprovisionPorts(ns, az, ps)
      PROVE  TypeOK'
  <2>1. /\ ports' = [ports EXCEPT ![ns][az] = @ \ ps]
        /\ Deletes(ps)
        /\ UNCHANGED <<count, used, enforcing, acls, subs, vips, failed>>
    BY <1>3 DEF UnprovisionPorts
  <2>2. /\ member' \subseteq member /\ UNCHANGED lost
        /\ kept' \subseteq kept \cup ps
        /\ lsps' \in [AZs -> SUBSET Ports]
    BY <2>1 DEF Deletes, Without
  <2>3. ports' \in [Namespaces -> [AZs -> SUBSET Ports]]
    BY <2>1
  <2>4. QED
    BY <2>1, <2>2, <2>3 DEF count, subs
<1>4. ASSUME NEW ns \in Namespaces, NEW az \in AZs, NEW gs \in SUBSET Groups,
             Policy(ns, az, gs)
      PROVE  TypeOK'
  <2>1. /\ enforcing' = enforcing \cup {ns} /\ ns \in created
        /\ Adds(EnforceWrites(ns))
        /\ acls' = acls \cup {GroupRow(az, ns, g) : g \in gs}
        /\ UNCHANGED <<count, lsps, used, ports, kept, subs, vips, failed>>
    BY <1>4 DEF Policy
  <2>2. EnforceWrites(ns) \subseteq Rows \X Ports
    BY EnforceWritesAreWrites
  <2>3. /\ member' \subseteq member \cup EnforceWrites(ns)
        /\ lost' \subseteq lost \cup EnforceWrites(ns)
    BY <2>1, AddsFacts
  <2>4. acls' \subseteq [az : AZs, kind : Groups, ns : Namespaces, sub : {0}]
    BY <2>1 DEF GroupRow
  <2>5. QED
    BY <2>1, <2>2, <2>3, <2>4 DEF count, subs
<1>5. ASSUME NEW ns \in Namespaces, NEW ps \in SUBSET Ports,
             CreateSubNs(ns, ps)
      PROVE  TypeOK'
  <2> DEFINE k == NextSub(ns)
  <2>1. k \in 0..MaxSubs /\ k = Len(sub[ns]) + 1
    BY <1>5, BoundsAssumption DEF CreateSubNs, NextSub
  <2>2. /\ sub' = [sub EXCEPT ![ns] = Append(@, ps)]
        /\ subAs' = [subAs EXCEPT ![ns] = @ \o Handles(ns, k)]
        /\ UNCHANGED <<count, lsps, used, ports, enforcing, kept, acls,
                       allowed, vips, failed>>
    BY <1>5 DEF CreateSubNs
  <2>3. PICK q \in Refused(ps) :
          Adds(({SubGroup(ns, k)} \X (ps \ q)) \cup (SetRows(ns, k) \X ps))
    BY <1>5 DEF CreateSubNs
  <2>4. member' \subseteq Rows \X Ports /\ lost' \subseteq Rows \X Ports
    <3> DEFINE W == ({SubGroup(ns, k)} \X (ps \ q)) \cup (SetRows(ns, k) \X ps)
    <3> HIDE DEF k
    <3>1. W \subseteq Rows \X Ports
      BY <2>1, SubWrites
    <3> HIDE DEF W
    <3>2. member' \subseteq member \cup W /\ lost' \subseteq lost \cup W
      BY <2>3, AddsFacts DEF W
    <3>3. QED
      BY <3>1, <3>2
  <2>5. /\ Handles(ns, k) \in Seq(Rows) /\ Len(Handles(ns, k)) >= 1
    <3>1. k \in 0..MaxSubs
      BY <2>1
    <3> HIDE DEF k, TypeOK
    <3>2. QED
      BY <3>1, HandlesFacts
  <2>6. /\ sub' \in [Namespaces -> Seq(SUBSET Ports)]
        /\ subAs' \in [Namespaces -> Seq(Rows)]
    BY <2>2, <2>5
  <2>7. \A ms \in Namespaces : Len(sub'[ms]) <= Len(subAs'[ms])
    <3> HIDE DEF k
    <3>1. ASSUME NEW ms \in Namespaces
          PROVE  Len(sub'[ms]) <= Len(subAs'[ms])
      <4>1. CASE ms = ns
        <5>1. Len(sub'[ms]) = Len(sub[ns]) + 1
          BY <2>2, <4>1
        <5>2. Len(subAs'[ms]) = Len(subAs[ns]) + Len(Handles(ns, k))
          BY <2>2, <2>5, <4>1
        <5>3. QED
          BY <2>5, <5>1, <5>2
      <4>2. CASE ms # ns
        BY <2>2, <4>2
      <4>3. QED
        BY <4>1, <4>2
    <3>2. QED
      BY <3>1
  <2>8. QED
    BY <2>2, <2>4, <2>6, <2>7 DEF count
<1>6. ASSUME NEW ns \in Namespaces, AllowSubNs(ns)
      PROVE  TypeOK'
  <2>1. /\ acls' = acls \cup {GroupRow(FirstAz, ns, "allow")}
        /\ UNCHANGED <<count, lsps, used, ports, enforcing, content, sub,
                       subAs, vips>>
        /\ failed' \in BOOLEAN
        /\ Len(sub[ns]) >= 2
        /\ allowed' = allowed \cup {Rule(ns, f, Len(sub[ns]) - 1, Len(sub[ns])) :
                                      f \in FamilySet}
    BY <1>6 DEF AllowSubNs
  <2>2. acls' \subseteq [az : AZs, kind : Groups, ns : Namespaces, sub : {0}]
    BY <2>1, AzAssumption DEF GroupRow, Groups
  <2>3. /\ Len(sub[ns]) \in DOMAIN subAs[ns]
        /\ Len(sub[ns]) - 1 \in DOMAIN subAs[ns]
        /\ Len(sub[ns]) \in Nat /\ Len(sub[ns]) - 1 \in Nat
    BY <2>1
  <2>4. \A f \in FamilySet :
          Rule(ns, f, Len(sub[ns]) - 1, Len(sub[ns])) \in Rules
    <3>1. FamilySet \subseteq AddressSets
      BY FamiliesFacts
    <3>2. /\ subAs[ns][Len(sub[ns])] \in Rows
          /\ subAs[ns][Len(sub[ns]) - 1] \in Rows
      BY <2>3
    <3>3. QED
      BY <2>3, <3>1, <3>2 DEF Rule, Rules
  <2>5. QED
    BY <2>1, <2>2, <2>4 DEF count, content
<1>7. ASSUME NEW ns \in Namespaces, NEW f \in FamilySet, ProvisionVips(ns, f)
      PROVE  TypeOK'
  <2>1. f \in AddressSets
    BY FamiliesFacts
  <2>2. /\ vips' = [vips EXCEPT ![ns] = @ \o NewVips(ns, f)]
        /\ UNCHANGED <<count, lsps, used, ports, enforcing, content, acls,
                       subs, failed>>
    BY <1>7 DEF ProvisionVips
  <2> DEFINE Vip == [family : AddressSets, net : Nat, host : Nat]
  <2>3. \A i \in 1..NBackendLists :
          [family |-> f, net |-> nNs, host |-> Len(vips[ns]) + i] \in Vip
    BY <2>1
  <2>4. NewVips(ns, f) \in [1..NBackendLists -> Vip]
    BY <2>3 DEF NewVips
  <2>5. vips \in [Namespaces -> Seq(Vip)]
    OBVIOUS
  <2>6. vips' \in [Namespaces -> Seq(Vip)]
    <3> HIDE DEF Vip
    <3>1. NewVips(ns, f) \in Seq(Vip)
      BY <2>4, BoundsAssumption
    <3>2. QED
      BY <2>2, <2>5, <3>1
  <2>7. QED
    BY <2>2, <2>6 DEF count, content, subs
<1>8. ASSUME NEW ns \in Namespaces, Unprovision(ns)
      PROVE  TypeOK'
  <2>1. PICK D \in SUBSET UNION {ports[ns][az] : az \in AZs} :
          /\ kept' = kept \cup ((UNION {ports[ns][az] : az \in AZs}) \ D)
          /\ member' \subseteq member
          /\ lsps' = [az \in AZs |-> lsps[az] \ D]
    BY <1>8 DEF Unprovision, Without
  <2>2. /\ acls' \subseteq acls /\ failed' = TRUE
        /\ UNCHANGED <<count, used, ports, enforcing, lost, subs, vips>>
    BY <1>8 DEF Unprovision
  <2>3. kept' \subseteq Ports
    BY <2>1
  <2>4. QED
    BY <2>1, <2>2, <2>3 DEF count, subs
<1>9. CASE UNCHANGED vars
  BY <1>9 DEF vars, count, content, subs
<1>10. {"deny_igr", "deny_egr"} \in SUBSET Groups /\ {"allow"} \in SUBSET Groups
  BY DEF Groups
<1>11. QED
  BY <1>1, <1>2, <1>3, <1>4, <1>5, <1>6, <1>7, <1>8, <1>9, <1>10 DEF Next

(***************************************************************************)
(* The state stays well-typed.                                             *)
(***************************************************************************)
THEOREM TypeCorrect == Spec => []TypeOK
<1>1. Init => TypeOK
  BY InitTypeOK
<1>2. TypeOK /\ [Next]_vars => TypeOK'
  BY StepTypeOK
<1>3. QED
  BY <1>1, <1>2, PTL DEF Spec

LEMMA InitIInv == Init => IInv
<1> SUFFICES ASSUME Init
             PROVE  IInv
  OBVIOUS
<1>1. TypeOK
  BY InitTypeOK
<1>2. PortsAreUsed
  BY DEF Init, PortsAreUsed
<1>3. EnforcedAreInGroups /\ OnlyEnforced /\ PoliciesApplyToPorts
  BY DEF Init, EnforcedAreInGroups, OnlyEnforced, PoliciesApplyToPorts
<1>4. GroupsFollowPorts
  BY DEF Init, GroupsFollowPorts
<1>5. QED
  BY <1>1, <1>2, <1>3, <1>4 DEF IInv

(***************************************************************************)
(* An ACL's row is one of the three groups of its namespace and zone.      *)
(***************************************************************************)
LEMMA AclRows ==
  ASSUME TypeOK
  PROVE  \A row \in acls :
           /\ row.kind \in Groups /\ row.ns \in Namespaces /\ row.az \in AZs
           /\ row = GroupRow(row.az, row.ns, row.kind)
<1>1. acls \subseteq [az : AZs, kind : Groups, ns : Namespaces, sub : {0}]
  BY DEF TypeOK
<1>2. QED
  BY <1>1 DEF GroupRow

(***************************************************************************)
(* Until the run fails, what is in the groups of enforcing namespaces      *)
(* makes the policies apply.                                               *)
(***************************************************************************)
LEMMA EnforcedSuffices ==
  TypeOK /\ OnlyEnforced /\ EnforcedAreInGroups /\ ~failed
    => PoliciesApplyToPorts
<1> SUFFICES ASSUME TypeOK, OnlyEnforced, EnforcedAreInGroups, ~failed
             PROVE  PoliciesApplyToPorts
  OBVIOUS
<1>1. ASSUME NEW row \in acls, NEW p \in ports[row.ns][row.az] \cap lsps[row.az]
      PROVE  <<row, p>> \in member \cup lost
  <2>1. /\ row.kind \in Groups /\ row.ns \in Namespaces /\ row.az \in AZs
        /\ row = GroupRow(row.az, row.ns, row.kind)
    BY AclRows
  <2>2. row.ns \in enforcing
    BY DEF OnlyEnforced
  <2>3. <<GroupRow(row.az, row.ns, row.kind), p>> \in member \cup lost
    BY <2>1, <2>2 DEF EnforcedAreInGroups
  <2>4. QED
    BY <2>1, <2>3
<1>2. QED
  BY <1>1 DEF PoliciesApplyToPorts
(***************************************************************************)
(* One step per action.  PoliciesApplyToPorts follows from the rest except *)
(* in the steps that may fail the run, AllowSubNs and Unprovision.         *)
(***************************************************************************)
LEMMA StepIInv == IInv /\ ~failed /\ Next => IInv'
<1> SUFFICES ASSUME IInv, ~failed, Next
             PROVE  IInv'
  OBVIOUS
<1>0. TypeOK /\ TypeOK'
  BY StepTypeOK DEF IInv
<1> DEFINE Others == PortsAreUsed /\ EnforcedAreInGroups /\ OnlyEnforced
                       /\ GroupsFollowPorts
<1>a. Others /\ PoliciesApplyToPorts
  BY DEF IInv
<1>b. ASSUME Others', ~failed'
      PROVE  IInv'
  <2>1. (TypeOK /\ OnlyEnforced /\ EnforcedAreInGroups /\ ~failed)'
           => PoliciesApplyToPorts'
    BY EnforcedSuffices, PTL
  <2>2. QED
    BY <1>0, <1>b, <2>1 DEF IInv
<1>1. ASSUME NEW ns \in Namespaces, Create(ns)
      PROVE  IInv'
  <2>1. UNCHANGED <<lsps, used, ports, enforcing, content, acls, subs, failed>>
    BY <1>1 DEF Create
  <2>2. Others'
    BY <1>a, <2>1
       DEF content, subs, PortsAreUsed, EnforcedAreInGroups, OnlyEnforced,
           GroupsFollowPorts
  <2>3. QED
    BY <1>b, <2>1, <2>2
<1>2. ASSUME NEW ns \in Namespaces, NEW az \in AZs, NEW ps \in SUBSET Ports,
             AddPorts(ns, az, ps)
      PROVE  IInv'
  <2> DEFINE W == (SetRows(ns, 0) \X ps) \cup Joined(ns, az, ps)
  <2>1. /\ ps \cap used = {} /\ used' = used \cup ps
        /\ lsps' = [lsps EXCEPT ![az] = @ \cup ps]
        /\ ports' = [ports EXCEPT ![ns][az] = @ \cup ps]
        /\ Adds(W)
        /\ UNCHANGED <<count, enforcing, kept, acls, subs, failed>>
    BY <1>2 DEF AddPorts
  <2>2. /\ member \subseteq member' /\ member' \subseteq member \cup W
        /\ lost \subseteq lost' /\ W \subseteq member' \cup lost'
    <3> HIDE DEF W
    <3>1. QED
      BY <2>1, AddsFacts
  <2>3. /\ lsps \in [AZs -> SUBSET Ports]
        /\ ports \in [Namespaces -> [AZs -> SUBSET Ports]]
    BY <1>0 DEF TypeOK
  <2>4. /\ \A b \in AZs : lsps'[b] = IF b = az THEN lsps[b] \cup ps ELSE lsps[b]
        /\ \A m \in Namespaces, b \in AZs :
             ports'[m][b] = IF m = ns /\ b = az THEN ports[m][b] \cup ps
                            ELSE ports[m][b]
    BY <2>1, <2>3
  <2>5. PortsAreUsed'
    BY <1>a, <2>1, <2>4 DEF PortsAreUsed
  <2>6. OnlyEnforced'
    BY <1>a, <2>1 DEF OnlyEnforced, subs
  <2>7. EnforcedAreInGroups'
    <3>1. ASSUME NEW m \in enforcing, NEW b \in AZs, NEW g \in Groups,
                 NEW p \in ports'[m][b] \cap lsps'[b]
          PROVE  <<GroupRow(b, m, g), p>> \in member' \cup lost'
      <4>1. m \in Namespaces
        BY <1>0 DEF TypeOK
      <4>2. CASE p \in ports[m][b] \cap lsps[b]
        <5>1. <<GroupRow(b, m, g), p>> \in member \cup lost
          BY <1>a, <4>2 DEF EnforcedAreInGroups
        <5>2. QED
          BY <2>2, <5>1
      <4>3. CASE p \notin ports[m][b] \cap lsps[b]
        <5>1. p \in ps /\ m = ns /\ b = az
          BY <1>a, <2>1, <2>4, <4>1, <4>3 DEF PortsAreUsed
        <5>2. <<GroupRow(b, m, g), p>> \in GroupWrites(ns, az, ps)
          BY <5>1, GroupWritesAreWrites
        <5>3. <<GroupRow(b, m, g), p>> \in W
          BY <5>1, <5>2 DEF Joined
        <5>4. QED
          BY <2>2, <5>3
      <4>4. QED
        BY <4>2, <4>3
    <3>2. QED
      BY <2>1, <3>1 DEF EnforcedAreInGroups
  <2>8. GroupsFollowPorts'
    <3>1. ASSUME NEW w \in member', w[1].kind \in Groups
          PROVE  /\ w[1].ns \in enforcing
                 /\ w[2] \in ports'[w[1].ns][w[1].az] \cup kept
      <4>1. w \in Rows \X Ports
        BY <1>0 DEF TypeOK
      <4>2. w[1].ns \in Namespaces /\ w[1].az \in AZs
        BY <4>1 DEF Rows
      <4>3. CASE w \in member
        BY <1>a, <2>4, <3>1, <4>2, <4>3 DEF GroupsFollowPorts
      <4>4. CASE w \in SetRows(ns, 0) \X ps
        <5>1. 0 \in 0..MaxSubs
          BY BoundsAssumption
        <5>2. w[1].kind \notin Groups
          BY <4>4, <5>1, RowsAreRows
        <5>3. QED
          BY <3>1, <5>2
      <4>5. CASE w \in Joined(ns, az, ps)
        <5>1. ns \in enforcing /\ w \in GroupWrites(ns, az, ps)
          BY <4>5 DEF Joined
        <5>2. w[1].ns = ns /\ w[1].az = az /\ w[2] \in ps
          BY <5>1, GroupWritesAreWrites
        <5>3. QED
          BY <2>4, <5>1, <5>2
      <4>6. QED
        BY <2>2, <4>3, <4>4, <4>5
    <3>2. QED
      BY <2>1, <3>1 DEF GroupsFollowPorts
  <2>9. QED
    BY <1>b, <2>1, <2>5, <2>6, <2>7, <2>8
<1>3. ASSUME NEW ns \in Namespaces, NEW az \in AZs, NEW ps \in SUBSET Ports,
             UnprovisionPorts(ns, az, ps)
      PROVE  IInv'
  <2>1. /\ ports' = [ports EXCEPT ![ns][az] = @ \ ps]
        /\ Deletes(ps)
        /\ UNCHANGED <<count, used, enforcing, acls, subs, failed>>
    BY <1>3 DEF UnprovisionPorts
  <2>2. PICK D \in SUBSET ps :
          /\ kept' = kept \cup (ps \ D) /\ lost' = lost
          /\ member' = Without(D)
          /\ lsps' = [b \in AZs |-> lsps[b] \ D]
    BY <2>1 DEF Deletes
  <2>3. ports \in [Namespaces -> [AZs -> SUBSET Ports]]
    BY <1>0 DEF TypeOK
  <2>4. \A m \in Namespaces, b \in AZs :
          ports'[m][b] = IF m = ns /\ b = az THEN ports[m][b] \ ps
                         ELSE ports[m][b]
    BY <2>1, <2>3
  <2>5. PortsAreUsed'
    BY <1>a, <2>1, <2>2, <2>4 DEF PortsAreUsed
  <2>6. OnlyEnforced'
    BY <1>a, <2>1 DEF OnlyEnforced, subs
  <2>7. EnforcedAreInGroups'
    <3>1. ASSUME NEW m \in enforcing, NEW b \in AZs, NEW g \in Groups,
                 NEW p \in ports'[m][b] \cap lsps'[b]
          PROVE  <<GroupRow(b, m, g), p>> \in member' \cup lost'
      <4>1. m \in Namespaces
        BY <1>0 DEF TypeOK
      <4>2. p \in ports[m][b] \cap lsps[b] /\ p \notin D
        BY <2>2, <2>4, <4>1
      <4>3. <<GroupRow(b, m, g), p>> \in member \cup lost
        BY <1>a, <4>2 DEF EnforcedAreInGroups
      <4>4. QED
        BY <2>2, <4>2, <4>3 DEF Without
    <3>2. QED
      BY <2>1, <3>1 DEF EnforcedAreInGroups
  <2>8. GroupsFollowPorts'
    <3>1. ASSUME NEW w \in member', w[1].kind \in Groups
          PROVE  /\ w[1].ns \in enforcing
                 /\ w[2] \in ports'[w[1].ns][w[1].az] \cup kept'
      <4>1. w \in member /\ w \in Rows \X Ports /\ w[2] \notin D
        BY <1>0, <2>2, <3>1 DEF Without, TypeOK, Groups, AddressSets
      <4>2. w[1].ns \in Namespaces /\ w[1].az \in AZs
        BY <4>1 DEF Rows
      <4>3. w[1].ns \in enforcing /\ w[2] \in ports[w[1].ns][w[1].az] \cup kept
        BY <1>a, <3>1, <4>1 DEF GroupsFollowPorts
      <4>4. QED
        BY <2>2, <2>4, <4>1, <4>2, <4>3
    <3>2. QED
      BY <2>1, <3>1 DEF GroupsFollowPorts
  <2>9. QED
    BY <1>b, <2>1, <2>5, <2>6, <2>7, <2>8
<1>4. ASSUME NEW ns \in Namespaces, NEW az \in AZs, NEW gs \in SUBSET Groups,
             Policy(ns, az, gs)
      PROVE  IInv'
  <2>1. /\ enforcing' = enforcing \cup {ns}
        /\ Adds(EnforceWrites(ns))
        /\ acls' = acls \cup {GroupRow(az, ns, g) : g \in gs}
        /\ UNCHANGED <<lsps, used, ports, kept, subs, failed>>
    BY <1>4 DEF Policy
  <2>2. /\ member \subseteq member'
        /\ member' \subseteq member \cup EnforceWrites(ns)
        /\ lost \subseteq lost' /\ EnforceWrites(ns) \subseteq member' \cup lost'
    BY <2>1, AddsFacts
  <2>3. ports \in [Namespaces -> [AZs -> SUBSET Ports]]
    BY <1>0 DEF TypeOK
  <2>4. PortsAreUsed'
    BY <1>a, <2>1 DEF PortsAreUsed
  <2>5. OnlyEnforced'
    BY <1>a, <2>1 DEF OnlyEnforced, subs, GroupRow
  <2>6. EnforcedAreInGroups'
    <3>1. ASSUME NEW m \in enforcing', NEW b \in AZs, NEW g \in Groups,
                 NEW p \in ports[m][b] \cap lsps[b]
          PROVE  <<GroupRow(b, m, g), p>> \in member' \cup lost'
      <4>1. CASE m \in enforcing
        <5>1. <<GroupRow(b, m, g), p>> \in member \cup lost
          BY <1>a, <4>1 DEF EnforcedAreInGroups
        <5>2. QED
          BY <2>2, <5>1
      <4>2. CASE m \notin enforcing
        <5>1. m = ns /\ ns \notin enforcing
          BY <2>1, <4>2
        <5>2. <<GroupRow(b, m, g), p>> \in GroupWrites(ns, b, ports[ns][b])
          BY <2>3, <5>1, GroupWritesAreWrites
        <5>3. <<GroupRow(b, m, g), p>> \in EnforceWrites(ns)
          BY <2>3, <5>1, <5>2, EnforceWritesAreWrites
        <5>4. QED
          BY <2>2, <5>3
      <4>3. QED
        BY <4>1, <4>2
    <3>2. QED
      BY <2>1, <3>1 DEF EnforcedAreInGroups
  <2>7. GroupsFollowPorts'
    <3>1. ASSUME NEW w \in member', w[1].kind \in Groups
          PROVE  /\ w[1].ns \in enforcing'
                 /\ w[2] \in ports[w[1].ns][w[1].az] \cup kept
      <4>1. CASE w \in member
        BY <1>a, <2>1, <3>1, <4>1 DEF GroupsFollowPorts
      <4>2. CASE w \in EnforceWrites(ns)
        <5>1. w[1].ns = ns /\ w[2] \in ports[ns][w[1].az]
          BY <2>3, <4>2, EnforceWritesAreWrites
        <5>2. QED
          BY <2>1, <5>1
      <4>3. QED
        BY <2>2, <4>1, <4>2
    <3>2. QED
      BY <2>1, <3>1 DEF GroupsFollowPorts
  <2>8. QED
    BY <1>b, <2>1, <2>4, <2>5, <2>6, <2>7
<1>5. ASSUME NEW ns \in Namespaces, NEW ps \in SUBSET Ports,
             CreateSubNs(ns, ps)
      PROVE  IInv'
  <2> DEFINE k == NextSub(ns)
  <2>1. k \in 0..MaxSubs /\ ns \in enforcing
    BY <1>0, <1>5, BoundsAssumption DEF CreateSubNs, NextSub, TypeOK
  <2>2. /\ sub' = [sub EXCEPT ![ns] = Append(@, ps)]
        /\ UNCHANGED <<lsps, used, ports, enforcing, kept, acls, failed>>
    BY <1>5 DEF CreateSubNs
  <2>3. PICK q \in Refused(ps) :
          Adds(({SubGroup(ns, k)} \X (ps \ q)) \cup (SetRows(ns, k) \X ps))
    BY <1>5 DEF CreateSubNs
  <2> DEFINE W == ({SubGroup(ns, k)} \X (ps \ q)) \cup (SetRows(ns, k) \X ps)
  <2>4. /\ member \subseteq member' /\ member' \subseteq member \cup W
        /\ lost \subseteq lost'
    <3>1. Adds(W)
      BY <2>3
    <3> HIDE DEF W
    <3>2. QED
      BY <3>1, AddsFacts
  <2>5. \A w \in W : w[1].kind \notin Groups
    <3>1. k \in 0..MaxSubs
      BY <2>1
    <3> HIDE DEF k
    <3>2. SubGroup(ns, k).kind \notin Groups
      BY DEF SubGroup, Groups
    <3>3. \A row \in SetRows(ns, k) : row.kind \notin Groups
      BY <3>1, AzAssumption, RowsAreRows
    <3>4. QED
      BY <3>2, <3>3
  <2>6. PortsAreUsed'
    BY <1>a, <2>2 DEF PortsAreUsed
  <2>7. OnlyEnforced'
    <3>1. sub \in [Namespaces -> Seq(SUBSET Ports)]
      BY <1>0 DEF TypeOK
    <3>2. \A m \in Namespaces \ {ns} : sub'[m] = sub[m]
      BY <2>2, <3>1
    <3>3. QED
      BY <1>a, <2>1, <2>2, <3>2 DEF OnlyEnforced
  <2>8. EnforcedAreInGroups'
    <3> HIDE DEF W
    <3>1. QED
      BY <1>a, <2>2, <2>4 DEF EnforcedAreInGroups
  <2>9. GroupsFollowPorts'
    <3> HIDE DEF W
    <3>1. QED
      BY <1>a, <2>2, <2>4, <2>5 DEF GroupsFollowPorts
  <2>10. QED
    BY <1>b, <2>2, <2>6, <2>7, <2>8, <2>9
<1>6. ASSUME NEW ns \in Namespaces, AllowSubNs(ns)
      PROVE  IInv'
  <2>1. /\ acls' = acls \cup {GroupRow(FirstAz, ns, "allow")}
        /\ UNCHANGED <<lsps, used, ports, enforcing, content, sub>>
        /\ Len(sub[ns]) >= 2
    BY <1>6 DEF AllowSubNs
  <2>2. ns \in enforcing
    <3>1. sub[ns] # << >>
      BY <2>1
    <3>2. QED
      BY <1>a, <3>1 DEF OnlyEnforced
  <2>3. PortsAreUsed' /\ GroupsFollowPorts' /\ EnforcedAreInGroups'
    BY <1>a, <2>1
       DEF PortsAreUsed, GroupsFollowPorts, EnforcedAreInGroups, content
  <2>4. OnlyEnforced'
    BY <1>a, <2>1, <2>2 DEF OnlyEnforced, GroupRow
  <2>5. PoliciesApplyToPorts'
    <3>1. ASSUME NEW row \in acls',
                 NEW p \in ports[row.ns][row.az] \cap lsps[row.az]
          PROVE  <<row, p>> \in member \cup lost
      <4>1. CASE row \in acls
        BY <1>a, <4>1 DEF PoliciesApplyToPorts
      <4>2. CASE row = GroupRow(FirstAz, ns, "allow")
        <5>1. row.ns = ns /\ row.az = FirstAz /\ "allow" \in Groups
          BY <4>2 DEF GroupRow, Groups
        <5>2. QED
          BY <1>a, <2>2, <4>2, <5>1, AzAssumption DEF EnforcedAreInGroups
      <4>3. QED
        BY <2>1, <4>1, <4>2
    <3>2. QED
      BY <2>1, <3>1 DEF PoliciesApplyToPorts, content
  <2>6. QED
    BY <1>0, <2>3, <2>4, <2>5 DEF IInv
<1>7. ASSUME NEW ns \in Namespaces, NEW f \in FamilySet, ProvisionVips(ns, f)
      PROVE  IInv'
  <2>1. UNCHANGED <<lsps, used, ports, enforcing, content, acls, subs, failed>>
    BY <1>7 DEF ProvisionVips
  <2>2. Others'
    BY <1>a, <2>1
       DEF content, subs, PortsAreUsed, EnforcedAreInGroups, OnlyEnforced,
           GroupsFollowPorts
  <2>3. QED
    BY <1>b, <2>1, <2>2
<1>8. ASSUME NEW ns \in Namespaces, Unprovision(ns)
      PROVE  IInv'
  <2>1. PICK D \in SUBSET (UNION {ports[ns][az] : az \in AZs}) :
          /\ kept' = kept \cup ((UNION {ports[ns][az] : az \in AZs}) \ D)
          /\ member' = {w \in Without(D) :
                          \A g \in Groups : w[1] # GroupRow(FirstAz, ns, g)}
          /\ lsps' = [az \in AZs |-> lsps[az] \ D]
    BY <1>8 DEF Unprovision
  <2>2. /\ acls' = acls \ {GroupRow(FirstAz, ns, g) : g \in Groups}
        /\ failed' = TRUE
        /\ UNCHANGED <<used, ports, enforcing, lost, subs>>
    BY <1>8 DEF Unprovision
  <2>3. PortsAreUsed' /\ OnlyEnforced' /\ EnforcedAreInGroups'
    BY <1>a, <2>1, <2>2
       DEF PortsAreUsed, OnlyEnforced, EnforcedAreInGroups, subs
  <2>4. GroupsFollowPorts'
    BY <1>a, <2>1, <2>2 DEF GroupsFollowPorts, Without
  <2>5. PoliciesApplyToPorts'
    <3>1. ASSUME NEW row \in acls',
                 NEW p \in ports[row.ns][row.az] \cap lsps'[row.az]
          PROVE  <<row, p>> \in member' \cup lost
      <4>1. row \in acls /\ \A g \in Groups : row # GroupRow(FirstAz, ns, g)
        BY <2>2
      <4>2. row.az \in AZs
        BY <1>0, <4>1, AclRows
      <4>3. p \in lsps[row.az] /\ p \notin D
        BY <2>1, <4>2
      <4>4. <<row, p>> \in member \cup lost
        BY <1>a, <4>1, <4>3 DEF PoliciesApplyToPorts
      <4>5. QED
        BY <2>1, <4>1, <4>3, <4>4 DEF Without
    <3>2. QED
      BY <2>2, <3>1 DEF PoliciesApplyToPorts
  <2>6. QED
    BY <1>0, <2>3, <2>4, <2>5 DEF IInv
<1>9. {"deny_igr", "deny_egr"} \in SUBSET Groups /\ {"allow"} \in SUBSET Groups
  BY DEF Groups
<1>10. QED
  BY <1>1, <1>2, <1>3, <1>4, <1>5, <1>6, <1>7, <1>8, <1>9 DEF Next

LEMMA IInvHolds == Spec => []IInv
<1>1. Init => IInv
  BY InitIInv
<1>2. IInv /\ [Next]_vars => IInv'
  <2>1. ASSUME IInv, Next
        PROVE  IInv'
    BY <2>1, StepIInv DEF Next
  <2>2. ASSUME IInv, UNCHANGED vars
        PROVE  IInv'
    BY <2>2
       DEF IInv, TypeOK, PortsAreUsed, EnforcedAreInGroups, OnlyEnforced,
           PoliciesApplyToPorts, GroupsFollowPorts, vars, count, content, subs
  <2>3. QED
    BY <2>1, <2>2
<1>3. QED
  BY <1>1, <1>2, PTL DEF Spec

(***************************************************************************)
(* A policy applies to every port of its namespace and zone, in whatever   *)
(* order add_ports, enforce and unprovision_ports were called.             *)
(***************************************************************************)
THEOREM PoliciesApply == Spec => []PoliciesApplyToPorts
<1>1. IInv => PoliciesApplyToPorts
  BY DEF IInv
<1>2. QED
  BY <1>1, IInvHolds, PTL

(***************************************************************************)
(* A namespace's groups hold none but its ports, and none before enforce.  *)
(***************************************************************************)
THEOREM GroupsHoldOwnPorts == Spec => []GroupsFollowPorts
<1>1. IInv => GroupsFollowPorts
  BY DEF IInv
<1>2. QED
  BY <1>1, IInvHolds, PTL
-----------------------------------------------------------------------------
(***************************************************************************)
(* Virtual IPs.  A VIP's host is its index; its subnet is the counter when *)
(* its namespace was the last, so that those of all others are below.      *)
(***************************************************************************)
VipsTrail ==
  /\ \A m \in Namespaces : \A i \in DOMAIN vips[m] :
       /\ vips[m][i].host = i
       /\ vips[m][i].net <= nNs
       /\ m \notin last => vips[m][i].net < nNs
  /\ \A m, n \in last : m = n

VInv == TypeOK /\ VipsTrail /\ NamespaceVipsDisjoint

LEMMA NewVipsFacts ==
  ASSUME TypeOK, NEW ns \in Namespaces, NEW f \in FamilySet,
         ProvisionVips(ns, f)
  PROVE  /\ \A m \in Namespaces \ {ns} : vips'[m] = vips[m]
         /\ DOMAIN vips[ns] \subseteq DOMAIN vips'[ns]
         /\ \A i \in DOMAIN vips'[ns] :
              IF i \in DOMAIN vips[ns]
              THEN vips'[ns][i] = vips[ns][i]
              ELSE vips'[ns][i].host = i /\ vips'[ns][i].net = nNs
<1> DEFINE Vip == [family : AddressSets, net : Nat, host : Nat]
           New == NewVips(ns, f)
<1>1. vips' = [vips EXCEPT ![ns] = @ \o New]
  BY DEF ProvisionVips
<1>2. vips \in [Namespaces -> Seq(Vip)] /\ nNs \in Nat
  BY DEF TypeOK
<1>3. \A i \in 1..NBackendLists :
        [family |-> f, net |-> nNs, host |-> Len(vips[ns]) + i] \in Vip
  BY <1>2, FamiliesFacts
<1>4. New \in [1..NBackendLists -> Vip]
  BY <1>3 DEF NewVips
<1>5. \A i \in 1..NBackendLists :
        New[i].host = Len(vips[ns]) + i /\ New[i].net = nNs
  BY DEF NewVips
<1> HIDE DEF Vip, New
<1>6. New \in Seq(Vip) /\ Len(New) = NBackendLists
  BY <1>4, BoundsAssumption
<1>7. vips'[ns] = vips[ns] \o New /\ vips[ns] \in Seq(Vip)
  BY <1>1, <1>2
<1>8. /\ DOMAIN vips[ns] = 1..Len(vips[ns])
      /\ DOMAIN vips'[ns] = 1..(Len(vips[ns]) + NBackendLists)
      /\ Len(vips[ns]) \in Nat
  BY <1>6, <1>7
<1>9. ASSUME NEW i \in DOMAIN vips'[ns], i \notin DOMAIN vips[ns]
      PROVE  vips'[ns][i].host = i /\ vips'[ns][i].net = nNs
  <2>1. i - Len(vips[ns]) \in 1..NBackendLists
    BY <1>8, <1>9, BoundsAssumption
  <2>2. vips'[ns][i] = New[i - Len(vips[ns])]
    BY <1>6, <1>7, <1>8, <1>9
  <2>3. QED
    BY <1>5, <1>8, <2>1, <2>2
<1>10. \A i \in DOMAIN vips[ns] : vips'[ns][i] = vips[ns][i]
  BY <1>6, <1>7, <1>8
<1>11. DOMAIN vips[ns] \subseteq DOMAIN vips'[ns]
  BY <1>8, BoundsAssumption
<1>12. \A m \in Namespaces \ {ns} : vips'[m] = vips[m]
  BY <1>1, <1>2
<1>13. QED
  BY <1>9, <1>10, <1>11, <1>12

LEMMA StepVInv == VInv /\ [Next]_vars => VInv'
<1> SUFFICES ASSUME VInv, [Next]_vars
             PROVE  VInv'
  OBVIOUS
<1>1. TypeOK /\ TypeOK' /\ VipsTrail /\ NamespaceVipsDisjoint
  BY StepTypeOK DEF VInv
<1>2. /\ nNs \in Nat
      /\ \A m \in Namespaces : \A i \in DOMAIN vips[m] : vips[m][i].net \in Nat
  <2> DEFINE Vip == [family : AddressSets, net : Nat, host : Nat]
  <2>1. nNs \in Nat /\ vips \in [Namespaces -> Seq(Vip)]
    BY <1>1 DEF TypeOK
  <2>2. \A v \in Vip : v.net \in Nat
    OBVIOUS
  <2> HIDE DEF Vip
  <2>3. \A m \in Namespaces : \A i \in DOMAIN vips[m] : vips[m][i] \in Vip
    BY <2>1
  <2>4. QED
    BY <2>1, <2>2, <2>3
<1>3. ASSUME NEW ns \in Namespaces, Create(ns)
      PROVE  VInv'
  <2>1. last' = {ns} /\ nNs' = nNs + 1 /\ UNCHANGED vips
    BY <1>3 DEF Create, Counted
  <2>2. VipsTrail'
    BY <1>1, <1>2, <2>1 DEF VipsTrail
  <2>3. NamespaceVipsDisjoint'
    BY <1>1, <2>1 DEF NamespaceVipsDisjoint
  <2>4. QED
    BY <1>1, <2>2, <2>3 DEF VInv
<1>4. ASSUME NEW ns \in Namespaces, NEW f \in FamilySet, ProvisionVips(ns, f)
      PROVE  VInv'
  <2>1. ns \in last /\ UNCHANGED <<last, nNs>>
    BY <1>4 DEF ProvisionVips, count
  <2>2. /\ \A m \in Namespaces \ {ns} : vips'[m] = vips[m]
        /\ \A i \in DOMAIN vips'[ns] :
             IF i \in DOMAIN vips[ns]
             THEN vips'[ns][i] = vips[ns][i]
             ELSE vips'[ns][i].host = i /\ vips'[ns][i].net = nNs
    BY <1>1, <1>4, NewVipsFacts
  <2>3. VipsTrail'
    BY <1>1, <1>2, <2>1, <2>2 DEF VipsTrail
  <2>4. NamespaceVipsDisjoint'
    <3>1. ASSUME NEW m \in Namespaces, NEW n \in Namespaces,
                 NEW i \in DOMAIN vips'[m], NEW j \in DOMAIN vips'[n],
                 vips'[m][i] = vips'[n][j]
          PROVE  m = n /\ i = j
      <4>1. i = j
        BY <2>3, <3>1 DEF VipsTrail
      <4>2. CASE m # ns /\ n # ns
        BY <1>1, <2>2, <3>1, <4>2 DEF NamespaceVipsDisjoint
      <4>3. CASE m = ns /\ n # ns
        <5>1. n \notin last /\ vips'[n][j].net < nNs
          BY <1>1, <2>1, <2>2, <4>3 DEF VipsTrail
        <5>2. CASE i \in DOMAIN vips[ns]
          BY <1>1, <2>2, <3>1, <4>3, <5>2 DEF NamespaceVipsDisjoint
        <5>3. CASE i \notin DOMAIN vips[ns]
          BY <1>2, <2>2, <3>1, <4>3, <5>1, <5>3
        <5>4. QED
          BY <5>2, <5>3
      <4>4. CASE m # ns /\ n = ns
        <5>1. m \notin last /\ vips'[m][i].net < nNs
          BY <1>1, <2>1, <2>2, <4>4 DEF VipsTrail
        <5>2. CASE j \in DOMAIN vips[ns]
          BY <1>1, <2>2, <3>1, <4>4, <5>2 DEF NamespaceVipsDisjoint
        <5>3. CASE j \notin DOMAIN vips[ns]
          BY <1>2, <2>2, <3>1, <4>4, <5>1, <5>3
        <5>4. QED
          BY <5>2, <5>3
      <4>5. QED
        BY <4>1, <4>2, <4>3, <4>4
    <3>2. QED
      BY <3>1 DEF NamespaceVipsDisjoint
  <2>5. QED
    BY <1>1, <2>3, <2>4 DEF VInv
<1>5. ASSUME UNCHANGED <<last, nNs, vips>>
      PROVE  VInv'
  BY <1>1, <1>5 DEF VInv, VipsTrail, NamespaceVipsDisjoint
<1>6. ASSUME NEW ns \in Namespaces,
             \/ \E az \in AZs, ps \in SUBSET Ports :
                  AddPorts(ns, az, ps) \/ UnprovisionPorts(ns, az, ps)
             \/ \E az \in AZs, gs \in SUBSET Groups : Policy(ns, az, gs)
             \/ \E ps \in SUBSET Ports : CreateSubNs(ns, ps)
             \/ AllowSubNs(ns)
             \/ Unprovision(ns)
      PROVE  UNCHANGED <<last, nNs, vips>>
  BY <1>6 DEF AddPorts, UnprovisionPorts, Unprovision, Policy, CreateSubNs,
              AllowSubNs, count
<1>7. CASE UNCHANGED vars
  BY <1>5, <1>7 DEF vars, count
<1>8. CASE Next
  <2>1. {"deny_igr", "deny_egr"} \in SUBSET Groups /\ {"allow"} \in SUBSET Groups
    BY DEF Groups
  <2>2. QED
    BY <1>3, <1>4, <1>5, <1>6, <1>8, <2>1 DEF Next
<1>9. QED
  BY <1>7, <1>8

(***************************************************************************)
(* No VIP is provisioned twice, for any number of namespaces.              *)
(***************************************************************************)
THEOREM VipsAreDisjoint == Spec => []NamespaceVipsDisjoint
<1>1. Init => VInv
  BY InitTypeOK DEF Init, VInv, VipsTrail, NamespaceVipsDisjoint
<1>2. VInv /\ [Next]_vars => VInv'
  BY StepVInv
<1>3. VInv => NamespaceVipsDisjoint
  BY DEF VInv
<1>4. QED
  BY <1>1, <1>2, <1>3, PTL DEF Spec

-----------------------------------------------------------------------------
(***************************************************************************)
(* Appending a sequence of one element.                                    *)
(***************************************************************************)
LEMMA OneMore ==
  ASSUME NEW S, NEW s \in Seq(S), NEW t \in Seq(S), Len(t) = 1
  PROVE  /\ Len(s \o t) = Len(s) + 1
         /\ \A i \in 1..Len(s) : (s \o t)[i] = s[i]
         /\ (s \o t)[Len(s) + 1] = t[1]
<1>1. /\ Len(s \o t) = Len(s) + Len(t)
      /\ \A i \in 1..(Len(s) + Len(t)) :
           (s \o t)[i] = IF i <= Len(s) THEN s[i] ELSE t[i - Len(s)]
  BY ConcatProperties
<1>2. Len(s) \in Nat /\ Len(t) \in Nat
  OBVIOUS
<1>3. QED
  BY <1>1, <1>2

(***************************************************************************)
(* Sub-namespaces with one address family: the number of a sub-namespace   *)
(* is the index of its address set.                                        *)
(***************************************************************************)
HandlesMatch ==
  \A ns \in Namespaces :
    /\ Len(subAs[ns]) = Len(sub[ns])
    /\ \A k \in 1..Len(sub[ns]) :
         subAs[ns][k] = SetRow(FirstAz, ns, Families[1], k)

SInv == TypeOK /\ HandlesMatch /\ SubPoliciesNameTheirSets

LEMMA StepSInv ==
  ASSUME Len(Families) = 1
  PROVE  SInv /\ [Next]_vars => SInv'
<1> SUFFICES ASSUME SInv, [Next]_vars
             PROVE  SInv'
  OBVIOUS
<1>1. TypeOK /\ TypeOK' /\ HandlesMatch /\ SubPoliciesNameTheirSets
  BY StepTypeOK DEF SInv
<1>2. /\ sub \in [Namespaces -> Seq(SUBSET Ports)]
      /\ subAs \in [Namespaces -> Seq(Rows)]
  BY <1>1 DEF TypeOK
<1>3. ASSUME NEW ns \in Namespaces, NEW ps \in SUBSET Ports,
             CreateSubNs(ns, ps)
      PROVE  SInv'
  <2> DEFINE k == NextSub(ns)
             h == Handles(ns, k)
  <2>1. k \in 0..MaxSubs /\ k = Len(sub[ns]) + 1
    BY <1>2, <1>3, BoundsAssumption DEF CreateSubNs, NextSub
  <2>2. /\ sub' = [sub EXCEPT ![ns] = Append(@, ps)]
        /\ subAs' = [subAs EXCEPT ![ns] = @ \o h]
        /\ UNCHANGED allowed
    BY <1>3 DEF CreateSubNs
  <2> HIDE DEF k
  <2>3. /\ h \in Seq(Rows) /\ Len(h) = 1
        /\ h[1] = SetRow(FirstAz, ns, Families[1], k)
    BY <2>1, HandlesFacts
  <2> HIDE DEF h
  <2>4. /\ sub'[ns] = Append(sub[ns], ps) /\ subAs'[ns] = subAs[ns] \o h
        /\ \A m \in Namespaces \ {ns} : sub'[m] = sub[m] /\ subAs'[m] = subAs[m]
    BY <1>2, <2>2
  <2>5. Len(sub[ns]) \in Nat /\ Len(subAs[ns]) = Len(sub[ns])
    BY <1>1, <1>2 DEF HandlesMatch
  <2>6. Len(sub'[ns]) = k /\ Len(subAs'[ns]) = k
    <3>1. sub[ns] \in Seq(SUBSET Ports) /\ subAs[ns] \in Seq(Rows)
      BY <1>2
    <3>2. Len(sub'[ns]) = Len(sub[ns]) + 1
      BY <2>4, <3>1
    <3>3. Len(subAs'[ns]) = Len(subAs[ns]) + 1
      BY <2>3, <2>4, <3>1, OneMore
    <3>4. QED
      BY <2>1, <2>5, <3>2, <3>3
  <2>7. \A i \in 1..Len(sub[ns]) : subAs'[ns][i] = subAs[ns][i]
    BY <1>2, <2>3, <2>4, <2>5, OneMore
  <2>8. subAs'[ns][k] = h[1]
    BY <1>2, <2>1, <2>3, <2>4, <2>5, OneMore
  <2>9. \A i \in 1..k : subAs'[ns][i] = SetRow(FirstAz, ns, Families[1], i)
    BY <1>1, <2>1, <2>3, <2>5, <2>7, <2>8 DEF HandlesMatch
  <2>10. HandlesMatch'
    BY <1>1, <2>4, <2>6, <2>9 DEF HandlesMatch
  <2>11. QED
    BY <1>1, <2>2, <2>10 DEF SInv, SubPoliciesNameTheirSets
<1>4. ASSUME NEW ns \in Namespaces, AllowSubNs(ns)
      PROVE  SInv'
  <2> DEFINE dst == Len(sub[ns])
  <2>1. /\ dst >= 2 /\ UNCHANGED <<sub, subAs>>
        /\ allowed' = allowed \cup {Rule(ns, f, dst - 1, dst) : f \in FamilySet}
    BY <1>4 DEF AllowSubNs
  <2>2. dst \in 1..Len(sub[ns]) /\ dst - 1 \in 1..Len(sub[ns])
    BY <1>2, <2>1
  <2>3. \A f \in FamilySet : f = Families[1]
    BY FamiliesFacts DEF FamilySet
  <2>4. /\ subAs[ns][dst] = SetRow(FirstAz, ns, Families[1], dst)
        /\ subAs[ns][dst - 1] = SetRow(FirstAz, ns, Families[1], dst - 1)
    BY <1>1, <2>2 DEF HandlesMatch
  <2>5. ASSUME NEW f \in FamilySet
        PROVE  LET r == Rule(ns, f, dst - 1, dst)
               IN  /\ r.from = SetRow(FirstAz, r.ns, r.family, r.src)
                   /\ r.to = SetRow(FirstAz, r.ns, r.family, r.dst)
    BY <2>3, <2>4 DEF Rule
  <2>6. SubPoliciesNameTheirSets'
    BY <1>1, <2>1, <2>5 DEF SubPoliciesNameTheirSets
  <2>7. QED
    BY <1>1, <2>1, <2>6 DEF SInv, HandlesMatch
<1>5. ASSUME UNCHANGED subs
      PROVE  SInv'
  BY <1>1, <1>5 DEF SInv, HandlesMatch, SubPoliciesNameTheirSets, subs
<1>6. ASSUME NEW ns \in Namespaces
      PROVE  /\ Create(ns) \/ Unprovision(ns) => UNCHANGED subs
             /\ \A az, ps : AddPorts(ns, az, ps) \/ UnprovisionPorts(ns, az, ps)
                             \/ Policy(ns, az, ps) => UNCHANGED subs
             /\ \A f : ProvisionVips(ns, f) => UNCHANGED subs
  BY DEF Create, AddPorts, UnprovisionPorts, Unprovision, Policy, ProvisionVips
<1>7. UNCHANGED vars => UNCHANGED subs
  BY DEF vars
<1>8. QED
  BY <1>3, <1>4, <1>5, <1>6, <1>7 DEF Next

(***************************************************************************)
(* With one address family every rule between sub-namespaces names the     *)
(* sets of these sub-namespaces.  (With two it does not.)                  *)
(***************************************************************************)
THEOREM SubPoliciesInSingleStack ==
  ASSUME Len(Families) = 1
  PROVE  Spec => []SubPoliciesNameTheirSets
<1>1. Init => SInv
  <2> SUFFICES ASSUME Init
               PROVE  SInv
    OBVIOUS
  <2>1. \A ns \in Namespaces : sub[ns] = << >> /\ subAs[ns] = << >>
    BY DEF Init
  <2>2. HandlesMatch
    BY <2>1 DEF HandlesMatch
  <2>3. QED
    BY <2>2, InitTypeOK DEF Init, SInv, SubPoliciesNameTheirSets
<1>2. SInv /\ [Next]_vars => SInv'
  BY StepSInv
<1>3. SInv => SubPoliciesNameTheirSets
  BY DEF SInv
<1>4. QED
  BY <1>1, <1>2, <1>3, PTL DEF Spec
(***************************************************************************)
(* A pair of an address set stays where it is: what is deleted are rows of *)
(* port groups, and references to ports from port groups.                  *)
(***************************************************************************)
SetPairs(ns, ps, k) == SetRows(ns, k) \X ps

LEMMA SetRowFacts ==
  ASSUME NEW ns \in Namespaces, NEW k
  PROVE  /\ \A row \in SetRows(ns, k) : row.kind \in AddressSets
         /\ \A row \in SetRows(ns, k), m \in Namespaces, g \in Groups :
              row # GroupRow(FirstAz, m, g)
<1>1. FamilySet \subseteq AddressSets
  BY FamiliesFacts
<1>2. \A row \in SetRows(ns, k) : row.kind \in AddressSets
  BY <1>1 DEF SetRows, SetRow
<1>3. \A m \in Namespaces, g \in Groups : GroupRow(FirstAz, m, g).kind = g
  BY DEF GroupRow
<1>4. \A g \in Groups : g \notin AddressSets
  BY DEF Groups, AddressSets
<1>5. QED
  BY <1>2, <1>3, <1>4

LEMMA SetPairsStay ==
  ASSUME NEW ns \in Namespaces, NEW k, NEW ps, NEW D,
         SetPairs(ns, ps, k) \subseteq member \cup lost
  PROVE  /\ SetPairs(ns, ps, k) \subseteq Without(D) \cup lost
         /\ \A m \in Namespaces :
              SetPairs(ns, ps, k) \subseteq
                {w \in Without(D) :
                   \A g \in Groups : w[1] # GroupRow(FirstAz, m, g)} \cup lost
<1>1. \A w \in SetPairs(ns, ps, k) :
        /\ w \in member \cup lost
        /\ w[1] \in SetRows(ns, k)
  BY DEF SetPairs
<1>2. \A w \in SetPairs(ns, ps, k) :
        /\ w \in Without(D) \cup lost
        /\ \A m \in Namespaces, g \in Groups : w[1] # GroupRow(FirstAz, m, g)
  BY <1>1, SetRowFacts DEF Without
<1>3. QED
  BY <1>2

(***************************************************************************)
(* AddressesReachEveryAz, in terms of the pairs a write consists of.       *)
(***************************************************************************)
AddressesHeld ==
  \A ns \in Namespaces :
    /\ \A b \in AZs : SetPairs(ns, ports[ns][b], 0) \subseteq member \cup lost
    /\ \A k \in DOMAIN sub[ns] :
         SetPairs(ns, sub[ns][k], k) \subseteq member \cup lost

AInv == TypeOK /\ AddressesHeld

LEMMA HeldReach == AddressesHeld => AddressesReachEveryAz
<1> SUFFICES ASSUME AddressesHeld,
                    NEW ns \in Namespaces, NEW az \in AZs, NEW f \in FamilySet
             PROVE  /\ \A b \in AZs : \A p \in ports[ns][b] :
                         <<SetRow(az, ns, f, 0), p>> \in member \cup lost
                    /\ \A k \in DOMAIN sub[ns] : \A p \in sub[ns][k] :
                         <<SetRow(az, ns, f, k), p>> \in member \cup lost
  BY DEF AddressesReachEveryAz
<1>1. \A k : SetRow(az, ns, f, k) \in SetRows(ns, k)
  BY DEF SetRows
<1>2. ASSUME NEW b \in AZs, NEW p \in ports[ns][b]
      PROVE  <<SetRow(az, ns, f, 0), p>> \in member \cup lost
  <2>1. <<SetRow(az, ns, f, 0), p>> \in SetPairs(ns, ports[ns][b], 0)
    BY <1>1 DEF SetPairs
  <2>2. QED
    BY <2>1 DEF AddressesHeld
<1>3. ASSUME NEW k \in DOMAIN sub[ns], NEW p \in sub[ns][k]
      PROVE  <<SetRow(az, ns, f, k), p>> \in member \cup lost
  <2>1. <<SetRow(az, ns, f, k), p>> \in SetPairs(ns, sub[ns][k], k)
    BY <1>1 DEF SetPairs
  <2>2. QED
    BY <2>1 DEF AddressesHeld
<1>4. QED
  BY <1>2, <1>3

(* What does not touch the books of ports, nor the rows of address sets.   *)
LEMMA HeldGrows ==
  ASSUME AddressesHeld, UNCHANGED <<ports, sub>>,
         member \cup lost \subseteq member' \cup lost'
  PROVE  AddressesHeld'
BY DEF AddressesHeld, SetPairs, SetRows, SetRow

LEMMA StepAInv == AInv /\ [Next]_vars => AInv'
<1> SUFFICES ASSUME AInv, [Next]_vars
             PROVE  AInv'
  OBVIOUS
<1>1. TypeOK /\ TypeOK' /\ AddressesHeld
  BY StepTypeOK DEF AInv
<1>2. /\ ports \in [Namespaces -> [AZs -> SUBSET Ports]]
      /\ sub \in [Namespaces -> Seq(SUBSET Ports)]
  BY <1>1 DEF TypeOK
<1>3. ASSUME UNCHANGED <<ports, sub, member, lost>>
      PROVE  AddressesHeld'
  BY <1>1, <1>3, HeldGrows
<1>4. ASSUME NEW ns \in Namespaces, NEW az \in AZs, NEW ps \in SUBSET Ports,
             AddPorts(ns, az, ps)
      PROVE  AddressesHeld'
  <2>1. /\ ports' = [ports EXCEPT ![ns][az] = @ \cup ps]
        /\ sub' = sub
        /\ Adds((SetRows(ns, 0) \X ps) \cup Joined(ns, az, ps))
    BY <1>4 DEF AddPorts, subs
  <2>2. /\ member \cup lost \subseteq member' \cup lost'
        /\ SetPairs(ns, ps, 0) \subseteq member' \cup lost'
    BY <2>1, AddsFacts DEF SetPairs
  <2>3. ASSUME NEW m \in Namespaces, NEW b \in AZs
        PROVE  SetPairs(m, ports'[m][b], 0) \subseteq member' \cup lost'
    <3>1. SetPairs(m, ports[m][b], 0) \subseteq member' \cup lost'
      BY <1>1, <2>2 DEF AddressesHeld
    <3>2. CASE m = ns /\ b = az
      <4>1. ports'[m][b] = ports[m][b] \cup ps
        BY <1>2, <2>1, <3>2
      <4>2. SetPairs(m, ports'[m][b], 0)
              \subseteq SetPairs(m, ports[m][b], 0) \cup SetPairs(ns, ps, 0)
        BY <3>2, <4>1 DEF SetPairs
      <4>3. QED
        BY <2>2, <3>1, <4>2
    <3>3. CASE ~(m = ns /\ b = az)
      <4>1. ports'[m][b] = ports[m][b]
        BY <1>2, <2>1, <3>3
      <4>2. QED
        BY <3>1, <4>1
    <3>4. QED
      BY <3>2, <3>3
  <2>4. ASSUME NEW m \in Namespaces, NEW k \in DOMAIN sub'[m]
        PROVE  SetPairs(m, sub'[m][k], k) \subseteq member' \cup lost'
    BY <1>1, <2>1, <2>2 DEF AddressesHeld
  <2>5. QED
    BY <2>3, <2>4 DEF AddressesHeld, SetPairs, SetRows, SetRow
<1>5. ASSUME NEW ns \in Namespaces, NEW az \in AZs, NEW ps \in SUBSET Ports,
             UnprovisionPorts(ns, az, ps)
      PROVE  AddressesHeld'
  <2>1. /\ ports' = [ports EXCEPT ![ns][az] = @ \ ps]
        /\ sub' = sub
        /\ Deletes(ps)
    BY <1>5 DEF UnprovisionPorts, subs
  <2>2. PICK D \in SUBSET ps : member' = Without(D) /\ lost' = lost
    BY <2>1 DEF Deletes
  <2>3. ASSUME NEW m \in Namespaces, NEW b \in AZs
        PROVE  SetPairs(m, ports'[m][b], 0) \subseteq member' \cup lost'
    <3>1. ports'[m][b] \subseteq ports[m][b]
      BY <1>2, <2>1
    <3>2. SetPairs(m, ports[m][b], 0) \subseteq member' \cup lost'
      BY <1>1, <2>2, SetPairsStay DEF AddressesHeld
    <3>3. QED
      BY <3>1, <3>2 DEF SetPairs
  <2>4. ASSUME NEW m \in Namespaces, NEW k \in DOMAIN sub'[m]
        PROVE  SetPairs(m, sub'[m][k], k) \subseteq member' \cup lost'
    BY <1>1, <2>1, <2>2, SetPairsStay DEF AddressesHeld
  <2>5. QED
    BY <2>3, <2>4 DEF AddressesHeld, SetPairs, SetRows, SetRow
<1>6. ASSUME NEW ns \in Namespaces, Unprovision(ns)
      PROVE  AddressesHeld'
  <2>1. /\ UNCHANGED <<ports, sub, lost>>
        /\ \E D : member' = {w \in Without(D) :
                       \A g \in Groups : w[1] # GroupRow(FirstAz, ns, g)}
    BY <1>6 DEF Unprovision, subs
  <2>2. PICK D : member' = {w \in Without(D) :
                       \A g \in Groups : w[1] # GroupRow(FirstAz, ns, g)}
    BY <2>1
  <2>3. ASSUME NEW m \in Namespaces, NEW b \in AZs
        PROVE  SetPairs(m, ports'[m][b], 0) \subseteq member' \cup lost'
    BY <1>1, <2>1, <2>2, SetPairsStay DEF AddressesHeld
  <2>4. ASSUME NEW m \in Namespaces, NEW k \in DOMAIN sub'[m]
        PROVE  SetPairs(m, sub'[m][k], k) \subseteq member' \cup lost'
    BY <1>1, <2>1, <2>2, SetPairsStay DEF AddressesHeld
  <2>5. QED
    BY <2>3, <2>4 DEF AddressesHeld, SetPairs, SetRows, SetRow
<1>7. ASSUME NEW ns \in Namespaces, NEW ps \in SUBSET Ports,
             CreateSubNs(ns, ps)
      PROVE  AddressesHeld'
  <2> DEFINE n == NextSub(ns)
  <2>1. /\ n \in Nat /\ n = Len(sub[ns]) + 1
        /\ sub[ns] \in Seq(SUBSET Ports)
    BY <1>2 DEF NextSub
  <2>2. /\ ports' = ports
        /\ sub' = [sub EXCEPT ![ns] = Append(@, ps)]
        /\ \E q : Adds(({SubGroup(ns, n)} \X (ps \ q))
                         \cup (SetRows(ns, n) \X ps))
    BY <1>7 DEF CreateSubNs
  <2>3. /\ member \cup lost \subseteq member' \cup lost'
        /\ SetPairs(ns, ps, n) \subseteq member' \cup lost'
    <3>1. PICK q : Adds(({SubGroup(ns, n)} \X (ps \ q))
                          \cup (SetRows(ns, n) \X ps))
      BY <2>2
    <3> HIDE DEF n
    <3>2. QED
      BY <3>1, AddsFacts DEF SetPairs
  <2>4. ASSUME NEW m \in Namespaces, NEW b \in AZs
        PROVE  SetPairs(m, ports'[m][b], 0) \subseteq member' \cup lost'
    BY <1>1, <2>2, <2>3 DEF AddressesHeld
  <2>5. ASSUME NEW m \in Namespaces, NEW k \in DOMAIN sub'[m]
        PROVE  SetPairs(m, sub'[m][k], k) \subseteq member' \cup lost'
    <3>1. CASE m = ns
      <4>1. sub'[m] = Append(sub[ns], ps)
        BY <1>2, <2>2, <3>1
      <4>2. \/ k = n /\ sub'[m][k] = ps
            \/ k \in DOMAIN sub[ns] /\ sub'[m][k] = sub[ns][k]
        BY <2>1, <2>5, <4>1
      <4>3. QED
        BY <1>1, <2>3, <3>1, <4>2 DEF AddressesHeld
    <3>2. CASE m # ns
      <4>1. sub'[m] = sub[m]
        BY <1>2, <2>2, <3>2
      <4>2. QED
        BY <1>1, <2>3, <2>5, <4>1 DEF AddressesHeld
    <3>3. QED
      BY <3>1, <3>2
  <2>6. QED
    BY <2>4, <2>5 DEF AddressesHeld, SetPairs, SetRows, SetRow
<1>8. ASSUME NEW ns \in Namespaces, NEW az \in AZs, NEW gs,
             Policy(ns, az, gs)
      PROVE  AddressesHeld'
  <2>1. UNCHANGED <<ports, sub>> /\ Adds(EnforceWrites(ns))
    BY <1>8 DEF Policy, subs
  <2>2. member \cup lost \subseteq member' \cup lost'
    BY <2>1, AddsFacts
  <2>3. QED
    BY <1>1, <2>1, <2>2, HeldGrows
<1>9. AddressesHeld'
  BY <1>3, <1>4, <1>5, <1>6, <1>7, <1>8
     DEF Next, Create, AllowSubNs, ProvisionVips, vars, content, subs
<1>10. QED
  BY <1>1, <1>9 DEF AInv

(***************************************************************************)
(* Every zone's address sets hold the addresses of all ports of the        *)
(* namespace and of its sub-namespaces, in whatever zone they are, but for *)
(* those whose addition is in the log.  Deleting ports or groups does not  *)
(* take an address out of a set.                                           *)
(***************************************************************************)
THEOREM AddressesAreEverywhere == Spec => []AddressesReachEveryAz
<1>1. Init => AInv
  <2> SUFFICES ASSUME Init
               PROVE  AInv
    OBVIOUS
  <2>1. \A ns \in Namespaces :
          DOMAIN sub[ns] = {} /\ \A b \in AZs : ports[ns][b] = {}
    BY DEF Init
  <2>2. \A ns \in Namespaces, b \in AZs : SetPairs(ns, ports[ns][b], 0) = {}
    BY <2>1 DEF SetPairs
  <2>3. AddressesHeld
    BY <2>1, <2>2 DEF AddressesHeld
  <2>4. QED
    BY <2>3, InitTypeOK DEF AInv
<1>2. AInv /\ [Next]_vars => AInv'
  BY StepAInv
<1>3. AInv => AddressesReachEveryAz
  BY HeldReach DEF AInv
<1>4. QED
  BY <1>1, <1>2, <1>3, PTL DEF Spec

=============================================================================
