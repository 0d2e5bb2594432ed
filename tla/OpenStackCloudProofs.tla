------------------------- MODULE OpenStackCloudProofs -------------------------
(***************************************************************************)
(* Proofs about OpenStackCloud for any numbers of projects, VMs, nodes and *)
(* addresses, and however many commands fail.                              *)
(***************************************************************************)
EXTENDS OpenStackCloud, SequenceTheorems, FiniteSetTheorems, TLAPS

-----------------------------------------------------------------------------
(***************************************************************************)
(* The inductive invariant.  First, what the tester knows: what it is      *)
(* making, the projects it has listed and the addresses it has taken.      *)
(* Project p has network p, and its k-th VM has the address k + 2 there.   *)
(***************************************************************************)
VmPorts  == {Vm(tag, i) : tag \in Nat, i \in Nat}
VmTypes  == [port : VmPorts, host : Nat, on : 1..NWorkers]
ProjectTypes == [tag : Nat, net : Nat, vms : Seq(VmTypes)]
MakingTypes ==
  {Nothing, [what |-> "network"]}
    \cup [what : {"project"}, tag : Nat, net : Nat]
    \cup [what : {"vm"}, of : Nat, port : VmPorts, host : Nat, on : 1..NWorkers]

Making(what) == making.what = what

(* VMs of a project that are listed or being made.                         *)
VmsBegun(p) ==
  Len(projects[p].vms) + IF Making("vm") /\ making.of = p THEN 1 ELSE 0

ProjectAgrees(p) ==
  LET proj == projects[p] IN
    /\ proj.tag \in 1..p /\ proj.net = p
    /\ Len(proj.vms) <= NVms
    /\ \A k \in DOMAIN proj.vms :
         proj.vms[k].port = Vm(proj.tag, k - 1) /\ proj.vms[k].host = k + 2
    /\ used[p + 1] = 2 + VmsBegun(p) /\ used[p + 1] <= hosts

MakingAgrees ==
  /\ pc \in {"idle", "refused", "done"} => making = Nothing /\ todo = <<>>
  /\ pc = "busy" => making # Nothing
  /\ Making("network") => projects = <<>>
  /\ Making("project") =>
       /\ making.net = Len(projects) + 1 /\ making.net <= NProjects
       /\ making.tag \in 1..making.net /\ used[making.net + 1] = 2
  /\ Making("vm") =>
       /\ Len(projects) = NProjects /\ making.of \in DOMAIN projects
       /\ making.port = Vm(projects[making.of].tag,
                           Len(projects[making.of].vms))
       /\ making.host = Len(projects[making.of].vms) + 3
       /\ Len(projects[making.of].vms) < NVms
       /\ turn = (making.on % NWorkers) + 1

BooksAgree ==
  /\ hosts \in HostCounts /\ used \in Seq(Nat) /\ turn \in 1..NWorkers
  /\ pc \in {"idle", "busy", "dead", "refused", "done"}
  /\ making \in MakingTypes /\ projects \in Seq(ProjectTypes)
  /\ Len(projects) <= NProjects
  /\ (used = <<>>) => projects = <<>> /\ making = Nothing
  /\ (used # <<>>) =>
       /\ used[1] = 1
       /\ Len(used) = Len(projects) + IF Making("project") THEN 2 ELSE 1
  /\ MakingAgrees
  /\ \A p \in DOMAIN projects : ProjectAgrees(p)

(***************************************************************************)
(* The commands still to be executed are about what is being made, the     *)
(* first of a VM makes its port, and no two write the same.                *)
(***************************************************************************)
IsList(s)       == s \in Seq(Range(s))
DistinctRows(s) == \A i, j \in DOMAIN s : i # j => s[i].row # s[j].row

Handled(c) ==
  /\ c.fails \subseteq {"retry", "log", "measure", "raise"}
  /\ {"retry", "measure"} \cap c.fails # {} => c.row[1] = "in"

Addressed(row) ==
  row[1] \in {"in", "addresses"} /\ row[4] # None /\ row[2][1] # "netns"

NetworkAddress(row, n) ==
  \/ row[2] = Lrp(n, 0) /\ row[4] = ExtIp(n)
  \/ row[2] = Lrp(n, n) /\ row[4] = Ip(n, Gateway)
  \/ row[2] = Metadata(n) /\ row[4] = Ip(n, Gateway + 1)

OfNetwork(c, n) ==
  /\ Handled(c)
  /\ c.row[2][1] \notin {"vm", "netns"} /\ c.row[2][2] = n
  /\ c.row[1] # "ports"
  /\ c.row[1] = "gateway" => c.row[2] = Lrp(n, 0)
  /\ Addressed(c.row) => NetworkAddress(c.row, n)

MakePort ==
  LsPortAdd(making.port, Switch(making.of), Ip(making.of, making.host))

OfVm(c) ==
  /\ Handled(c)
  /\ \/ c = MakePort
     \/ c.row[1] \in {"options", "enabled", "iface"} /\ c.row[2] = making.port
     \/ c.row[1] = "in" /\ c.row[2] = Netns(making.port)
     \/ c.row = <<"ports", Group(making.of), None, making.port>>

ScriptAgrees ==
  /\ IsList(todo) /\ DistinctRows(todo)
  /\ Making("vm") =>
       /\ \A c \in Range(todo) : OfVm(c)
       /\ IF MakePort \in Range(todo) THEN Head(todo) = MakePort
                                      ELSE MakePort.row \in Rows
  /\ ~Making("vm") => \A c \in Range(todo) : OfNetwork(c, Len(used) - 1)

(***************************************************************************)
(* The rows: whose they are, and with which addresses.  A port that exists *)
(* stays on its switch.                                                    *)
(***************************************************************************)
VmRow(row) ==
  \E p \in DOMAIN projects, i \in Nat :
    /\ i < VmsBegun(p)
    /\ row = <<"in", Vm(projects[p].tag, i), Switch(p), Ip(p, i + 3)>>

Planned(row) ==
  /\ row[2][1] \notin {"vm", "netns"} =>
       row[2][2] \in Nat /\ row[2][2] < Len(used)
  /\ row[2][1] = "vm" /\ row[1] = "in" => VmRow(row)
  /\ Addressed(row) =>
       \/ row[2][1] = "vm" /\ row[1] = "in"
       \/ \E n \in Nat : NetworkAddress(row, n)

(* What is about a VM is there only if the VM's port is.                   *)
Backed(row) ==
  /\ row[2][1] \in {"vm", "netns"} => Exists(Vm(row[2][2], row[2][3]))
  /\ row[1] = "ports" => Exists(row[4])

RowsAgree ==
  /\ IsList(db)
  /\ \A row \in Rows \cup logged : Planned(row)
  /\ \A row \in Rows : Backed(row)
  /\ \A r, s \in Rows : r[1] = "in" /\ s[1] = "in" /\ r[2] = s[2] => r[3] = s[3]

(***************************************************************************)
(* No row is there twice: what is still to be written is not there yet,    *)
(* but for what looks first; or nothing more will be written, because the  *)
(* name of the port is that of another project's VM.                       *)
(***************************************************************************)
Doomed ==
  /\ Making("vm") /\ MakePort \in Range(todo)
  /\ \E r \in Rows : /\ r[1] = "in" /\ r[2] = making.port
                     /\ r[3] # Switch(making.of)

Fresh ==
  \A c \in Range(todo) : "retry" \notin c.fails => c.row \notin Rows

OnceOnly == IsInjective(db) /\ (pc = "busy" => Fresh \/ Doomed)

(***************************************************************************)
(* What a listed project or VM needs was executed, or has left a line in   *)
(* the log or a failed measurement; of what is being made, it may still    *)
(* have to be executed.                                                    *)
(***************************************************************************)
Ensured(c) ==
  \/ c.row \in Rows
  \/ "log" \in c.fails /\ c.row \in logged
  \/ "measure" \in c.fails /\ c.row \in measured
  \/ "retry" \in c.fails /\ Exists(c.row[2])

Tracked(C) == \A c \in C : c \in Range(todo) \/ Ensured(c)

ProjectNeeds(p) ==
  {LrPortAdd(Lrp(p, p), Router(p), Ip(p, Gateway)),
   LsPortAdd(Lsp(p, p), Switch(p), None), LsPortAdd(Lsp(p, 0), Switch(0), None),
   LrPortAdd(Lrp(p, 0), Router(p), ExtIp(p)),
   RouteAdd(Router(p), "route", ExtIp(p)), NatAdd(Router(p), Switch(p)),
   DhcpOptionsSetOptions(Dhcp(p), Ip(p, Gateway))}
    \cup {AclAdd(Group(p), <<"rule", k, 0>>) : k \in 1..4}

VmNeeds(p, vm) ==
  {LsPortSetOptions(vm.port, Chassis(vm.on)),
   PortGroupAddPorts(Group(p), vm.port), AddPort(vm.port, Chassis(vm.on)),
   BindVmPort(vm.port, Ip(p, Gateway))}

NeedsMet ==
  /\ \A p \in DOMAIN projects :
       /\ \A c \in ProjectNeeds(p) : Ensured(c)
       /\ \A vm \in VmsOf(p) :
            /\ <<"in", vm.port, Switch(p), Ip(p, vm.host)>> \in Rows
            /\ \A c \in VmNeeds(p, vm) : Ensured(c)
  /\ Making("project") => Tracked(ProjectNeeds(making.net))
  /\ Making("vm") => Tracked(VmNeeds(making.of, making))

(***************************************************************************)
(* The gateways of a router are those of its sample.                       *)
(***************************************************************************)
GwsIn(S, p) == {r[4] : r \in {r \in S : r[1] = "gateway" /\ r[2] = Lrp(p, 0)}}
Sampled(G)  == \E s \in GatewayChassis : G = {Gw(s[k], k) : k \in DOMAIN s}

GatewaysKnown ==
  /\ \A p \in DOMAIN projects : Sampled(GwsIn(Rows \cup logged, p))
  /\ Making("project") =>
       Sampled(GwsIn(Rows \cup logged \cup {c.row : c \in Range(todo)},
                     making.net))

(***************************************************************************)
(* The nodes before the one at hand have one VM more than the others.      *)
(***************************************************************************)
OnNode(w) == {vm \in Listed : vm.on = w}
NextNode  == IF Making("vm") THEN making.on ELSE turn

Balanced ==
  /\ IsFiniteSet(Listed)
  /\ \E q \in Nat : \A w \in 1..NWorkers :
       Cardinality(OnNode(w)) = IF w < NextNode THEN q + 1 ELSE q

MeshDone ==
  pc = "done" =>
    /\ Len(projects) = NProjects
    /\ \A p \in 1..NProjects, a, b \in 1..NVms : a # b => <<p, a, b>> \in pinged

CountersAgree == attempts \in 0..(MaxRetry - 1) /\ faults \in 0..MaxFaults

IInv ==
  /\ BooksAgree /\ ScriptAgrees /\ RowsAgree /\ OnceOnly /\ NeedsMet
  /\ GatewaysKnown /\ Balanced /\ MeshDone /\ CountersAgree

-----------------------------------------------------------------------------
(***************************************************************************)
(* Scripts as lists of commands.                                           *)
(***************************************************************************)
LEMMA ListOf ==
  ASSUME NEW C, NEW s \in Seq(C)
  PROVE  IsList(s) /\ Range(s) \subseteq C
BY RangeOfSeq, SeqOfRange DEF IsList

LEMMA ListConcat ==
  ASSUME NEW s, NEW t, IsList(s), IsList(t)
  PROVE  IsList(s \o t) /\ Range(s \o t) = Range(s) \cup Range(t)
<1> DEFINE E == Range(s) \cup Range(t)
<1>1. s \in Seq(E) /\ t \in Seq(E)
  BY DEF IsList
<1> HIDE DEF E
<1>2. s \o t \in Seq(E)
  BY <1>1, ConcatProperties
<1>3. Range(s \o t) = Range(s) \cup Range(t)
  BY <1>1, RangeConcatenation
<1> QED  BY <1>2, <1>3, ListOf

LEMMA ListTail ==
  ASSUME NEW s, IsList(s), s # <<>>
  PROVE  /\ IsList(Tail(s)) /\ Range(Tail(s)) \subseteq Range(s)
         /\ Head(s) \in Range(s)
<1> DEFINE E == Range(s)
<1>1. s \in Seq(E)
  BY DEF IsList
<1> HIDE DEF E
<1>2. Tail(s) \in Seq(E) /\ Head(s) \in E
  BY <1>1, HeadTailProperties
<1> QED  BY <1>2, ListOf DEF E

LEMMA ListAppend ==
  ASSUME NEW s, NEW e, IsList(s)
  PROVE  IsList(Append(s, e)) /\ Range(Append(s, e)) = Range(s) \cup {e}
<1> DEFINE E == Range(s) \cup {e}
<1>1. s \in Seq(E) /\ <<e>> \in Seq(E) /\ e \in E
  BY DEF IsList
<1> HIDE DEF E
<1>2. Append(s, e) \in Seq(E) /\ Append(s, e) = s \o <<e>>
  BY <1>1, AppendProperties, AppendIsConcat
<1>3. Range(Append(s, e)) = Range(s) \cup Range(<<e>>)
  <2> DEFINE t == <<e>>
  <2>1. t \in Seq(E) /\ Append(s, e) = s \o t
    BY <1>1, <1>2
  <2> HIDE DEF t
  <2>2. Range(s \o t) = Range(s) \cup Range(t)
    BY <1>1, <2>1, RangeConcatenation
  <2> QED  BY <2>1, <2>2 DEF t
<1>4. Range(<<e>>) = {e}
  BY DEF Range
<1> QED  BY <1>2, <1>3, <1>4, ListOf

LEMMA ListFunction ==
  ASSUME NEW k \in Int, NEW s, s = [i \in 1..k |-> s[i]]
  PROVE  IsList(s) /\ Range(s) = {s[i] : i \in 1..k}
<1>1. DOMAIN s = 1..k
  OBVIOUS
<1>2. Range(s) = {s[i] : i \in 1..k}
  BY <1>1 DEF Range
<1>3. CASE k \in Nat
  BY <1>2, <1>3 DEF IsList
<1>4. CASE k \notin Nat
  <2>1. 1..k = 1..0
    BY <1>4
  <2>2. s \in [1..0 -> Range(s)]
    BY <1>2, <2>1
  <2> QED  BY <1>2, <2>2 DEF IsList
<1> QED  BY <1>3, <1>4

LEMMA ListFew ==
  /\ IsList(<<>>) /\ Range(<<>>) = {}
  /\ \A a : IsList(<<a>>) /\ Range(<<a>>) = {a}
  /\ \A a, b : IsList(<<a, b>>) /\ Range(<<a, b>>) = {a, b}
  /\ \A a, b, c : IsList(<<a, b, c>>) /\ Range(<<a, b, c>>) = {a, b, c}
  /\ \A a, b, c, d :
       IsList(<<a, b, c, d>>) /\ Range(<<a, b, c, d>>) = {a, b, c, d}
  /\ \A a, b, c, d, e :
       IsList(<<a, b, c, d, e>>) /\ Range(<<a, b, c, d, e>>) = {a, b, c, d, e}
  /\ \A a, b, c, d, e, f :
       /\ IsList(<<a, b, c, d, e, f>>)
       /\ Range(<<a, b, c, d, e, f>>) = {a, b, c, d, e, f}
<1>0. IsList(<<>>) /\ Range(<<>>) = {}
  <2>1. <<>> \in Seq({})
    OBVIOUS
  <2>2. DOMAIN <<>> = {}
    OBVIOUS
  <2>3. Range(<<>>) = {}
    BY <2>2 DEF Range
  <2> QED  BY <2>1, <2>3 DEF IsList
<1>1. ASSUME NEW a PROVE IsList(<<a>>) /\ Range(<<a>>) = {a}
  <2>1. <<a>> \in Seq({a}) /\ Range(<<a>>) = {a}
    BY DEF Range
  <2> QED  BY <2>1 DEF IsList
<1>2. ASSUME NEW a, NEW b PROVE IsList(<<a, b>>) /\ Range(<<a, b>>) = {a, b}
  <2>1. <<a, b>> \in Seq({a, b}) /\ Range(<<a, b>>) = {a, b}
    BY DEF Range
  <2> QED  BY <2>1 DEF IsList
<1>3. ASSUME NEW a, NEW b, NEW c
      PROVE  IsList(<<a, b, c>>) /\ Range(<<a, b, c>>) = {a, b, c}
  <2>1. <<a, b, c>> \in Seq({a, b, c}) /\ Range(<<a, b, c>>) = {a, b, c}
    BY DEF Range
  <2> QED  BY <2>1 DEF IsList
<1>4. ASSUME NEW a, NEW b, NEW c, NEW d
      PROVE  IsList(<<a, b, c, d>>) /\ Range(<<a, b, c, d>>) = {a, b, c, d}
  <2>1. DOMAIN <<a, b, c, d>> = {1, 2, 3, 4}
    OBVIOUS
  <2>2. Range(<<a, b, c, d>>) = {a, b, c, d}
    BY <2>1 DEF Range
  <2>3. <<a, b, c, d>> \in Seq({a, b, c, d})
    OBVIOUS
  <2> QED  BY <2>2, <2>3 DEF IsList
<1>5. ASSUME NEW a, NEW b, NEW c, NEW d, NEW e
      PROVE  /\ IsList(<<a, b, c, d, e>>)
             /\ Range(<<a, b, c, d, e>>) = {a, b, c, d, e}
  <2>1. DOMAIN <<a, b, c, d, e>> = {1, 2, 3, 4, 5}
    OBVIOUS
  <2>2. Range(<<a, b, c, d, e>>) = {a, b, c, d, e}
    BY <2>1 DEF Range
  <2>3. <<a, b, c, d, e>> \in Seq({a, b, c, d, e})
    OBVIOUS
  <2> QED  BY <2>2, <2>3 DEF IsList
<1>6. ASSUME NEW a, NEW b, NEW c, NEW d, NEW e, NEW f
      PROVE  /\ IsList(<<a, b, c, d, e, f>>)
             /\ Range(<<a, b, c, d, e, f>>) = {a, b, c, d, e, f}
  <2>1. DOMAIN <<a, b, c, d, e, f>> = {1, 2, 3, 4, 5, 6}
    OBVIOUS
  <2>2. Range(<<a, b, c, d, e, f>>) = {a, b, c, d, e, f}
    BY <2>1 DEF Range
  <2>3. <<a, b, c, d, e, f>> \in Seq({a, b, c, d, e, f})
    OBVIOUS
  <2> QED  BY <2>2, <2>3 DEF IsList
<1> QED  BY <1>0, <1>1, <1>2, <1>3, <1>4, <1>5, <1>6

LEMMA ListHead ==
  ASSUME NEW s, IsList(s), s # <<>>
  PROVE  Range(s) \subseteq {Head(s)} \cup Range(Tail(s))
<1>1. /\ s \in Seq(Range(s)) /\ Len(s) \in Nat
      /\ Tail(s) \in Seq(Range(s)) /\ Len(Tail(s)) = Len(s) - 1
      /\ \A j \in 1..Len(Tail(s)) : Tail(s)[j] = s[j + 1]
      /\ Head(s) = s[1] /\ DOMAIN s = 1..Len(s)
      /\ DOMAIN Tail(s) = 1..Len(Tail(s))
  BY HeadTailProperties DEF IsList
<1> SUFFICES ASSUME NEW k \in 1..Len(s)
             PROVE  s[k] \in {Head(s)} \cup Range(Tail(s))
  BY <1>1 DEF Range
<1>2. CASE k = 1
  BY <1>1, <1>2
<1>3. CASE k # 1
  <2>1. k - 1 \in 1..Len(Tail(s)) /\ (k - 1) + 1 = k
    BY <1>1, <1>3
  <2>2. Tail(s)[k - 1] = s[k]
    BY <1>1, <2>1
  <2> QED  BY <1>1, <2>1, <2>2 DEF Range
<1> QED  BY <1>2, <1>3

(* The first command of a list is not among the others.                    *)
LEMMA DistinctTail ==
  ASSUME NEW s, IsList(s), s # <<>>, DistinctRows(s)
  PROVE  /\ DistinctRows(Tail(s))
         /\ \A c \in Range(Tail(s)) : c.row # Head(s).row
<1>1. /\ s \in Seq(Range(s)) /\ Len(s) \in Nat
      /\ Tail(s) \in Seq(Range(s)) /\ Len(Tail(s)) = Len(s) - 1
      /\ \A j \in 1..Len(Tail(s)) : Tail(s)[j] = s[j + 1]
      /\ Head(s) = s[1] /\ DOMAIN s = 1..Len(s)
      /\ DOMAIN Tail(s) = 1..Len(Tail(s))
  BY HeadTailProperties DEF IsList
<1>2. DistinctRows(Tail(s))
  <2> SUFFICES ASSUME NEW i \in 1..Len(Tail(s)), NEW j \in 1..Len(Tail(s)),
                      i # j
               PROVE  Tail(s)[i].row # Tail(s)[j].row
    BY <1>1 DEF DistinctRows
  <2>1. i + 1 \in DOMAIN s /\ j + 1 \in DOMAIN s /\ i + 1 # j + 1
    BY <1>1
  <2> QED  BY <1>1, <2>1 DEF DistinctRows
<1>3. ASSUME NEW j \in 1..Len(Tail(s)) PROVE Tail(s)[j].row # Head(s).row
  <2>1. j + 1 \in DOMAIN s /\ 1 \in DOMAIN s /\ j + 1 # 1
    BY <1>1
  <2> QED  BY <1>1, <2>1 DEF DistinctRows
<1> QED  BY <1>1, <1>2, <1>3 DEF Range

LEMMA DistinctOf ==
  ASSUME NEW s, DistinctRows(s), NEW c \in Range(s), NEW d \in Range(s),
         c.row = d.row
  PROVE  c = d
<1>1. PICK i \in DOMAIN s, j \in DOMAIN s : c = s[i] /\ d = s[j]
  BY DEF Range
<1> QED  BY <1>1 DEF DistinctRows

LEMMA DistinctConcat ==
  ASSUME NEW s, NEW t, IsList(s), IsList(t), DistinctRows(s), DistinctRows(t),
         \A c \in Range(s), d \in Range(t) : c.row # d.row
  PROVE  DistinctRows(s \o t)
<1>1. /\ Len(s) \in Nat /\ Len(t) \in Nat
      /\ DOMAIN s = 1..Len(s) /\ DOMAIN t = 1..Len(t)
      /\ DOMAIN (s \o t) = 1..(Len(s) + Len(t))
      /\ \A i \in 1..(Len(s) + Len(t)) :
           (s \o t)[i] = IF i <= Len(s) THEN s[i] ELSE t[i - Len(s)]
  <2> DEFINE E == Range(s) \cup Range(t)
  <2>1. s \in Seq(E) /\ t \in Seq(E)
    BY DEF IsList
  <2> HIDE DEF E
  <2> QED  BY <2>1
<1>2. \A i \in 1..Len(s), j \in 1..Len(t) : s[i].row # t[j].row
  BY <1>1 DEF Range
<1> SUFFICES ASSUME NEW i \in 1..(Len(s) + Len(t)),
                    NEW j \in 1..(Len(s) + Len(t)), i # j
             PROVE  (s \o t)[i].row # (s \o t)[j].row
  BY <1>1 DEF DistinctRows
<1>3. CASE i <= Len(s) /\ j <= Len(s)
  BY <1>1, <1>3 DEF DistinctRows
<1>4. CASE i <= Len(s) /\ j > Len(s)
  <2>1. j - Len(s) \in 1..Len(t) /\ i \in 1..Len(s)
    BY <1>1, <1>4
  <2> QED  BY <1>1, <1>2, <1>4, <2>1
<1>5. CASE i > Len(s) /\ j <= Len(s)
  <2>1. i - Len(s) \in 1..Len(t) /\ j \in 1..Len(s)
    BY <1>1, <1>5
  <2> QED  BY <1>1, <1>2, <1>5, <2>1
<1>6. CASE i > Len(s) /\ j > Len(s)
  <2>1. /\ i - Len(s) \in 1..Len(t) /\ j - Len(s) \in 1..Len(t)
        /\ i - Len(s) # j - Len(s)
    BY <1>1, <1>6
  <2> QED  BY <1>1, <1>6, <2>1, SMTT(20) DEF DistinctRows
<1> QED  BY <1>1, <1>3, <1>4, <1>5, <1>6

LEMMA DistinctFew ==
  /\ DistinctRows(<<>>)
  /\ \A a : DistinctRows(<<a>>)
  /\ \A a, b : a.row # b.row => DistinctRows(<<a, b>>)
  /\ \A a, b, c : a.row # b.row /\ a.row # c.row /\ b.row # c.row
                    => DistinctRows(<<a, b, c>>)
<1>1. DistinctRows(<<>>)
  <2>1. DOMAIN <<>> = {}
    OBVIOUS
  <2> QED  BY <2>1 DEF DistinctRows
<1>2. ASSUME NEW a PROVE DistinctRows(<<a>>)
  <2>1. DOMAIN <<a>> = {1}
    OBVIOUS
  <2> QED  BY <2>1 DEF DistinctRows
<1>3. ASSUME NEW a, NEW b, a.row # b.row PROVE DistinctRows(<<a, b>>)
  <2>1. DOMAIN <<a, b>> = {1, 2}
    OBVIOUS
  <2> QED  BY <1>3, <2>1 DEF DistinctRows
<1>4. ASSUME NEW a, NEW b, NEW c,
             a.row # b.row, a.row # c.row, b.row # c.row
      PROVE  DistinctRows(<<a, b, c>>)
  <2>1. DOMAIN <<a, b, c>> = {1, 2, 3}
    OBVIOUS
  <2> QED  BY <1>4, <2>1 DEF DistinctRows
<1> QED  BY <1>1, <1>2, <1>3, <1>4

-----------------------------------------------------------------------------
(***************************************************************************)
(* The scripts of a network and of a project: all of it is about the       *)
(* network of that number, and no row is written twice.                    *)
(***************************************************************************)
Script(s, C) == IsList(s) /\ DistinctRows(s) /\ Range(s) = C

LEMMA ScriptConcat ==
  ASSUME NEW s, NEW t, NEW C, NEW D, Script(s, C), Script(t, D),
         \A c \in C, d \in D : c.row # d.row
  PROVE  Script(s \o t, C \cup D)
BY ListConcat, DistinctConcat DEF Script

NetworkParts(n) ==
  {LsAdd(Switch(n)), LsPortAdd(Metadata(n), Switch(n), None),
   LsPortSetType(Metadata(n)), LsPortEnable(Metadata(n))}

ProviderParts(n) ==
  {LsPortAdd(Provider(n), Switch(n), None), LsPortSetType(Provider(n)),
   LsPortSetOptions(Provider(n), None)}

RouterParts(p) ==
  {LrAdd(Router(p)), LrSetOptions(Router(p), None),
   LrPortAdd(Lrp(p, 0), Router(p), ExtIp(p)),
   LsPortAdd(Lsp(p, 0), Switch(0), None), LsPortEnable(Lsp(p, 0)),
   LsPortSetOptions(Lsp(p, 0), Lrp(p, 0)),
   RouteAdd(Router(p), "route", ExtIp(p))}

GatewayParts(p, sample) ==
  {LrPortSetGwChassis(Lrp(p, 0), Gw(sample[k], k)) : k \in DOMAIN sample}

Rules(n) == {AclAdd(Group(n), <<"rule", k, 0>>) : k \in 1..4}

InternalParts(p, n) ==
  {CreateDhcpOptions(Dhcp(n)), DhcpOptionsSetOptions(Dhcp(n), Ip(n, Gateway)),
   LsPortSetIpv4Address(Metadata(n), Ip(n, Gateway + 1)),
   LrPortAdd(Lrp(p, n), Router(p), Ip(n, Gateway)),
   LsPortAdd(Lsp(p, n), Switch(n), None), LsPortEnable(Lsp(p, n)),
   NatAdd(Router(p), Switch(n))}

LEMMA NetworkScript ==
  ASSUME NEW n
  PROVE  Script(CreateProjectNet(n) \o AddMetadataPort(n), NetworkParts(n))
<1> DEFINE s == CreateProjectNet(n)  t == AddMetadataPort(n)
<1>1. Script(s, {LsAdd(Switch(n))})
  BY ListFew, DistinctFew DEF Script, CreateProjectNet
<1>2. Script(t, {LsPortAdd(Metadata(n), Switch(n), None),
                 LsPortSetType(Metadata(n)), LsPortEnable(Metadata(n))})
  <2> DEFINE a == LsPortAdd(Metadata(n), Switch(n), None)
             b == LsPortSetType(Metadata(n))
             c == LsPortEnable(Metadata(n))
  <2>1. a.row # b.row /\ a.row # c.row /\ b.row # c.row
    BY DEF LsPortAdd, LsPortSetType, LsPortEnable, Insert, Set, Change, Command
  <2> HIDE DEF a, b, c
  <2>2. Script(<<a, b, c>>, {a, b, c})
    BY <2>1, ListFew, DistinctFew DEF Script
  <2> QED  BY <2>2 DEF a, b, c, AddMetadataPort
<1>3. \A d \in {LsPortAdd(Metadata(n), Switch(n), None),
                LsPortSetType(Metadata(n)), LsPortEnable(Metadata(n))} :
        LsAdd(Switch(n)).row # d.row
  BY DEF LsPortAdd, LsPortSetType, LsPortEnable, LsAdd, Insert, Set, Change,
         Command, Switch, Metadata
<1> HIDE DEF s, t
<1>4. Script(s \o t, {LsAdd(Switch(n))} \cup
        {LsPortAdd(Metadata(n), Switch(n), None),
         LsPortSetType(Metadata(n)), LsPortEnable(Metadata(n))})
  BY <1>1, <1>2, <1>3, ScriptConcat
<1>5. {LsAdd(Switch(n))} \cup
        {LsPortAdd(Metadata(n), Switch(n), None),
         LsPortSetType(Metadata(n)), LsPortEnable(Metadata(n))}
        = NetworkParts(n)
  BY DEF NetworkParts
<1> QED  BY <1>4, <1>5 DEF s, t

LEMMA ExternalScript ==
  LET s == CreateProjectNet(0) \o AddMetadataPort(0) \o AddProviderPort(0)
  IN  Script(s, NetworkParts(0) \cup ProviderParts(0))
<1> DEFINE s == CreateProjectNet(0) \o AddMetadataPort(0)
           t == AddProviderPort(0)
<1>1. Script(s, NetworkParts(0))
  BY NetworkScript
<1>2. Script(t, ProviderParts(0))
  <2> DEFINE a == LsPortAdd(Provider(0), Switch(0), None)
             b == LsPortSetType(Provider(0))
             c == LsPortSetOptions(Provider(0), None)
  <2>1. a.row # b.row /\ a.row # c.row /\ b.row # c.row
    BY DEF LsPortAdd, LsPortSetType, LsPortSetOptions, Insert, Set, Change,
           Command
  <2> HIDE DEF a, b, c
  <2>2. Script(<<a, b, c>>, {a, b, c})
    BY <2>1, ListFew, DistinctFew DEF Script
  <2> QED  BY <2>2 DEF a, b, c, AddProviderPort, ProviderParts
<1>3. \A c \in NetworkParts(0), d \in ProviderParts(0) : c.row # d.row
  BY DEF NetworkParts, ProviderParts, LsPortAdd, LsPortSetType, LsPortEnable,
         LsPortSetOptions, LsAdd, Insert, Set, Change, Command, Switch,
         Metadata, Provider
<1> HIDE DEF s, t
<1>4. Script(s \o t, NetworkParts(0) \cup ProviderParts(0))
  BY <1>1, <1>2, <1>3, ScriptConcat
<1> QED  BY <1>4 DEF s, t

LEMMA RouterPortScript ==
  ASSUME NEW p, NEW n, NEW ip, NEW isGw \in BOOLEAN
  PROVE  Script(AddRouterPort(p, n, ip, isGw),
           {LrPortAdd(Lrp(p, n), Router(p), ip),
            LsPortAdd(Lsp(p, n), Switch(n), None), LsPortEnable(Lsp(p, n))}
           \cup IF isGw THEN {LsPortSetOptions(Lsp(p, n), Lrp(p, n))} ELSE {})
<1> DEFINE a == LrPortAdd(Lrp(p, n), Router(p), ip)
           b == LsPortAdd(Lsp(p, n), Switch(n), None)
           c == LsPortEnable(Lsp(p, n))
           d == LsPortSetOptions(Lsp(p, n), Lrp(p, n))
           t == IF isGw THEN <<d>> ELSE <<>>
           D == IF isGw THEN {d} ELSE {}
<1>1. /\ a.row # b.row /\ a.row # c.row /\ b.row # c.row
      /\ a.row # d.row /\ b.row # d.row /\ c.row # d.row
  BY DEF LrPortAdd, LsPortAdd, LsPortEnable, LsPortSetOptions, Insert, Set,
         Change, Command, Lrp, Lsp
<1>2. AddRouterPort(p, n, ip, isGw) = <<a, b, c>> \o t
  BY DEF AddRouterPort
<1> HIDE DEF a, b, c, d
<1>3. Script(<<a, b, c>>, {a, b, c})
  BY <1>1, ListFew, DistinctFew DEF Script
<1>4. Script(t, D)
  BY ListFew, DistinctFew DEF Script
<1>5. \A x \in {a, b, c}, y \in D : x.row # y.row
  BY <1>1
<1> HIDE DEF t, D
<1>6. Script(<<a, b, c>> \o t, {a, b, c} \cup D)
  BY <1>3, <1>4, <1>5, ScriptConcat
<1> QED  BY <1>2, <1>6 DEF a, b, c, d, D

LEMMA SampleFacts ==
  ASSUME NEW sample \in GatewayChassis
  PROVE  \E m \in Nat : /\ m = Least(Least(NGateways, NWorkers), MaxGwPerRouter)
                        /\ DOMAIN sample = 1..m
                        /\ \A k \in 1..m : sample[k] \in 1..NWorkers
                        /\ IsInjective(sample)
BY NumbersAssumption, WorkersAssumption DEF GatewayChassis, Least

LEMMA RouterScript ==
  ASSUME NEW p, NEW sample \in GatewayChassis
  PROVE  Script(CreateProjectRouter(p) \o ConnectExternalNetwork(p, sample),
                RouterParts(p) \cup GatewayParts(p, sample))
<1> DEFINE a == LrAdd(Router(p))
           b == LrSetOptions(Router(p), None)
           c == RouteAdd(Router(p), "route", ExtIp(p))
           D == {LrPortAdd(Lrp(p, 0), Router(p), ExtIp(p)),
                 LsPortAdd(Lsp(p, 0), Switch(0), None),
                 LsPortEnable(Lsp(p, 0))}
                \cup {LsPortSetOptions(Lsp(p, 0), Lrp(p, 0))}
           port == AddRouterPort(p, 0, ExtIp(p), TRUE)
           gws == [k \in DOMAIN sample |->
                     LrPortSetGwChassis(Lrp(p, 0), Gw(sample[k], k))]
           G == GatewayParts(p, sample)
<1> USE DEF LrAdd, LrSetOptions, RouteAdd, LrPortAdd, LsPortAdd, LsPortEnable,
            LsPortSetOptions, LrPortSetGwChassis, Insert, Set, Change, Command
<1>1. Script(<<a, b>>, {a, b})
  <2>1. a.row # b.row
    OBVIOUS
  <2> HIDE DEF a, b
  <2> QED  BY <2>1, ListFew, DistinctFew DEF Script
<1>2. Script(port, D)
  <2>1. D = {LrPortAdd(Lrp(p, 0), Router(p), ExtIp(p)),
             LsPortAdd(Lsp(p, 0), Switch(0), None), LsPortEnable(Lsp(p, 0))}
            \cup IF TRUE THEN {LsPortSetOptions(Lsp(p, 0), Lrp(p, 0))} ELSE {}
    OBVIOUS
  <2> HIDE DEF D
  <2> QED  BY <2>1, RouterPortScript
<1>3. Script(<<c>>, {c})
  BY ListFew, DistinctFew DEF Script
<1>4. Script(gws, G)
  <2>1. PICK m \in Nat : DOMAIN sample = 1..m
    BY SampleFacts
  <2>2. DOMAIN gws = 1..m /\ gws = [k \in 1..m |-> gws[k]]
    BY <2>1
  <2>3. IsList(gws) /\ Range(gws) = {gws[k] : k \in 1..m}
    <3> HIDE DEF gws
    <3> QED  BY <2>2, ListFunction
  <2>4. {gws[k] : k \in 1..m} = G
    BY <2>1 DEF GatewayParts
  <2>5. DistinctRows(gws)
    BY <2>2 DEF DistinctRows, Gw
  <2> QED  BY <2>3, <2>4, <2>5 DEF Script
<1>5. /\ \A x \in D, y \in {c} : x.row # y.row
      /\ \A x \in D \cup {c}, y \in G : x.row # y.row
      /\ \A x \in {a, b}, y \in D \cup {c} \cup G : x.row # y.row
  BY DEF GatewayParts, Router, Lrp, Lsp
<1>6. /\ ConnectExternalNetwork(p, sample) = port \o <<c>> \o gws
      /\ CreateProjectRouter(p) = <<a, b>>
      /\ {a, b} \cup (D \cup {c} \cup G) = RouterParts(p) \cup G
  BY DEF ConnectExternalNetwork, CreateProjectRouter, RouterParts
<1> HIDE DEF a, b, c, D, port, gws, G
<1>7. Script(port \o <<c>>, D \cup {c})
  BY <1>2, <1>3, <1>5, ScriptConcat
<1>8. Script(port \o <<c>> \o gws, D \cup {c} \cup G)
  BY <1>4, <1>5, <1>7, ScriptConcat
<1>9. Script(<<a, b>> \o (port \o <<c>> \o gws),
             {a, b} \cup (D \cup {c} \cup G))
  BY <1>1, <1>5, <1>8, ScriptConcat
<1> QED  BY <1>6, <1>9 DEF G

LEMMA GroupScript ==
  ASSUME NEW n
  PROVE  Script(CreateDefaultSecurityGroup(n),
                {PortGroupCreate(Group(n))} \cup Rules(n))
<1> DEFINE a == PortGroupCreate(Group(n))
           acls == [k \in 1..4 |-> AclAdd(Group(n), <<"rule", k, 0>>)]
<1> USE DEF PortGroupCreate, AclAdd, Insert, Set, Change, Command
<1>1. Script(<<a>>, {a})
  BY ListFew, DistinctFew DEF Script
<1>2. Script(acls, Rules(n))
  <2>1. DOMAIN acls = 1..4 /\ acls = [k \in 1..4 |-> acls[k]] /\ 4 \in Int
    OBVIOUS
  <2>2. IsList(acls) /\ Range(acls) = {acls[k] : k \in 1..4}
    <3> HIDE DEF acls
    <3> QED  BY <2>1, ListFunction
  <2>3. {acls[k] : k \in 1..4} = Rules(n)
    BY DEF Rules
  <2>4. DistinctRows(acls)
    BY <2>1 DEF DistinctRows
  <2> QED  BY <2>2, <2>3, <2>4 DEF Script
<1>3. \A x \in {a}, y \in Rules(n) : x.row # y.row
  BY DEF Rules
<1>4. CreateDefaultSecurityGroup(n) = <<a>> \o acls
  BY DEF CreateDefaultSecurityGroup
<1> HIDE DEF a, acls
<1>5. Script(<<a>> \o acls, {a} \cup Rules(n))
  BY <1>1, <1>2, <1>3, ScriptConcat
<1> QED  BY <1>4, <1>5 DEF a

LEMMA InternalScript ==
  ASSUME NEW p \in Nat, NEW n \in Nat, n # 0
  PROVE  Script(AddInternalNetwork(p, n),
                NetworkParts(n) \cup ({PortGroupCreate(Group(n))} \cup Rules(n))
                  \cup InternalParts(p, n))
<1> DEFINE a == CreateDhcpOptions(Dhcp(n))
           b == DhcpOptionsSetOptions(Dhcp(n), Ip(n, Gateway))
           c == LsPortSetIpv4Address(Metadata(n), Ip(n, Gateway + 1))
           d == NatAdd(Router(p), Switch(n))
           N == NetworkParts(n)
           A == {PortGroupCreate(Group(n))} \cup Rules(n)
           D == {LrPortAdd(Lrp(p, n), Router(p), Ip(n, Gateway)),
                 LsPortAdd(Lsp(p, n), Switch(n), None),
                 LsPortEnable(Lsp(p, n))}
           net == CreateProjectNet(n) \o AddMetadataPort(n)
           group == CreateDefaultSecurityGroup(n)
           port == AddRouterPortInternal(p, n)
<1> USE DEF PortGroupCreate, AclAdd, LrPortAdd, LsPortAdd, LsPortEnable, LsAdd,
            LsPortSetType, CreateDhcpOptions, DhcpOptionsSetOptions, NatAdd,
            LsPortSetIpv4Address, Insert, Set, Change, Command
<1>1. Script(<<a, b>>, {a, b})
  <2>1. a.row # b.row
    OBVIOUS
  <2> HIDE DEF a, b
  <2> QED  BY <2>1, ListFew, DistinctFew DEF Script
<1>2. Script(<<c>>, {c}) /\ Script(<<d>>, {d})
  BY ListFew, DistinctFew DEF Script
<1>3. Script(port, D)
  <2>1. D = {LrPortAdd(Lrp(p, n), Router(p), Ip(n, Gateway)),
             LsPortAdd(Lsp(p, n), Switch(n), None), LsPortEnable(Lsp(p, n))}
            \cup IF FALSE THEN {LsPortSetOptions(Lsp(p, n), Lrp(p, n))} ELSE {}
    OBVIOUS
  <2> HIDE DEF D
  <2> QED  BY <2>1, RouterPortScript DEF AddRouterPortInternal
<1>4. Script(net, N) /\ Script(group, A)
  BY NetworkScript, GroupScript
<1>5. \A x \in N, y \in A : x.row # y.row
  BY DEF NetworkParts, Rules, Group, Switch, Metadata
<1>6. /\ \A x \in N \cup A, y \in {a, b} : x.row # y.row
      /\ \A x \in N \cup A \cup {a, b}, y \in {c} : x.row # y.row
  BY DEF NetworkParts, Rules, Group, Switch, Metadata, Dhcp
<1>7. /\ \A x \in N \cup A \cup {a, b} \cup {c}, y \in D : x.row # y.row
      /\ \A x \in N \cup A \cup {a, b} \cup {c} \cup D, y \in {d} :
           x.row # y.row
  BY DEF NetworkParts, Rules, Group, Switch, Metadata, Dhcp, Lrp, Lsp
<1>8. /\ AddInternalNetwork(p, n)
           = net \o group \o <<a, b>> \o <<c>> \o port \o <<d>>
      /\ N \cup A \cup {a, b} \cup {c} \cup D \cup {d}
           = N \cup A \cup InternalParts(p, n)
  BY DEF AddInternalNetwork, InternalParts, AddNetworkSubnet, AssignPortIps
<1> HIDE DEF a, b, c, d, N, A, D, net, group, port
<1>9. Script(net \o group, N \cup A)
  BY <1>4, <1>5, ScriptConcat
<1>10. Script(net \o group \o <<a, b>>, N \cup A \cup {a, b})
  BY <1>1, <1>6, <1>9, ScriptConcat
<1>11. Script(net \o group \o <<a, b>> \o <<c>>, N \cup A \cup {a, b} \cup {c})
  BY <1>2, <1>6, <1>10, ScriptConcat
<1>12. Script(net \o group \o <<a, b>> \o <<c>> \o port,
              N \cup A \cup {a, b} \cup {c} \cup D)
  BY <1>3, <1>7, <1>11, ScriptConcat
<1>13. Script(net \o group \o <<a, b>> \o <<c>> \o port \o <<d>>,
              N \cup A \cup {a, b} \cup {c} \cup D \cup {d})
  BY <1>2, <1>7, <1>12, ScriptConcat
<1> QED  BY <1>8, <1>13 DEF N, A

ProjectParts(p, sample) ==
  RouterParts(p) \cup GatewayParts(p, sample)
    \cup (NetworkParts(p) \cup ({PortGroupCreate(Group(p))} \cup Rules(p))
            \cup InternalParts(p, p))

LEMMA ProjectScript ==
  ASSUME NEW p \in Nat, p # 0, NEW sample \in GatewayChassis
  PROVE  Script(CreateProjectRouter(p) \o ConnectExternalNetwork(p, sample)
                  \o AddInternalNetwork(p, p), ProjectParts(p, sample))
<1> DEFINE R == RouterParts(p)
           G == GatewayParts(p, sample)
           N == NetworkParts(p)
           A == {PortGroupCreate(Group(p))} \cup Rules(p)
           B == InternalParts(p, p)
           s == CreateProjectRouter(p) \o ConnectExternalNetwork(p, sample)
           t == AddInternalNetwork(p, p)
<1> USE DEF LrAdd, LrSetOptions, RouteAdd, LrPortSetGwChassis, LsPortSetOptions,
            PortGroupCreate, AclAdd, LrPortAdd, LsPortAdd, LsPortEnable, LsAdd,
            LsPortSetType, CreateDhcpOptions, DhcpOptionsSetOptions, NatAdd,
            LsPortSetIpv4Address, Insert, Set, Change, Command
<1>1. Script(s, R \cup G) /\ Script(t, N \cup A \cup B)
  BY RouterScript, InternalScript
<1>2. /\ \A x \in R, y \in N \cup A : x.row # y.row
      /\ \A x \in R, y \in B : x.row # y.row
  BY DEF RouterParts, NetworkParts, Rules, InternalParts, Router, Lrp, Lsp,
         Group, Switch, Metadata, Dhcp
<1>3. \A x \in G, y \in N \cup A \cup B : x.row # y.row
  BY DEF GatewayParts, NetworkParts, Rules, InternalParts
<1> HIDE DEF R, G, N, A, B, s, t
<1>4. Script(s \o t, R \cup G \cup (N \cup A \cup B))
  BY <1>1, <1>2, <1>3, ScriptConcat
<1> QED  BY <1>4 DEF R, G, N, A, B, s, t, ProjectParts

LEMMA NetworkOf ==
  ASSUME NEW n \in Nat, NEW c \in NetworkParts(n) \cup ProviderParts(n)
  PROVE  OfNetwork(c, n)
BY DEF NetworkParts, ProviderParts, OfNetwork, Handled, Addressed,
       LsAdd, LsPortAdd, LsPortSetType, LsPortEnable, LsPortSetOptions, Insert,
       Set, Change, Command, Switch, Metadata, Provider

LEMMA ProjectOf ==
  ASSUME NEW n \in Nat, n # 0, NEW sample, NEW c \in ProjectParts(n, sample)
  PROVE  OfNetwork(c, n)
<1> USE DEF LrAdd, LrSetOptions, RouteAdd, LrPortSetGwChassis, LsPortSetOptions,
            PortGroupCreate, AclAdd, LrPortAdd, LsPortAdd, LsPortEnable,
            CreateDhcpOptions, DhcpOptionsSetOptions, NatAdd,
            LsPortSetIpv4Address, Insert, Set, Change, Command
<1> USE DEF OfNetwork, Handled, Addressed, NetworkAddress
<1>1. CASE c \in RouterParts(n)
  BY <1>1 DEF RouterParts, Router, Lrp, Lsp, ExtIp
<1>2. CASE c \in GatewayParts(n, sample)
  BY <1>2 DEF GatewayParts, Lrp
<1>3. CASE c \in NetworkParts(n)
  BY <1>3, NetworkOf
<1>4. CASE c \in {PortGroupCreate(Group(n))} \cup Rules(n)
  BY <1>4 DEF Rules, Group
<1>5. CASE c \in InternalParts(n, n)
  BY <1>5 DEF InternalParts, Dhcp, Metadata, Lrp, Lsp, Router
<1> QED  BY <1>1, <1>2, <1>3, <1>4, <1>5 DEF ProjectParts

(* The network that project p makes is the p-th, so that its gateway's     *)
(* commands are those about its external port.                             *)
LEMMA ProjectHasNeeds ==
  ASSUME NEW p, NEW sample
  PROVE  ProjectNeeds(p) \subseteq ProjectParts(p, sample)
BY DEF ProjectNeeds, ProjectParts, RouterParts, NetworkParts, Rules,
       InternalParts

LEMMA ProjectGateways ==
  ASSUME NEW p \in Nat, p # 0, NEW sample \in GatewayChassis
  PROVE  GwsIn({c.row : c \in ProjectParts(p, sample)}, p)
           = {Gw(sample[k], k) : k \in DOMAIN sample}
<1> DEFINE S == {c.row : c \in ProjectParts(p, sample)}
<1> USE DEF LrAdd, LrSetOptions, RouteAdd, LrPortSetGwChassis, LsPortSetOptions,
            PortGroupCreate, AclAdd, LrPortAdd, LsPortAdd, LsPortEnable, LsAdd,
            LsPortSetType, CreateDhcpOptions, DhcpOptionsSetOptions, NatAdd,
            LsPortSetIpv4Address, Insert, Set, Change, Command
<1>1. \A c \in RouterParts(p) \cup NetworkParts(p) : c.row[1] # "gateway"
  BY DEF RouterParts, NetworkParts
<1>2. \A c \in InternalParts(p, p) \cup ({PortGroupCreate(Group(p))}
                                         \cup Rules(p)) : c.row[1] # "gateway"
  BY DEF InternalParts, Rules
<1>3. ASSUME NEW r \in S, r[1] = "gateway"
      PROVE  \E k \in DOMAIN sample : r[4] = Gw(sample[k], k)
  <2>1. PICK c \in ProjectParts(p, sample) : r = c.row
    OBVIOUS
  <2>2. c \in GatewayParts(p, sample)
    BY <1>1, <1>2, <1>3, <2>1 DEF ProjectParts
  <2> QED  BY <2>1, <2>2 DEF GatewayParts
<1>4. ASSUME NEW k \in DOMAIN sample
      PROVE  Gw(sample[k], k) \in GwsIn(S, p)
  <2> DEFINE c == LrPortSetGwChassis(Lrp(p, 0), Gw(sample[k], k))
  <2>1. c \in ProjectParts(p, sample)
    BY DEF GatewayParts, ProjectParts
  <2>2. c.row \in S
    BY <2>1
  <2>3. c.row[1] = "gateway" /\ c.row[2] = Lrp(p, 0)
        /\ c.row[4] = Gw(sample[k], k)
    OBVIOUS
  <2> QED  BY <2>2, <2>3 DEF GwsIn
<1>5. ASSUME NEW g \in GwsIn(S, p)
      PROVE  g \in {Gw(sample[k], k) : k \in DOMAIN sample}
  <2> HIDE DEF S
  <2>1. PICK r \in S : r[1] = "gateway" /\ g = r[4]
    BY DEF GwsIn
  <2> QED  BY <1>3, <2>1
<1> QED  BY <1>4, <1>5

-----------------------------------------------------------------------------
(***************************************************************************)
(* The script of a VM: its port comes first.                               *)
(***************************************************************************)
VmParts(n, vm, host, w) ==
  {LsPortAdd(vm, Switch(n), Ip(n, host)), LsPortSetOptions(vm, Chassis(w)),
   LsPortEnable(vm)}
    \cup {PortGroupAddPorts(Group(n), vm), AddPort(vm, Chassis(w)),
          BindVmPort(vm, Ip(n, Gateway))}

LEMMA VmScript ==
  ASSUME NEW n, NEW tag, NEW i, NEW host, NEW w
  PROVE  LET vm == Vm(tag, i)
             s  == AddVmPort(n, vm, host, w)
                     \o BindPort(vm, Chassis(w), Ip(n, Gateway))
         IN  /\ Script(s, VmParts(n, vm, host, w))
             /\ Head(s) = LsPortAdd(vm, Switch(n), Ip(n, host)) /\ s # <<>>
<1> DEFINE vm == Vm(tag, i)
           a == LsPortAdd(vm, Switch(n), Ip(n, host))
           b == LsPortSetOptions(vm, Chassis(w))
           c == LsPortEnable(vm)
           d == PortGroupAddPorts(Group(n), vm)
           e == AddPort(vm, Chassis(w))
           f == BindVmPort(vm, Ip(n, Gateway))
<1>1. /\ a.row # b.row /\ a.row # c.row /\ b.row # c.row
      /\ d.row # e.row /\ d.row # f.row /\ e.row # f.row
      /\ \A x \in {a, b, c}, y \in {d, e, f} : x.row # y.row
  BY DEF LsPortAdd, LsPortSetOptions, LsPortEnable, PortGroupAddPorts, AddPort,
         BindVmPort, Insert, Set, Change, Command, Vm, Netns, Group
<1>2. AddVmPort(n, vm, host, w) \o BindPort(vm, Chassis(w), Ip(n, Gateway))
        = <<a, b, c>> \o <<d, e, f>>
  <2> HIDE DEF a, b, c, d, e, f
  <2>1. <<a, b, c, d>> \o <<e, f>> = <<a, b, c>> \o <<d, e, f>>
    OBVIOUS
  <2> QED  BY <2>1 DEF AddVmPort, BindPort, a, b, c, d, e, f
<1> HIDE DEF a, b, c, d, e, f
<1>3. Script(<<a, b, c>>, {a, b, c}) /\ Script(<<d, e, f>>, {d, e, f})
  BY <1>1, ListFew, DistinctFew DEF Script
<1>4. Script(<<a, b, c>> \o <<d, e, f>>, {a, b, c} \cup {d, e, f})
  BY <1>1, <1>3, ScriptConcat
<1>5. /\ Head(<<a, b, c>> \o <<d, e, f>>) = a
      /\ <<a, b, c>> \o <<d, e, f>> # <<>>
  OBVIOUS
<1> QED  BY <1>2, <1>4, <1>5 DEF a, b, c, d, e, f, VmParts

-----------------------------------------------------------------------------
(***************************************************************************)
(* A step of a script: the first command is executed, or fails; then it is *)
(* tried again, or the run ends, or it has left something and the next one *)
(* follows.                                                                *)
(***************************************************************************)
LEMMA AllHandled ==
  ASSUME ScriptAgrees, NEW c \in Range(todo)
  PROVE  Handled(c)
BY DEF ScriptAgrees, OfVm, OfNetwork

Executed(c) ==
  \/ db' = db
  \/ /\ db' = Append(db, c.row) /\ ~Refused(c)
     /\ "retry" \in c.fails => ~Exists(c.row[2])

StaysAt(c) == todo' = todo /\ (pc' = "dead" \/ "retry" \in c.fails)

MovesOn(c) ==
  /\ todo' = Tail(todo) /\ pc' = "busy" /\ Ensured(c)'
  /\ c.fails = {"retry"} => ~Refused(c)

LEMMA WorkMoves ==
  ASSUME ScriptAgrees, RowsAgree, Work, NEW c, c = Head(todo)
  PROVE  /\ pc = "busy" /\ todo # <<>> /\ c \in Range(todo)
         /\ UNCHANGED cloud /\ pc' \in {"busy", "dead"}
         /\ Executed(c) /\ (StaysAt(c) \/ MovesOn(c))
         /\ logged \subseteq logged' /\ logged' \subseteq logged \cup {c.row}
         /\ measured \subseteq measured'
<1>1. pc = "busy" /\ todo # <<>> /\ UNCHANGED cloud
  BY DEF Work, Execute
<1>2. c \in Range(todo) /\ IsList(db)
  BY <1>1, ListTail DEF ScriptAgrees, RowsAgree
<1>3. Handled(c)
  BY <1>2, AllHandled
<1>4. "lose" \notin c.fails
  BY <1>3 DEF Handled
<1>5. Rows \subseteq Rows' /\ (db' = Append(db, c.row) => c.row \in Rows')
  <2>1. db' = db \/ db' = Append(db, c.row)
    BY <1>1 DEF Work, Execute, Succeeds, Fails, Effect
  <2> DEFINE r == c.row
  <2>2. Range(Append(db, r)) = Range(db) \cup {r}
    <3> HIDE DEF r
    <3> QED  BY <1>2, ListAppend
  <2> QED  BY <2>1, <2>2 DEF Rows
<1>6. CASE Succeeds(c) /\ Advance /\ UNCHANGED <<logged, measured>>
  <2>1. Ensured(c)'
    BY <1>5, <1>6 DEF Ensured, Succeeds, Effect, Exists
  <2>2. Executed(c)
    BY <1>6 DEF Executed, Succeeds, Effect
  <2> QED  BY <1>1, <1>2, <1>6, <2>1, <2>2 DEF MovesOn, Succeeds, Advance
<1>7. ASSUME Fails(c) PROVE Executed(c)
  BY <1>7 DEF Executed, Fails, Effect
<1>8. CASE /\ Fails(c) /\ "log" \in c.fails
           /\ logged' = logged \cup {c.row}
           /\ Advance /\ UNCHANGED measured
  <2>1. Ensured(c)'
    BY <1>8 DEF Ensured
  <2> QED  BY <1>1, <1>2, <1>7, <1>8, <2>1 DEF MovesOn, Advance
<1>9. CASE /\ Fails(c) /\ "measure" \in c.fails
           /\ measured' = measured \cup {c.row}
           /\ Advance /\ UNCHANGED logged
  <2>1. Ensured(c)'
    BY <1>9 DEF Ensured
  <2> QED  BY <1>1, <1>2, <1>7, <1>9, <2>1 DEF MovesOn, Advance
<1>10. CASE /\ Fails(c) /\ "raise" \in c.fails
            /\ Stop /\ UNCHANGED <<logged, measured>>
  BY <1>1, <1>2, <1>7, <1>10 DEF StaysAt, Stop
<1>11. CASE /\ Fails(c) /\ "retry" \in c.fails
            /\ IF AttemptsMade = MaxRetry
               THEN Stop
               ELSE attempts' = AttemptsMade /\ UNCHANGED <<todo, pc>>
            /\ UNCHANGED <<logged, measured>>
  BY <1>1, <1>2, <1>7, <1>11 DEF StaysAt, Stop
<1>12. \/ Succeeds(c) /\ Advance /\ UNCHANGED <<logged, measured>>
       \/ /\ Fails(c) /\ "log" \in c.fails
          /\ logged' = logged \cup {c.row}
          /\ Advance /\ UNCHANGED measured
       \/ /\ Fails(c) /\ "measure" \in c.fails
          /\ measured' = measured \cup {c.row}
          /\ Advance /\ UNCHANGED logged
       \/ /\ Fails(c) /\ "raise" \in c.fails
          /\ Stop /\ UNCHANGED <<logged, measured>>
       \/ /\ Fails(c) /\ "retry" \in c.fails
          /\ IF AttemptsMade = MaxRetry
             THEN Stop
             ELSE attempts' = AttemptsMade /\ UNCHANGED <<todo, pc>>
          /\ UNCHANGED <<logged, measured>>
  BY <1>4 DEF Work, Execute
<1> QED  BY <1>6, <1>8, <1>9, <1>10, <1>11, <1>12

LEMMA WorkRows ==
  ASSUME ScriptAgrees, RowsAgree, Work, NEW c, c = Head(todo)
  PROVE  /\ Rows \subseteq Rows' /\ Rows' \subseteq Rows \cup {c.row}
         /\ IsList(db)'
         /\ Rows' # Rows => /\ ~Refused(c)
                            /\ db' = Append(db, c.row)
<1> DEFINE r == c.row
<1>1. IsList(db)
  BY DEF RowsAgree
<1>2. \/ db' = db
      \/ db' = Append(db, c.row) /\ ~Refused(c)
  BY WorkMoves DEF Executed
<1>3. Range(Append(db, r)) = Range(db) \cup {r} /\ IsList(Append(db, r))
  <2> HIDE DEF r
  <2> QED  BY <1>1, ListAppend
<1>4. CASE db' = db
  BY <1>1, <1>4 DEF Rows, IsList
<1>5. CASE db' = Append(db, c.row) /\ ~Refused(c)
  BY <1>3, <1>5 DEF Rows, IsList
<1> QED  BY <1>2, <1>4, <1>5

LEMMA BooksStay ==
  ASSUME UNCHANGED <<hosts, making, projects, used, turn>>
  PROVE  /\ \A p : VmsBegun(p)' = VmsBegun(p)
         /\ \A p : ProjectAgrees(p)' <=> ProjectAgrees(p)
         /\ \A row : Planned(row)' <=> Planned(row)
         /\ \A what : Making(what)' <=> Making(what)
         /\ \A c : OfVm(c)' <=> OfVm(c)
         /\ MakePort' = MakePort
<1>1. /\ \A p : VmsBegun(p)' = VmsBegun(p)
      /\ \A what : Making(what)' <=> Making(what)
  BY DEF VmsBegun, Making
<1>2. \A row : VmRow(row)' <=> VmRow(row)
  BY <1>1 DEF VmRow
<1>3. MakePort' = MakePort
  BY DEF MakePort
<1> QED  BY <1>1, <1>2, <1>3 DEF ProjectAgrees, Planned, OfVm

LEMMA CloudStays ==
  ASSUME UNCHANGED cloud
  PROVE  /\ \A p : VmsBegun(p)' = VmsBegun(p)
         /\ \A p : ProjectAgrees(p)' <=> ProjectAgrees(p)
         /\ \A row : Planned(row)' <=> Planned(row)
         /\ \A what : Making(what)' <=> Making(what)
         /\ \A c : OfVm(c)' <=> OfVm(c)
         /\ MakePort' = MakePort
BY BooksStay DEF cloud

LEMMA ProjectTyped ==
  ASSUME BooksAgree, NEW p \in DOMAIN projects
  PROVE  /\ p \in Nat /\ p # 0 /\ p <= Len(projects) /\ Len(projects) \in Nat
         /\ projects[p] \in ProjectTypes /\ projects[p].vms \in Seq(VmTypes)
         /\ Len(projects[p].vms) \in Nat
         /\ DOMAIN projects[p].vms = 1..Len(projects[p].vms)
         /\ ProjectAgrees(p)
<1>1. projects \in Seq(ProjectTypes) /\ ProjectAgrees(p)
  BY DEF BooksAgree
<1>2. /\ projects[p] \in ProjectTypes /\ Len(projects) \in Nat
      /\ p \in 1..Len(projects)
  BY <1>1
<1>3. projects[p].vms \in Seq(VmTypes)
  BY <1>2 DEF ProjectTypes
<1>4. /\ Len(projects[p].vms) \in Nat
      /\ DOMAIN projects[p].vms = 1..Len(projects[p].vms)
  BY <1>3
<1> QED  BY <1>1, <1>2, <1>3, <1>4

LEMMA WorkBooks ==
  ASSUME BooksAgree, ScriptAgrees, RowsAgree, Work
  PROVE  BooksAgree'
<1>1. UNCHANGED cloud /\ pc = "busy" /\ pc' \in {"busy", "dead"}
  BY WorkMoves
<1>2. \A p \in DOMAIN projects : ProjectAgrees(p)'
  BY <1>1, CloudStays DEF BooksAgree
<1>3. MakingAgrees'
  BY <1>1, CloudStays DEF BooksAgree, MakingAgrees, cloud, Making
<1> QED  BY <1>1, <1>2, <1>3, CloudStays DEF BooksAgree, cloud, Making

(* What the first command writes is as planned.                            *)
LEMMA FirstPlanned ==
  ASSUME BooksAgree, ScriptAgrees, NEW c \in Range(todo), pc = "busy"
  PROVE  Planned(c.row)
<1>1. CASE Making("vm")
  <2>1. OfVm(c) /\ making.of \in DOMAIN projects
        /\ making.port = Vm(projects[making.of].tag,
                            Len(projects[making.of].vms))
        /\ making.host = Len(projects[making.of].vms) + 3
    BY <1>1 DEF ScriptAgrees, BooksAgree, MakingAgrees
  <2>2. /\ projects[making.of].vms \in Seq(VmTypes)
        /\ projects \in Seq(ProjectTypes)
    BY <2>1, ProjectTyped DEF BooksAgree
  <2>3. CASE c = MakePort
    <3> DEFINE p == making.of
               i == Len(projects[making.of].vms)
    <3>1. p \in DOMAIN projects /\ i \in Nat /\ i < VmsBegun(p)
      BY <1>1, <2>1, <2>2 DEF VmsBegun
    <3>2. c.row = <<"in", Vm(projects[p].tag, i), Switch(p), Ip(p, i + 3)>>
      BY <2>1, <2>3 DEF MakePort, LsPortAdd, Insert, Command
    <3>3. VmRow(c.row)
      BY <3>1, <3>2 DEF VmRow
    <3> QED  BY <3>2, <3>3 DEF Planned, Addressed, Vm
  <2>4. CASE c.row[1] \in {"options", "enabled", "iface"}
             /\ c.row[2] = making.port
    BY <2>1, <2>4 DEF Planned, Addressed, Vm
  <2>5. CASE c.row[1] = "in" /\ c.row[2] = Netns(making.port)
    BY <2>1, <2>5 DEF Planned, Addressed, Vm, Netns
  <2>6. CASE c.row = <<"ports", Group(making.of), None, making.port>>
    <3>1. making.of \in Nat /\ making.of < Len(used)
      BY <1>1, <2>1, <2>2 DEF BooksAgree, Making
    <3> QED  BY <2>6, <3>1 DEF Planned, Addressed, Group
  <2> QED  BY <2>1, <2>3, <2>4, <2>5, <2>6 DEF OfVm
<1>2. CASE ~Making("vm")
  <2>1. OfNetwork(c, Len(used) - 1)
    BY <1>2 DEF ScriptAgrees
  <2>2. used # <<>> /\ Len(used) \in Nat \ {0}
    BY DEF BooksAgree, MakingAgrees
  <2> QED  BY <2>1, <2>2 DEF OfNetwork, Planned
<1> QED  BY <1>1, <1>2

(* When the first command has taken effect, the port it is about exists.   *)
LEMMA WorkScript ==
  ASSUME BooksAgree, ScriptAgrees, RowsAgree, Work
  PROVE  ScriptAgrees'
<1>0. PICK c : c = Head(todo)
  OBVIOUS
<1>1. /\ UNCHANGED cloud /\ todo # <<>> /\ c \in Range(todo) /\ pc = "busy"
      /\ StaysAt(c) \/ MovesOn(c)
      /\ Rows \subseteq Rows'
  BY <1>0, WorkMoves, WorkRows
<1>2. IsList(todo)' /\ DistinctRows(todo)' /\ Range(todo)' \subseteq Range(todo)
  <2>1. CASE todo' = todo
    BY <2>1 DEF ScriptAgrees, IsList, DistinctRows
  <2>2. CASE todo' = Tail(todo)
    <3>1. /\ IsList(Tail(todo)) /\ DistinctRows(Tail(todo))
          /\ Range(Tail(todo)) \subseteq Range(todo)
      BY <1>1, ListTail, DistinctTail DEF ScriptAgrees
    <3> QED  BY <2>2, <3>1 DEF IsList, DistinctRows
  <2> QED  BY <1>1, <2>1, <2>2 DEF StaysAt, MovesOn
<1>3. ASSUME Making("vm")
      PROVE  IF MakePort \in Range(todo') THEN Head(todo') = MakePort
                                          ELSE MakePort.row \in Rows'
  <2>1. CASE todo' = todo
    BY <1>1, <1>3, <2>1 DEF ScriptAgrees
  <2>2. CASE MakePort \notin Range(todo)
    BY <1>1, <1>2, <1>3, <2>2 DEF ScriptAgrees
  <2>3. CASE MakePort \in Range(todo) /\ MovesOn(c)
    <3>1. c = MakePort
      BY <1>0, <1>3, <2>3 DEF ScriptAgrees
    <3>2. MakePort \notin Range(todo')
      BY <1>0, <1>1, <2>3, <3>1, DistinctTail DEF ScriptAgrees, MovesOn
    <3>3. /\ c.row = <<"in", making.port, Switch(making.of),
                       Ip(making.of, making.host)>>
          /\ c.fails = {"retry"}
      BY <3>1 DEF MakePort, LsPortAdd, Insert, Command
    <3>4. ~Refused(c) /\ (c.row \in Rows' \/ Exists(making.port)')
      <4>1. Ensured(c)' /\ ~Refused(c)
        BY <2>3, <3>3 DEF MovesOn
      <4>2. making' = making
        BY <1>1 DEF cloud
      <4>3. c.row \in Rows' \/ Exists(c.row[2])'
        BY <3>3, <4>1 DEF Ensured
      <4>4. PICK vm : vm = making.port
        OBVIOUS
      <4>5. c.row[2] = vm /\ (Exists(making.port)' <=> Exists(vm)')
        BY <3>3, <4>2, <4>4 DEF Exists
      <4> QED  BY <4>1, <4>3, <4>5
    <3>5. CASE c.row \in Rows'
      BY <3>1, <3>2, <3>5
    <3>6. CASE c.row \notin Rows'
      <4>1. PICK r \in Rows' : r[1] = "in" /\ r[2] = making.port
        <5>1. making' = making
          BY <1>1 DEF cloud
        <5> QED  BY <3>4, <3>6, <5>1 DEF Exists
      <4>2. Rows' \subseteq Rows \cup {c.row}
        BY <1>0, WorkRows
      <4>3. r \in Rows
        BY <3>6, <4>1, <4>2
      <4>4. r[3] = Switch(making.of)
        BY <3>3, <3>4, <4>1, <4>3 DEF Refused
      <4>5. Planned(r)
        BY <4>3 DEF RowsAgree
      <4>6. making.port = Vm(projects[making.of].tag,
                             Len(projects[making.of].vms))
            /\ making.host = Len(projects[making.of].vms) + 3
        BY <1>3 DEF BooksAgree, MakingAgrees
      <4>7. VmRow(r)
        BY <4>1, <4>5, <4>6 DEF Planned, Vm
      <4>8. PICK p \in DOMAIN projects, i \in Nat :
               r = <<"in", Vm(projects[p].tag, i), Switch(p), Ip(p, i + 3)>>
        BY <4>7 DEF VmRow
      <4>9. p = making.of /\ i = Len(projects[making.of].vms)
        BY <4>1, <4>4, <4>6, <4>8 DEF Vm, Switch
      <4>10. r = c.row
        BY <3>3, <4>6, <4>8, <4>9
      <4> QED  BY <3>6, <4>3, <4>10, <1>1
    <3> QED  BY <3>5, <3>6
  <2> QED  BY <1>1, <2>1, <2>2, <2>3 DEF StaysAt
<1>4. ASSUME Making("vm"), NEW d \in Range(todo') PROVE OfVm(d)'
  BY <1>1, <1>2, <1>4, CloudStays DEF ScriptAgrees
<1>5. ASSUME ~Making("vm"), NEW d \in Range(todo')
      PROVE  OfNetwork(d, Len(used) - 1)
  BY <1>2, <1>5 DEF ScriptAgrees
<1>6. MakePort' = MakePort /\ (Making("vm")' <=> Making("vm")) /\ used' = used
  BY <1>1, CloudStays DEF cloud
<1> QED  BY <1>2, <1>3, <1>4, <1>5, <1>6 DEF ScriptAgrees

LEMMA WorkRowsAgree ==
  ASSUME BooksAgree, ScriptAgrees, RowsAgree, Work
  PROVE  RowsAgree'
<1>0. PICK c : c = Head(todo)
  OBVIOUS
<1>1. /\ UNCHANGED cloud /\ c \in Range(todo) /\ pc = "busy"
      /\ logged' \subseteq logged \cup {c.row}
      /\ Rows \subseteq Rows' /\ Rows' \subseteq Rows \cup {c.row}
      /\ IsList(db)'
      /\ Rows' # Rows => ~Refused(c)
  BY <1>0, WorkMoves, WorkRows
<1>2. ASSUME NEW row \in Rows' \cup logged' PROVE Planned(row)'
  <2>1. Planned(row)
    BY <1>1, FirstPlanned DEF RowsAgree
  <2> QED  BY <1>1, <2>1, CloudStays
<1>3. ASSUME NEW x, Exists(x) PROVE Exists(x)'
  BY <1>1, <1>3 DEF Exists
<1>4. ASSUME NEW row \in Rows' PROVE Backed(row)'
  <2>1. CASE row \in Rows
    <3>1. Backed(row)
      BY <2>1 DEF RowsAgree
    <3>2. row[2][1] \in {"vm", "netns"} => Exists(Vm(row[2][2], row[2][3]))'
      BY <1>3, <3>1 DEF Backed
    <3>3. row[1] = "ports" => Exists(row[4])'
      BY <1>3, <3>1 DEF Backed
    <3> QED  BY <3>2, <3>3 DEF Backed
  <2>2. CASE row = c.row /\ ~Making("vm")
    BY <1>1, <2>2 DEF ScriptAgrees, OfNetwork, Backed
  <2>3. CASE row = c.row /\ Making("vm")
    <3>1. PICK vm : vm = making.port
      OBVIOUS
    <3>2. Exists(vm)'
      <4>1. MakePort.row \in Rows'
        <5>1. CASE MakePort \in Range(todo)
          BY <1>0, <2>3, <5>1 DEF ScriptAgrees
        <5>2. CASE MakePort \notin Range(todo)
          BY <1>1, <2>3, <5>2 DEF ScriptAgrees
        <5> QED  BY <5>1, <5>2
      <4>2. MakePort.row[1] = "in" /\ MakePort.row[2] = vm
        BY <3>1 DEF MakePort, LsPortAdd, Insert, Command
      <4> QED  BY <4>1, <4>2 DEF Exists
    <3>3. OfVm(c)
      BY <1>1, <2>3 DEF ScriptAgrees
    <3>4. vm = Vm(vm[2], vm[3])
      <4>1. PICK tag, i : vm = Vm(tag, i)
        BY <2>3, <3>1 DEF BooksAgree, MakingAgrees
      <4> QED  BY <4>1 DEF Vm
    <3>5. row[2][1] \in {"vm", "netns"} => Vm(row[2][2], row[2][3]) = vm
      BY <2>3, <3>1, <3>3, <3>4
         DEF OfVm, MakePort, LsPortAdd, Insert, Command, Vm, Netns, Group
    <3>6. row[1] = "ports" => row[4] = vm
      BY <2>3, <3>1, <3>3
         DEF OfVm, MakePort, LsPortAdd, Insert, Command
    <3> QED  BY <3>2, <3>5, <3>6 DEF Backed
  <2> QED  BY <1>1, <2>1, <2>2, <2>3
<1>5. ASSUME NEW r \in Rows', NEW s \in Rows',
             r[1] = "in", s[1] = "in", r[2] = s[2]
      PROVE  r[3] = s[3]
  <2>1. CASE r \in Rows /\ s \in Rows
    BY <1>5, <2>1 DEF RowsAgree
  <2>2. CASE r \notin Rows \/ s \notin Rows
    <3>1. ~Refused(c)
      BY <1>1, <2>2
    <3>2. \A q \in Rows : q[1] = "in" /\ q[2] = c.row[2] /\ c.row[1] = "in"
                             => q[3] = c.row[3]
      BY <3>1 DEF Refused
    <3> QED  BY <1>1, <1>5, <2>2, <3>2
  <2> QED  BY <2>1, <2>2
<1> QED  BY <1>1, <1>2, <1>4, <1>5 DEF RowsAgree

LEMMA AppendOnce ==
  ASSUME NEW s, NEW e, IsList(s), IsInjective(s), e \notin Range(s)
  PROVE  IsInjective(Append(s, e))
<1>1. /\ s \in Seq(Range(s)) /\ Len(s) \in Nat /\ DOMAIN s = 1..Len(s)
      /\ DOMAIN Append(s, e) = 1..(Len(s) + 1)
      /\ \A i \in 1..Len(s) : Append(s, e)[i] = s[i]
      /\ Append(s, e)[Len(s) + 1] = e
  <2> DEFINE E == Range(s) \cup {e}
  <2>1. s \in Seq(E) /\ e \in E /\ s \in Seq(Range(s))
    BY DEF IsList
  <2> HIDE DEF E
  <2> QED  BY <2>1, AppendProperties
<1>2. \A i \in 1..Len(s) : s[i] # e
  BY <1>1 DEF Range
<1> QED  BY <1>1, <1>2 DEF IsInjective

LEMMA WorkOnce ==
  ASSUME BooksAgree, ScriptAgrees, RowsAgree, OnceOnly, Work
  PROVE  OnceOnly'
<1>0. PICK c : c = Head(todo)
  OBVIOUS
<1>1. /\ UNCHANGED cloud /\ c \in Range(todo) /\ pc = "busy" /\ todo # <<>>
      /\ Rows \subseteq Rows' /\ Rows' \subseteq Rows \cup {c.row}
      /\ Rows' # Rows => ~Refused(c)
      /\ Executed(c) /\ (StaysAt(c) \/ MovesOn(c))
  BY <1>0, WorkMoves, WorkRows
<1>2. Handled(c) /\ MakePort' = MakePort /\ (Making("vm")' <=> Making("vm"))
  BY <1>1, AllHandled, CloudStays
(* The name is another project's: it is refused as often as it is tried.   *)
<1>3. ASSUME Doomed PROVE Refused(c) /\ (pc' = "busy" => Doomed')
  <2>1. c = MakePort
    BY <1>0, <1>3 DEF Doomed, ScriptAgrees
  <2>2. /\ c.row[1] = "in" /\ c.row[2] = making.port /\ c.fails = {"retry"}
        /\ c.row[3] = Switch(making.of)
    BY <2>1 DEF MakePort, LsPortAdd, Insert, Command
  <2>3. Refused(c)
    BY <1>3, <2>2 DEF Doomed, Refused
  <2>4. StaysAt(c)
    BY <1>1, <2>2, <2>3 DEF MovesOn
  <2> QED  BY <1>1, <1>2, <1>3, <2>3, <2>4 DEF StaysAt, Doomed, cloud
<1>4. IsInjective(db)'
  <2>1. CASE db' = db
    BY <2>1 DEF OnceOnly, IsInjective
  <2>2. CASE db' # db
    <3>1. /\ db' = Append(db, c.row) /\ ~Refused(c)
          /\ "retry" \in c.fails => ~Exists(c.row[2])
      BY <1>1, <2>2 DEF Executed
    <3>2. Fresh
      BY <1>1, <1>3, <3>1 DEF OnceOnly
    <3>3. c.row \notin Rows
      <4>1. CASE "retry" \in c.fails
        BY <1>2, <3>1, <4>1 DEF Handled, Exists
      <4>2. CASE "retry" \notin c.fails
        BY <1>1, <3>2, <4>2 DEF Fresh
      <4> QED  BY <4>1, <4>2
    <3>4. IsList(db) /\ IsInjective(db)
      BY DEF RowsAgree, OnceOnly
    <3> QED  BY <3>1, <3>3, <3>4, AppendOnce DEF Rows
  <2> QED  BY <2>1, <2>2
<1>5. ASSUME pc' = "busy", Fresh PROVE Fresh'
  <2> SUFFICES ASSUME NEW d \in Range(todo'), "retry" \notin d.fails
               PROVE  d.row \notin Rows'
    BY DEF Fresh
  <2>1. d \in Range(todo) /\ d.row # c.row
    <3>1. CASE StaysAt(c)
      <4>1. d \in Range(todo) /\ "retry" \in c.fails
        BY <1>5, <3>1 DEF StaysAt
      <4> QED  BY <1>1, <4>1, DistinctOf DEF ScriptAgrees
    <3>2. CASE MovesOn(c)
      BY <1>0, <1>1, <3>2, ListTail, DistinctTail DEF ScriptAgrees, MovesOn
    <3> QED  BY <1>1, <3>1, <3>2
  <2>2. d.row \notin Rows
    BY <1>5, <2>1 DEF Fresh
  <2> QED  BY <1>1, <2>1, <2>2
<1> QED  BY <1>1, <1>3, <1>4, <1>5 DEF OnceOnly

LEMMA EnsuredStays ==
  ASSUME Rows \subseteq Rows', logged \subseteq logged',
         measured \subseteq measured', NEW c, Ensured(c)
  PROVE  Ensured(c)'
BY DEF Ensured, Exists

LEMMA WorkEnsures ==
  ASSUME ScriptAgrees, RowsAgree, Work, NEW d,
         d \in Range(todo) \/ Ensured(d)
  PROVE  d \in Range(todo') \/ Ensured(d)'
<1>0. PICK c : c = Head(todo)
  OBVIOUS
<1>1. /\ todo # <<>> /\ (StaysAt(c) \/ MovesOn(c)) /\ Rows \subseteq Rows'
      /\ logged \subseteq logged' /\ measured \subseteq measured'
  BY <1>0, WorkMoves, WorkRows
<1>2. CASE Ensured(d)
  BY <1>1, <1>2, EnsuredStays
<1>3. CASE d \in Range(todo) /\ StaysAt(c)
  BY <1>3 DEF StaysAt
<1>4. CASE d \in Range(todo) /\ MovesOn(c)
  <2>1. d = c \/ d \in Range(Tail(todo))
    BY <1>0, <1>1, <1>4, ListHead DEF ScriptAgrees
  <2>2. d = c => Ensured(d)'
    BY <1>4 DEF MovesOn
  <2> QED  BY <1>4, <2>1, <2>2 DEF MovesOn
<1> QED  BY <1>1, <1>2, <1>3, <1>4

LEMMA WorkNeeds ==
  ASSUME BooksAgree, ScriptAgrees, RowsAgree, NeedsMet, Work
  PROVE  NeedsMet'
<1>1. UNCHANGED cloud /\ Rows \subseteq Rows' /\ logged \subseteq logged'
      /\ measured \subseteq measured'
  BY WorkMoves, WorkRows
<1>2. ASSUME NEW p \in DOMAIN projects, NEW c \in ProjectNeeds(p)
      PROVE  Ensured(c)'
  BY <1>1, EnsuredStays DEF NeedsMet
<1>3. ASSUME NEW p \in DOMAIN projects, NEW vm \in VmsOf(p)
      PROVE  /\ <<"in", vm.port, Switch(p), Ip(p, vm.host)>> \in Rows'
             /\ \A c \in VmNeeds(p, vm) : Ensured(c)'
  BY <1>1, EnsuredStays DEF NeedsMet
<1>4. ASSUME NEW C, Tracked(C) PROVE Tracked(C)'
  BY <1>4, WorkEnsures DEF Tracked
<1>5. Making("project") => Tracked(ProjectNeeds(making.net))'
  <2>1. PICK C : C = ProjectNeeds(making.net)
    OBVIOUS
  <2>2. ProjectNeeds(making.net)' = C
    BY <1>1, <2>1 DEF cloud
  <2>3. Making("project") => Tracked(C)'
    BY <1>4, <2>1 DEF NeedsMet
  <2> QED  BY <2>2, <2>3 DEF Tracked
<1>6. Making("vm") => Tracked(VmNeeds(making.of, making))'
  <2>1. PICK C : C = VmNeeds(making.of, making)
    OBVIOUS
  <2>2. VmNeeds(making.of, making)' = C
    BY <1>1, <2>1 DEF cloud
  <2>3. Making("vm") => Tracked(C)'
    BY <1>4, <2>1 DEF NeedsMet
  <2> QED  BY <2>2, <2>3 DEF Tracked
<1>7. \A p : VmsOf(p)' = VmsOf(p)
  BY <1>1 DEF cloud, VmsOf
<1>8. projects' = projects /\ \A what : Making(what)' <=> Making(what)
  BY <1>1, CloudStays DEF cloud
<1>9. \A p \in DOMAIN projects' :
        /\ \A c \in ProjectNeeds(p) : Ensured(c)'
        /\ \A vm \in VmsOf(p)' :
             /\ <<"in", vm.port, Switch(p), Ip(p, vm.host)>> \in Rows'
             /\ \A c \in VmNeeds(p, vm) : Ensured(c)'
  BY <1>2, <1>3, <1>7, <1>8
<1> QED  BY <1>5, <1>6, <1>8, <1>9 DEF NeedsMet

LEMMA MakingKinds ==
  ASSUME BooksAgree
  PROVE  /\ Making("nothing") \/ Making("network") \/ Making("project")
              \/ Making("vm")
         /\ making = Nothing <=> Making("nothing")
         /\ Making("vm") => making.on \in 1..NWorkers
BY DEF BooksAgree, MakingTypes, Making, Nothing

LEMMA WorkGateways ==
  ASSUME BooksAgree, ScriptAgrees, RowsAgree, GatewaysKnown, Work
  PROVE  GatewaysKnown'
<1>0. PICK c : c = Head(todo)
  OBVIOUS
<1> DEFINE S == Rows \cup logged
           T == {d.row : d \in Range(todo)}
<1>1. /\ UNCHANGED cloud /\ c \in Range(todo) /\ pc = "busy" /\ todo # <<>>
      /\ StaysAt(c) \/ MovesOn(c)
      /\ S \subseteq S' /\ S' \subseteq S \cup {c.row}
  BY <1>0, WorkMoves, WorkRows
<1>2. Handled(c) /\ projects' = projects /\ making' = making
  BY <1>1, AllHandled DEF cloud
<1>3. ASSUME NEW p \in DOMAIN projects
      PROVE  GwsIn(S', p) = GwsIn(S, p)
  <2>1. ~(c.row[1] = "gateway" /\ c.row[2] = Lrp(p, 0))
    <3>1. CASE Making("vm")
      BY <1>1, <3>1
         DEF ScriptAgrees, OfVm, MakePort, LsPortAdd, Insert, Command
    <3>2. CASE ~Making("vm")
      <4>1. c.row[1] = "gateway" => c.row[2] = Lrp(Len(used) - 1, 0)
        BY <1>1, <3>2 DEF ScriptAgrees, OfNetwork
      <4>2. Making("network") \/ Making("project")
        BY <1>1, <3>2, MakingKinds DEF BooksAgree, MakingAgrees
      <4>3. Len(used) - 1 # p
        BY <4>2, ProjectTyped DEF BooksAgree, MakingAgrees, Making
      <4> QED  BY <4>1, <4>3 DEF Lrp
    <3> QED  BY <3>1, <3>2
  <2> HIDE DEF S
  <2> QED  BY <1>1, <2>1 DEF GwsIn
<1>4. ASSUME Making("project")
      PROVE  GwsIn(S' \cup T', making.net) = GwsIn(S \cup T, making.net)
  <2>1. T' \subseteq T /\ c.row \in T
    <3>1. Range(todo') \subseteq Range(todo)
      BY <1>1, ListTail DEF ScriptAgrees, StaysAt, MovesOn
    <3> QED  BY <1>1, <3>1
  <2>2. ASSUME NEW r \in T, r[1] = "gateway" PROVE r \in S' \cup T'
    <3>1. PICK d \in Range(todo) : r = d.row
      OBVIOUS
    <3>2. d \in Range(todo') \/ Ensured(d)'
      BY <3>1, WorkEnsures
    <3>3. Handled(d)
      BY <3>1, AllHandled
    <3>4. "measure" \notin d.fails /\ "retry" \notin d.fails
      BY <2>2, <3>1, <3>3 DEF Handled
    <3> QED  BY <3>1, <3>2, <3>4 DEF Ensured
  <2>3. \A r : r[1] = "gateway" => (r \in S' \cup T' <=> r \in S \cup T)
    BY <1>1, <2>1, <2>2
  <2> HIDE DEF S, T
  <2> QED  BY <2>3 DEF GwsIn
<1>5. \A p \in DOMAIN projects : Sampled(GwsIn(S', p))
  BY <1>3 DEF GatewaysKnown
<1>6. Making("project") => Sampled(GwsIn(S' \cup T', making.net))
  BY <1>4 DEF GatewaysKnown
<1> QED  BY <1>2, <1>5, <1>6, CloudStays DEF GatewaysKnown, Making

LEMMA ListedStays ==
  ASSUME projects' = projects
  PROVE  Listed' = Listed /\ \A w : OnNode(w)' = OnNode(w)
<1>1. Listed' = Listed
  BY DEF Listed, VmsOf
<1> QED  BY <1>1 DEF OnNode

LEMMA BalancedStays ==
  ASSUME Balanced, projects' = projects, NextNode' = NextNode
  PROVE  Balanced'
<1>1. Listed' = Listed /\ \A w : OnNode(w)' = OnNode(w)
  BY ListedStays
<1> QED  BY <1>1 DEF Balanced

LEMMA WorkStep ==
  ASSUME IInv, Work
  PROVE  IInv'
<1>1. BooksAgree' /\ ScriptAgrees' /\ RowsAgree' /\ OnceOnly'
  BY WorkBooks, WorkScript, WorkRowsAgree, WorkOnce DEF IInv
<1>2. NeedsMet' /\ GatewaysKnown'
  BY WorkNeeds, WorkGateways DEF IInv
<1>3. UNCHANGED cloud /\ pc' \in {"busy", "dead"}
  BY WorkMoves DEF IInv
<1>4. Balanced'
  BY <1>3, BalancedStays, CloudStays DEF IInv, cloud, NextNode, Making
<1>5. MeshDone'
  BY <1>3 DEF MeshDone
<1>6. CountersAgree'
  <2>1. attempts \in 0..(MaxRetry - 1) /\ faults \in 0..MaxFaults
    BY DEF IInv, CountersAgree
  <2>2. faults' = faults \/ (faults < MaxFaults /\ faults' = faults + 1)
    BY DEF Work, Execute, Succeeds, Fails
  <2>3. \/ attempts' = 0 \/ attempts' = attempts
        \/ attempts + 1 # MaxRetry /\ attempts' = attempts + 1
    BY DEF Work, Execute, Advance, Stop, AttemptsMade
  <2> QED  BY <2>1, <2>2, <2>3, RetryAssumption DEF CountersAgree
<1> QED  BY <1>1, <1>2, <1>4, <1>5, <1>6 DEF IInv

-----------------------------------------------------------------------------
(***************************************************************************)
(* The operations: what they begin and finish.                             *)
(***************************************************************************)
LEMMA Idle ==
  ASSUME BooksAgree, pc = "idle"
  PROVE  /\ making = Nothing /\ todo = <<>>
         /\ ~Making("vm") /\ ~Making("project") /\ ~Making("network")
         /\ \A p : VmsBegun(p) = Len(projects[p].vms) + 0
<1>1. making = Nothing /\ todo = <<>>
  BY DEF BooksAgree, MakingAgrees
<1>2. ~Making("vm") /\ ~Making("project") /\ ~Making("network")
  BY <1>1 DEF Nothing, Making
<1>3. \A p : VmsBegun(p) = Len(projects[p].vms) + 0
  BY <1>2 DEF VmsBegun
<1> QED  BY <1>1, <1>2, <1>3

LEMMA PlannedGrows ==
  ASSUME Len(used) \in Nat, Len(used') \in Nat, Len(used) <= Len(used'),
         \A p \in DOMAIN projects :
           /\ p \in DOMAIN projects' /\ projects'[p].tag = projects[p].tag
           /\ VmsBegun(p) \in Nat /\ VmsBegun(p)' \in Nat
           /\ VmsBegun(p) <= VmsBegun(p)',
         NEW row, Planned(row)
  PROVE  Planned(row)'
<1>1. VmRow(row) => VmRow(row)'
  <2> SUFFICES ASSUME NEW p \in DOMAIN projects, NEW i \in Nat,
                      i < VmsBegun(p),
                      row = <<"in", Vm(projects[p].tag, i), Switch(p),
                              Ip(p, i + 3)>>
               PROVE  VmRow(row)'
    BY DEF VmRow
  <2>1. /\ p \in DOMAIN projects' /\ projects'[p].tag = projects[p].tag
        /\ i < VmsBegun(p)'
    OBVIOUS
  <2> QED  BY <2>1 DEF VmRow
<1> QED  BY <1>1 DEF Planned

LEMMA RowsStay ==
  ASSUME RowsAgree, UNCHANGED <<db, logged>>,
         \A row : Planned(row) => Planned(row)'
  PROVE  RowsAgree'
<1>1. Rows' = Rows /\ (\A x : Exists(x)' <=> Exists(x))
  BY DEF Rows, Exists
<1>2. ASSUME NEW row \in Rows PROVE Backed(row)'
  <2>1. Backed(row)
    BY DEF RowsAgree
  <2> QED  BY <1>1, <2>1 DEF Backed
<1>3. IsList(db)' /\ \A row \in Rows' \cup logged' : Planned(row)'
  BY <1>1 DEF RowsAgree, IsList
<1> QED  BY <1>1, <1>2, <1>3 DEF RowsAgree

LEMMA EnsuredSame ==
  ASSUME UNCHANGED <<db, logged, measured>>
  PROVE  Rows' = Rows /\ \A c : Ensured(c)' <=> Ensured(c)
BY DEF Ensured, Rows, Exists

LEMMA BeginFacts ==
  ASSUME IInv, NEW s, NEW C, NEW what, Script(s, C), Starts(s, what)
  PROVE  /\ pc = "idle" /\ pc' = "busy" /\ todo' = s /\ making' = what
         /\ UNCHANGED <<db, attempts, logged, measured, faults>>
         /\ UNCHANGED <<hosts, projects, pinged>>
         /\ IsList(todo)' /\ DistinctRows(todo)' /\ Range(todo') = C
BY DEF Starts, Begin, Script, IsList, DistinctRows

(* What is written about a new network was not written before.             *)
LEMMA NetworkIsFresh ==
  ASSUME RowsAgree, NEW c, OfNetwork(c, Len(used))
  PROVE  c.row \notin Rows
BY DEF RowsAgree, Planned, OfNetwork

LEMMA ExternalStep ==
  ASSUME IInv, NewExternalNetwork
  PROVE  IInv'
<1> DEFINE C == NetworkParts(0) \cup ProviderParts(0)
           s == CreateProjectNet(0) \o AddMetadataPort(0) \o AddProviderPort(0)
<1>1. /\ BooksAgree /\ ScriptAgrees /\ RowsAgree /\ OnceOnly /\ NeedsMet
      /\ GatewaysKnown /\ Balanced /\ MeshDone /\ CountersAgree
  BY DEF IInv
<1>2. /\ used = <<>> /\ used' = <<1>> /\ turn' = turn
      /\ Starts(s, [what |-> "network"])
  BY DEF NewExternalNetwork
<1>3. Script(s, C)
  BY ExternalScript
<1>4. \A c \in C : OfNetwork(c, 0)
  BY NetworkOf
<1> HIDE DEF C, s
<1>5. /\ pc = "idle" /\ pc' = "busy" /\ making' = [what |-> "network"]
      /\ UNCHANGED <<db, attempts, logged, measured, faults>>
      /\ UNCHANGED <<hosts, projects, pinged>>
      /\ IsList(todo)' /\ DistinctRows(todo)' /\ Range(todo') = C
  BY <1>2, <1>3, BeginFacts
<1>6. /\ projects = <<>> /\ Len(used) = 0 /\ Len(used') = 1 /\ making = Nothing
      /\ Making("network")' /\ ~Making("project")' /\ ~Making("vm")'
      /\ ~Making("vm") /\ DOMAIN projects = {}
  BY <1>1, <1>2, <1>5, Idle DEF BooksAgree, Making
<1>7. BooksAgree'
  <2>1. MakingAgrees'
    BY <1>5, <1>6 DEF MakingAgrees, Making, Nothing
  <2>2. used' \in Seq(Nat) /\ used'[1] = 1 /\ used' # <<>>
    BY <1>2
  <2>3. /\ hosts' \in HostCounts /\ turn' \in 1..NWorkers
        /\ projects' \in Seq(ProjectTypes) /\ Len(projects') <= NProjects
    BY <1>1, <1>2, <1>5 DEF BooksAgree
  <2>4. making' \in MakingTypes
    BY <1>5 DEF MakingTypes
  <2>5. Len(used') = Len(projects') + 1 /\ DOMAIN projects' = {}
    BY <1>5, <1>6
  <2> QED  BY <1>5, <1>6, <2>1, <2>2, <2>3, <2>4, <2>5 DEF BooksAgree
<1>8. ScriptAgrees'
  <2>1. \A c \in Range(todo') : OfNetwork(c, Len(used') - 1)
    BY <1>4, <1>5, <1>6
  <2> QED  BY <1>5, <1>6, <2>1 DEF ScriptAgrees
<1>9. RowsAgree'
  <2>1. \A row : Planned(row) => Planned(row)'
    BY <1>6, PlannedGrows
  <2> QED  BY <1>1, <1>5, <2>1, RowsStay
<1>10. OnceOnly'
  <2>1. \A c \in Range(todo') : c.row \notin Rows'
    BY <1>1, <1>4, <1>5, <1>6, NetworkIsFresh DEF Rows
  <2> QED  BY <1>1, <1>5, <2>1 DEF OnceOnly, Fresh, IsInjective
<1>11. NeedsMet' /\ GatewaysKnown'
  BY <1>5, <1>6 DEF NeedsMet, GatewaysKnown
<1>12. Balanced'
  BY <1>1, <1>2, <1>5, <1>6, BalancedStays DEF NextNode
<1>13. MeshDone' /\ CountersAgree'
  BY <1>1, <1>5 DEF MeshDone, CountersAgree
<1> QED
  BY <1>7, <1>8, <1>9, <1>10, <1>11, <1>12, <1>13 DEF IInv

LEMMA ProjectStep ==
  ASSUME IInv, NEW tag \in 1..(Len(projects) + 1),
         NEW sample \in GatewayChassis, NewProject(tag, sample)
  PROVE  IInv'
<1>0. PICK p : p = Len(projects) + 1
  OBVIOUS
<1> DEFINE C == ProjectParts(p, sample)
           s == CreateProjectRouter(p) \o ConnectExternalNetwork(p, sample)
                  \o AddInternalNetwork(p, p)
           what == [what |-> "project", tag |-> tag, net |-> p]
<1>1. /\ BooksAgree /\ ScriptAgrees /\ RowsAgree /\ OnceOnly /\ NeedsMet
      /\ GatewaysKnown /\ Balanced /\ MeshDone /\ CountersAgree
  BY DEF IInv
<1>2. pc = "idle" /\ used # <<>> /\ p <= NProjects
  BY <1>0 DEF NewProject, Starts, Begin
<1>3. /\ making = Nothing /\ ~Making("vm") /\ ~Making("project")
      /\ \A q : VmsBegun(q) = Len(projects[q].vms) + 0
  BY <1>1, <1>2, Idle
<1>4. p = Len(used) /\ p \in Nat /\ p # 0 /\ Len(projects) \in Nat
  BY <1>0, <1>1, <1>2, <1>3 DEF BooksAgree
<1>5. used' = Append(used, 2) /\ turn' = turn /\ Starts(s, what)
  BY <1>0, <1>4 DEF NewProject
<1>6. Script(s, C)
  BY <1>4, ProjectScript
<1>7. \A c \in C : OfNetwork(c, p)
  BY <1>4, ProjectOf
<1> HIDE DEF C, s
<1>8. /\ pc' = "busy" /\ making' = what
      /\ UNCHANGED <<db, attempts, logged, measured, faults>>
      /\ UNCHANGED <<hosts, projects, pinged>>
      /\ IsList(todo)' /\ DistinctRows(todo)' /\ Range(todo') = C
  BY <1>5, <1>6, BeginFacts
<1>9. /\ used' \in Seq(Nat) /\ Len(used') = p + 1 /\ used'[p + 1] = 2
      /\ used' # <<>> /\ \A k \in 1..p : used'[k] = used[k]
  BY <1>1, <1>4, <1>5, SMTT(20) DEF BooksAgree
<1>10. /\ Making("project")' /\ ~Making("vm")' /\ ~Making("network")'
       /\ making' # Nothing /\ making'.net = p /\ making'.tag = tag
       /\ \A q : VmsBegun(q)' = VmsBegun(q)
  BY <1>3, <1>8 DEF Making, VmsBegun, Nothing
<1>11. BooksAgree'
  <2>1. MakingAgrees'
    BY <1>0, <1>2, <1>4, <1>8, <1>9, <1>10 DEF MakingAgrees
  <2>2. ASSUME NEW q \in DOMAIN projects PROVE ProjectAgrees(q)'
    <3>1. ProjectAgrees(q) /\ q \in Nat /\ q + 1 \in 1..p
      BY <1>0, <1>1, <1>4, ProjectTyped
    <3>2. used'[q + 1] = used[q + 1] /\ VmsBegun(q)' = VmsBegun(q)
      BY <1>9, <1>10, <3>1
    <3> QED  BY <1>8, <3>1, <3>2 DEF ProjectAgrees
  <2>3. used'[1] = 1
    <3>1. 1 \in 1..p /\ used[1] = 1
      BY <1>1, <1>2, <1>4 DEF BooksAgree
    <3> QED  BY <1>9, <3>1
  <2>4. making' \in MakingTypes
    BY <1>0, <1>4, <1>8 DEF MakingTypes
  <2>5. Len(used') = Len(projects') + 2
    BY <1>0, <1>4, <1>8, <1>9
  <2>6. /\ hosts' \in HostCounts /\ turn' \in 1..NWorkers
        /\ projects' \in Seq(ProjectTypes) /\ Len(projects') <= NProjects
    BY <1>1, <1>5, <1>8 DEF BooksAgree
  <2> QED
    BY <1>8, <1>9, <1>10, <2>1, <2>2, <2>3, <2>4, <2>5, <2>6 DEF BooksAgree
<1>12. ScriptAgrees'
  <2>1. \A c \in Range(todo') : OfNetwork(c, Len(used') - 1)
    BY <1>4, <1>7, <1>8, <1>9
  <2> QED  BY <1>8, <1>10, <2>1 DEF ScriptAgrees
<1>13. RowsAgree'
  <2>1. \A q \in DOMAIN projects : VmsBegun(q) \in Nat
    BY <1>1, <1>3, ProjectTyped
  <2>2. \A row : Planned(row) => Planned(row)'
    BY <1>4, <1>8, <1>9, <1>10, <2>1, PlannedGrows
  <2> QED  BY <1>1, <1>8, <2>2, RowsStay
<1>14. OnceOnly'
  <2>1. \A c \in Range(todo') : c.row \notin Rows'
    BY <1>1, <1>4, <1>7, <1>8, NetworkIsFresh DEF Rows
  <2> QED  BY <1>1, <1>8, <2>1 DEF OnceOnly, Fresh, IsInjective
<1>15. NeedsMet'
  <2>1. Tracked(ProjectNeeds(p))'
    <3>1. ProjectNeeds(p) \subseteq Range(todo')
      BY <1>8, ProjectHasNeeds DEF C
    <3> QED  BY <3>1 DEF Tracked
  <2>2. /\ \A c : Ensured(c)' <=> Ensured(c)
        /\ Rows' = Rows /\ \A q : VmsOf(q)' = VmsOf(q)
    BY <1>8, EnsuredSame DEF VmsOf
  <2>3. Tracked(ProjectNeeds(making.net))'
    BY <1>10, <2>1 DEF Tracked
  <2> QED  BY <1>1, <1>8, <1>10, <2>2, <2>3 DEF NeedsMet
<1>16. GatewaysKnown'
  <2> DEFINE S == Rows \cup logged
             T == {c.row : c \in Range(todo')}
  <2>1. S' = S
    BY <1>8 DEF Rows
  <2>2. \A r \in S : ~(r[1] = "gateway" /\ r[2] = Lrp(p, 0))
    <3>1. \A r \in S : Planned(r)
      BY <1>1 DEF RowsAgree
    <3> QED  BY <1>4, <3>1 DEF Planned, Lrp
  <2>3. GwsIn(S \cup T, p) = GwsIn(T, p)
    <3> HIDE DEF S, T
    <3> QED  BY <2>2 DEF GwsIn
  <2>4. GwsIn(T, p) = {Gw(sample[k], k) : k \in DOMAIN sample}
    BY <1>4, <1>8, ProjectGateways DEF C
  <2>5. Sampled(GwsIn(S' \cup T, p))
    BY <2>1, <2>3, <2>4 DEF Sampled
  <2>6. \A q \in DOMAIN projects : Sampled(GwsIn(S', q))
    BY <1>1, <2>1 DEF GatewaysKnown
  <2> HIDE DEF S
  <2> QED  BY <1>8, <1>10, <2>5, <2>6 DEF GatewaysKnown, S
<1>17. Balanced'
  BY <1>1, <1>3, <1>5, <1>8, <1>10, BalancedStays DEF NextNode
<1>18. MeshDone' /\ CountersAgree'
  BY <1>1, <1>8 DEF MeshDone, CountersAgree
<1> QED
  BY <1>11, <1>12, <1>13, <1>14, <1>15, <1>16, <1>17, <1>18 DEF IInv

(* The next name in a project is new there; if another project has given   *)
(* it to one of its VMs, the port is refused whenever it is tried.         *)
LEMMA NamesInUse ==
  ASSUME IInv, pc = "idle", NEW p \in DOMAIN projects, NEW r \in Rows,
         r[1] = "in", r[2] = Vm(projects[p].tag, Len(projects[p].vms))
  PROVE  r[3] # Switch(p)
<1>1. Planned(r)
  BY DEF IInv, RowsAgree
<1>2. VmRow(r)
  BY <1>1 DEF Planned, Vm
<1>3. PICK q \in DOMAIN projects, i \in Nat :
         /\ i < VmsBegun(q)
         /\ r = <<"in", Vm(projects[q].tag, i), Switch(q), Ip(q, i + 3)>>
  BY <1>2 DEF VmRow
<1>4. /\ BooksAgree
      /\ VmsBegun(p) = Len(projects[p].vms) + 0 /\ Len(projects[p].vms) \in Nat
  BY Idle, ProjectTyped DEF IInv
<1>5. i = Len(projects[p].vms)
  BY <1>3 DEF Vm
<1>6. q # p
  BY <1>3, <1>4, <1>5
<1> QED  BY <1>3, <1>6 DEF Switch

LEMMA VmOf ==
  ASSUME Making("vm")', NEW p, NEW vm, NEW host, NEW w,
         p = making'.of, vm = making'.port, host = making'.host,
         NEW c \in VmParts(p, vm, host, w)
  PROVE  OfVm(c)'
<1> USE DEF LsPortAdd, LsPortSetOptions, LsPortEnable, PortGroupAddPorts,
            AddPort, BindVmPort, Insert, Set, Change, Command
<1>1. Handled(c)
  BY DEF VmParts, Handled
<1>2. MakePort' = LsPortAdd(vm, Switch(p), Ip(p, host))
  BY DEF MakePort
<1>3. \/ c = MakePort'
      \/ c.row[1] \in {"options", "enabled", "iface"} /\ c.row[2] = vm
      \/ c.row[1] = "in" /\ c.row[2] = Netns(vm)
      \/ c.row = <<"ports", Group(p), None, vm>>
  BY <1>2 DEF VmParts
<1> QED  BY <1>1, <1>3 DEF OfVm

LEMMA VmStep ==
  ASSUME IInv, NEW p \in DOMAIN projects, AddVm(p)
  PROVE  IInv'
<1>0. /\ BooksAgree /\ ScriptAgrees /\ RowsAgree /\ OnceOnly /\ NeedsMet
      /\ GatewaysKnown /\ Balanced /\ MeshDone /\ CountersAgree
  BY DEF IInv
<1>1. PICK tag, i, host, w : /\ tag = projects[p].tag /\ w = turn
                             /\ i = Len(projects[p].vms)
                             /\ host = used[p + 1] + 1
  OBVIOUS
<1> DEFINE vm == Vm(tag, i)
           C == VmParts(p, vm, host, w)
           s == AddVmPort(p, vm, host, w)
                  \o BindPort(vm, Chassis(w), Ip(p, Gateway))
           what == [what |-> "vm", of |-> p, port |-> vm, host |-> host,
                    on |-> w]
<1>2. /\ p \in Nat /\ p # 0 /\ p <= Len(projects) /\ Len(projects) \in Nat
      /\ projects[p].vms \in Seq(VmTypes) /\ projects[p] \in ProjectTypes
      /\ i \in Nat /\ ProjectAgrees(p)
  BY <1>0, <1>1, ProjectTyped
<1>3. /\ projects[p].net = p /\ pc = "idle" /\ Len(projects) = NProjects
      /\ i < NVms /\ host <= hosts /\ turn' = (turn % NWorkers) + 1
      /\ used' = [used EXCEPT ![p + 1] = host]
      /\ Starts(s, what)
  BY <1>1, <1>2 DEF AddVm, Filling, NextHostIp, NextTurn, ProjectAgrees
<1>4. /\ making = Nothing /\ ~Making("vm") /\ ~Making("project")
      /\ \A q : VmsBegun(q) = Len(projects[q].vms) + 0
  BY <1>0, <1>3, Idle
<1>5. host = i + 3 /\ tag \in Nat /\ w \in 1..NWorkers
  <2>1. used[p + 1] = 2 + VmsBegun(p) /\ tag \in 1..p
    BY <1>1, <1>2 DEF ProjectAgrees
  <2>2. VmsBegun(p) = i
    BY <1>1, <1>2, <1>4
  <2>3. w \in 1..NWorkers
    BY <1>0, <1>1 DEF BooksAgree
  <2> QED  BY <1>1, <1>2, <2>1, <2>2, <2>3
<1>6. /\ Script(s, C) /\ Head(s) = LsPortAdd(vm, Switch(p), Ip(p, host))
      /\ LsPortAdd(vm, Switch(p), Ip(p, host)) \in C
  BY VmScript DEF VmParts
<1> HIDE DEF C, s
<1>7. /\ pc' = "busy" /\ making' = what
      /\ UNCHANGED <<db, attempts, logged, measured, faults>>
      /\ UNCHANGED <<hosts, projects, pinged>>
      /\ IsList(todo)' /\ DistinctRows(todo)' /\ Range(todo') = C
      /\ todo' = s
  BY <1>3, <1>6, BeginFacts
<1>8. /\ Making("vm")' /\ ~Making("project")' /\ ~Making("network")'
      /\ making' # Nothing /\ making'.of = p /\ making'.port = vm
      /\ making'.host = host /\ making'.on = w
      /\ VmsBegun(p)' = i + 1
      /\ \A q : q # p => VmsBegun(q)' = VmsBegun(q)
  BY <1>1, <1>4, <1>7 DEF Making, VmsBegun, Nothing
<1>9. /\ used' \in Seq(Nat) /\ Len(used') = Len(used) /\ used'[p + 1] = host
      /\ Len(used) = Len(projects) + 1 /\ used # <<>> /\ used' # <<>>
      /\ used'[1] = 1
      /\ \A q \in Nat : q # p /\ q <= Len(projects) =>
           used'[q + 1] = used[q + 1]
  <2>1. used # <<>> /\ used[1] = 1 /\ Len(used) = Len(projects) + 1
        /\ used \in Seq(Nat)
    BY <1>0, <1>2, <1>4 DEF BooksAgree
  <2>2. DOMAIN used = 1..Len(used) /\ p + 1 \in DOMAIN used
    BY <1>2, <2>1
  <2>3. used' \in Seq(Nat) /\ Len(used') = Len(used)
    BY <1>2, <1>3, <1>5, <2>1, <2>2
  <2>4. \A k \in DOMAIN used : used'[k] = IF k = p + 1 THEN host ELSE used[k]
    BY <1>3, <2>2
  <2>5. used'[p + 1] = host /\ used'[1] = 1
    BY <1>2, <2>1, <2>2, <2>4, SMTT(20)
  <2>6. ASSUME NEW q \in Nat, q # p, q <= Len(projects)
        PROVE  used'[q + 1] = used[q + 1]
    BY <1>2, <2>1, <2>2, <2>4, <2>6, SMTT(20)
  <2>7. used' # <<>>
    BY <1>2, <2>1, <2>3
  <2> QED  BY <2>1, <2>3, <2>5, <2>6, <2>7
<1>10. BooksAgree'
  <2>1. MakingAgrees'
    BY <1>1, <1>2, <1>3, <1>5, <1>7, <1>8 DEF MakingAgrees
  <2>2. ASSUME NEW q \in DOMAIN projects PROVE ProjectAgrees(q)'
    <3>1. ProjectAgrees(q) /\ q \in Nat /\ q <= Len(projects)
      BY <1>0, ProjectTyped
    <3>2. CASE q = p
      <4>1. /\ projects' = projects /\ hosts' = hosts
            /\ used'[p + 1] = 2 + VmsBegun(p)' /\ used'[p + 1] <= hosts
        BY <1>2, <1>3, <1>5, <1>7, <1>8, <1>9, SMTT(20)
      <4> QED  BY <3>1, <3>2, <4>1 DEF ProjectAgrees
    <3>3. CASE q # p
      <4>1. /\ projects' = projects /\ hosts' = hosts
            /\ used'[q + 1] = used[q + 1] /\ VmsBegun(q)' = VmsBegun(q)
        BY <1>7, <1>8, <1>9, <3>1, <3>3
      <4> QED  BY <3>1, <3>3, <4>1 DEF ProjectAgrees
    <3> QED  BY <3>2, <3>3
  <2>3. making' \in MakingTypes
    BY <1>2, <1>5, <1>7 DEF MakingTypes, VmPorts
  <2>4. turn' \in 1..NWorkers
    BY <1>1, <1>3, <1>5, WorkersAssumption
  <2>5. /\ hosts' \in HostCounts /\ projects' \in Seq(ProjectTypes)
        /\ Len(projects') <= NProjects
    BY <1>0, <1>7 DEF BooksAgree
  <2> QED  BY <1>7, <1>8, <1>9, <2>1, <2>2, <2>3, <2>4, <2>5 DEF BooksAgree
<1>11. ScriptAgrees'
  <2>1. \A c \in Range(todo') : OfVm(c)'
    BY <1>7, <1>8, VmOf DEF C
  <2>2. MakePort' = LsPortAdd(vm, Switch(p), Ip(p, host))
    BY <1>8 DEF MakePort
  <2>3. MakePort' \in Range(todo') /\ Head(todo') = MakePort'
    BY <1>6, <1>7, <2>2
  <2> QED  BY <1>7, <1>8, <2>1, <2>3 DEF ScriptAgrees
<1>12. RowsAgree'
  <2>1. ASSUME NEW q \in DOMAIN projects
        PROVE  /\ VmsBegun(q) \in Nat /\ VmsBegun(q)' \in Nat
               /\ VmsBegun(q) <= VmsBegun(q)'
    <3>1. Len(projects[q].vms) \in Nat /\ VmsBegun(q) = Len(projects[q].vms) + 0
      BY <1>0, <1>4, ProjectTyped
    <3> QED  BY <1>1, <1>2, <1>8, <3>1
  <2>2. Len(used) \in Nat
    BY <1>2, <1>9
  <2>3. \A row : Planned(row) => Planned(row)'
    BY <1>7, <1>9, <2>1, <2>2, PlannedGrows
  <2> QED  BY <1>0, <1>7, <2>3, RowsStay
<1>13. OnceOnly'
  <2>1. Rows' = Rows
    BY <1>7 DEF Rows
  <2>2. CASE \E r \in Rows : r[1] = "in" /\ r[2] = vm
    <3>1. PICK r \in Rows : r[1] = "in" /\ r[2] = vm
      BY <2>2
    <3>2. r[3] # Switch(p)
      BY <1>1, <1>3, <3>1, NamesInUse
    <3>3. MakePort' \in Range(todo')
      BY <1>6, <1>7, <1>8 DEF MakePort
    <3>4. Doomed'
      BY <1>8, <2>1, <3>1, <3>2, <3>3 DEF Doomed
    <3> QED  BY <1>0, <1>7, <3>4 DEF OnceOnly, IsInjective
  <2>3. CASE ~\E r \in Rows : r[1] = "in" /\ r[2] = vm
    <3>1. ASSUME NEW r \in Rows
          PROVE  r[2] # vm /\ r[2] # Netns(vm) /\ ~(r[1] = "ports" /\ r[4] = vm)
      <4>1. Backed(r)
        BY <1>0 DEF RowsAgree
      <4> QED  BY <2>3, <4>1 DEF Backed, Exists, Vm, Netns
    <3>2. ASSUME NEW c \in C
          PROVE  \/ c.row[2] = vm \/ c.row[2] = Netns(vm)
                 \/ c.row[1] = "ports" /\ c.row[4] = vm
      BY DEF C, VmParts, LsPortAdd, LsPortSetOptions, LsPortEnable,
             PortGroupAddPorts, AddPort, BindVmPort, Insert, Set, Change,
             Command
    <3>3. Fresh'
      BY <1>7, <2>1, <3>1, <3>2 DEF Fresh
    <3> QED  BY <1>0, <1>7, <3>3 DEF OnceOnly, IsInjective
  <2> QED  BY <2>2, <2>3
<1>14. NeedsMet'
  <2>1. VmNeeds(making.of, making)' \subseteq Range(todo')
    <3>1. making'.of = p /\ making'.port = vm /\ making'.on = w
      BY <1>8
    <3>2. VmNeeds(making.of, making)' \subseteq C
      BY <3>1 DEF VmNeeds, C, VmParts
    <3> QED  BY <1>7, <3>2
  <2>2. Tracked(VmNeeds(making.of, making))'
    BY <2>1 DEF Tracked
  <2>3. /\ \A c : Ensured(c)' <=> Ensured(c)
        /\ Rows' = Rows /\ \A q : VmsOf(q)' = VmsOf(q)
    BY <1>7, EnsuredSame DEF VmsOf
  <2> QED  BY <1>0, <1>7, <1>8, <2>2, <2>3 DEF NeedsMet
<1>15. GatewaysKnown'
  BY <1>0, <1>7, <1>8 DEF GatewaysKnown, Rows
<1>16. Balanced'
  BY <1>0, <1>1, <1>4, <1>7, <1>8, BalancedStays DEF NextNode
<1>17. MeshDone' /\ CountersAgree'
  BY <1>0, <1>7 DEF MeshDone, CountersAgree
<1> QED
  BY <1>10, <1>11, <1>12, <1>13, <1>14, <1>15, <1>16, <1>17 DEF IInv

(* Nothing changes but that the run is over.                               *)
LEMMA RestStep ==
  ASSUME IInv, pc = "idle", pc' \in {"idle", "refused", "done"},
         UNCHANGED <<db, todo, attempts, logged, measured, faults>>,
         UNCHANGED <<hosts, making, projects, used, turn>>, MeshDone'
  PROVE  IInv'
<1>1. /\ BooksAgree /\ ScriptAgrees /\ RowsAgree /\ OnceOnly /\ NeedsMet
      /\ GatewaysKnown /\ Balanced /\ CountersAgree
  BY DEF IInv
<1>2. making = Nothing /\ todo = <<>>
      /\ ~Making("vm") /\ ~Making("project") /\ ~Making("network")
  BY <1>1, Idle
<1>3. /\ \A p : ProjectAgrees(p)' <=> ProjectAgrees(p)
      /\ \A row : Planned(row)' <=> Planned(row)
      /\ \A what : Making(what)' <=> Making(what)
  BY BooksStay
<1>4. BooksAgree'
  <2>1. MakingAgrees'
    BY <1>2, <1>3 DEF MakingAgrees
  <2> QED  BY <1>1, <1>3, <2>1 DEF BooksAgree
<1>5. ScriptAgrees'
  BY <1>1, <1>2, <1>3 DEF ScriptAgrees, IsList, DistinctRows
<1>6. RowsAgree'
  BY <1>1, <1>3, RowsStay
<1>7. OnceOnly'
  BY <1>1 DEF OnceOnly, IsInjective
<1>8. NeedsMet'
  <2>1. /\ \A c : Ensured(c)' <=> Ensured(c)
        /\ Rows' = Rows /\ \A q : VmsOf(q)' = VmsOf(q)
    BY EnsuredSame DEF VmsOf
  <2> QED  BY <1>1, <1>2, <1>3, <2>1 DEF NeedsMet
<1>9. GatewaysKnown'
  BY <1>1, <1>2, <1>3 DEF GatewaysKnown, Rows
<1>10. Balanced'
  BY <1>1, <1>3, BalancedStays DEF NextNode
<1>11. CountersAgree'
  BY <1>1 DEF CountersAgree
<1> QED
  BY <1>4, <1>5, <1>6, <1>7, <1>8, <1>9, <1>10, <1>11 DEF IInv

LEMMA RefuseStep ==
  ASSUME IInv, NEW p \in DOMAIN projects, RefuseVm(p)
  PROVE  IInv'
BY RestStep DEF RefuseVm, Filling, cloud, MeshDone

LEMMA MeshStep ==
  ASSUME IInv, MeshPing
  PROVE  IInv'
<1>1. /\ BooksAgree /\ Len(projects) = NProjects
      /\ \A p \in 1..NProjects : Len(projects[p].vms) = NVms
  BY DEF IInv, MeshPing
<1>2. ASSUME NEW p \in 1..NProjects, NEW a \in 1..NVms, NEW b \in 1..NVms,
             a # b
      PROVE  <<p, a, b>> \in pinged'
  <2>1. p \in DOMAIN projects
    <3>1. projects \in Seq(ProjectTypes)
      BY <1>1 DEF BooksAgree
    <3> QED  BY <1>1, <3>1
  <2>2. ProjectAgrees(p) /\ DOMAIN projects[p].vms = 1..NVms
    BY <1>1, <2>1, ProjectTyped
  <2>3. projects[p].vms[a].host = a + 2 /\ projects[p].vms[b].host = b + 2
    BY <2>2 DEF ProjectAgrees
  <2>4. projects[p].vms[a].host # projects[p].vms[b].host
    BY <1>2, <2>3, NumbersAssumption
  <2> QED  BY <2>4 DEF MeshPing
<1>3. MeshDone'
  BY <1>1, <1>2 DEF MeshPing, MeshDone
<1> QED  BY <1>3, RestStep DEF MeshPing

LEMMA InitHolds == Init => IInv
<1> SUFFICES ASSUME Init PROVE IInv
  OBVIOUS
<1> USE DEF Init, ScriptInit
<1>1. /\ \A what : Making(what) <=> what = "nothing"
      /\ DOMAIN projects = {} /\ Rows = {}
  <2>1. DOMAIN <<>> = {}
    OBVIOUS
  <2> QED  BY <2>1 DEF Making, Nothing, Rows, Range
<1>2. BooksAgree
  <2>1. projects \in Seq(ProjectTypes) /\ used \in Seq(Nat)
        /\ Len(projects) <= NProjects /\ turn \in 1..NWorkers
    BY NumbersAssumption, WorkersAssumption
  <2>2. MakingAgrees /\ making \in MakingTypes
    BY <1>1 DEF MakingAgrees, MakingTypes
  <2> QED  BY <1>1, <2>1, <2>2 DEF BooksAgree
<1>3. ScriptAgrees
  BY <1>1, ListFew, DistinctFew DEF ScriptAgrees
<1>4. RowsAgree /\ OnceOnly
  <2>1. DOMAIN <<>> = {}
    OBVIOUS
  <2> QED  BY <1>1, <2>1, ListFew DEF RowsAgree, OnceOnly, IsInjective
<1>5. NeedsMet /\ GatewaysKnown
  BY <1>1 DEF NeedsMet, GatewaysKnown
<1>6. Balanced
  <2>1. Listed = {}
    BY <1>1 DEF Listed
  <2>2. \A w : OnNode(w) = {}
    BY <2>1 DEF OnNode
  <2>3. NextNode = 1
    BY <1>1 DEF NextNode
  <2>4. ASSUME NEW w \in 1..NWorkers
        PROVE  Cardinality(OnNode(w)) = IF w < NextNode THEN 0 + 1 ELSE 0
    BY <2>2, <2>3, FS_EmptySet
  <2> QED  BY <2>1, <2>4, FS_EmptySet DEF Balanced
<1>7. MeshDone /\ CountersAgree
  BY RetryAssumption DEF MeshDone, CountersAgree
<1> QED  BY <1>2, <1>3, <1>4, <1>5, <1>6, <1>7 DEF IInv

(* What is listed when a script is done.                                   *)
LEMMA FinishNetwork ==
  ASSUME IInv, Finish, Making("network")
  PROVE  IInv'
<1>1. /\ BooksAgree /\ ScriptAgrees /\ RowsAgree /\ OnceOnly /\ NeedsMet
      /\ GatewaysKnown /\ Balanced /\ CountersAgree
  BY DEF IInv
<1>2. /\ pc = "busy" /\ todo = <<>> /\ pc' = "idle" /\ making' = Nothing
      /\ UNCHANGED <<db, todo, attempts, logged, measured, faults>>
      /\ UNCHANGED <<hosts, used, turn, pinged>>
      /\ projects' = projects
  BY DEF Finish, End, Making
<1>3. /\ projects = <<>> /\ DOMAIN projects = {} /\ DOMAIN projects' = {}
      /\ \A what : Making(what)' <=> what = "nothing"
      /\ ~Making("vm") /\ ~Making("project") /\ making # Nothing
  BY <1>1, <1>2 DEF BooksAgree, MakingAgrees, Making, Nothing
<1>4. BooksAgree'
  <2>1. MakingAgrees'
    BY <1>2, <1>3 DEF MakingAgrees
  <2> QED  BY <1>1, <1>2, <1>3, <2>1 DEF BooksAgree, MakingTypes
<1>5. ScriptAgrees'
  BY <1>1, <1>2, <1>3 DEF ScriptAgrees, IsList, DistinctRows
<1>6. RowsAgree'
  <2>1. \A row : Planned(row) => Planned(row)'
    BY <1>1, <1>2, <1>3, PlannedGrows DEF BooksAgree
  <2> QED  BY <1>1, <1>2, <2>1, RowsStay
<1>7. OnceOnly'
  BY <1>1, <1>2 DEF OnceOnly, IsInjective
<1>8. NeedsMet' /\ GatewaysKnown'
  BY <1>3 DEF NeedsMet, GatewaysKnown
<1>9. Balanced'
  BY <1>1, <1>2, <1>3, BalancedStays DEF NextNode
<1>10. MeshDone' /\ CountersAgree'
  BY <1>1, <1>2 DEF MeshDone, CountersAgree
<1> QED
  BY <1>4, <1>5, <1>6, <1>7, <1>8, <1>9, <1>10 DEF IInv

LEMMA FinishProject ==
  ASSUME IInv, Finish, Making("project")
  PROVE  IInv'
<1>1. /\ BooksAgree /\ ScriptAgrees /\ RowsAgree /\ OnceOnly /\ NeedsMet
      /\ GatewaysKnown /\ Balanced /\ CountersAgree
  BY DEF IInv
<1>0. PICK p, tag : p = making.net /\ tag = making.tag
  OBVIOUS
<1> DEFINE new == [tag |-> tag, net |-> p, vms |-> <<>>]
<1>2. /\ pc = "busy" /\ todo = <<>> /\ pc' = "idle" /\ making' = Nothing
      /\ UNCHANGED <<db, todo, attempts, logged, measured, faults>>
      /\ UNCHANGED <<hosts, used, turn, pinged>>
      /\ projects' = Append(projects, new)
  BY <1>0 DEF Finish, End, Making
<1>3. /\ \A what : Making(what)' <=> what = "nothing"
      /\ ~Making("vm") /\ ~Making("network") /\ making # Nothing
  BY <1>2 DEF Making, Nothing
<1>4. /\ p = Len(projects) + 1 /\ p <= NProjects /\ tag \in 1..p
      /\ used[p + 1] = 2 /\ projects \in Seq(ProjectTypes)
      /\ Len(projects) \in Nat /\ p \in Nat /\ p # 0 /\ used \in Seq(Nat)
      /\ used # <<>> /\ Len(used) = Len(projects) + 2 /\ used[1] = 1
  <2>1. used # <<>>
    BY <1>1, <1>3 DEF BooksAgree
  <2> QED  BY <1>0, <1>1, <1>3, <2>1 DEF BooksAgree, MakingAgrees
<1>5. new \in ProjectTypes
  BY <1>4 DEF ProjectTypes
<1>6. /\ projects' \in Seq(ProjectTypes) /\ Len(projects') = p
      /\ DOMAIN projects = 1..Len(projects) /\ DOMAIN projects' = 1..p
      /\ projects'[p] = new
      /\ \A q \in DOMAIN projects : q \in DOMAIN projects' /\ q # p
                                     /\ projects'[q] = projects[q]
      /\ DOMAIN projects' = DOMAIN projects \cup {p}
  <2> HIDE DEF new
  <2> QED  BY <1>2, <1>4, <1>5
<1>7. /\ \A q : VmsBegun(q) = Len(projects[q].vms) + 0
      /\ \A q : VmsBegun(q)' = Len(projects'[q].vms) + 0
      /\ Len(projects'[p].vms) = 0
  <2>1. ~Making("vm")'
    BY <1>3
  <2>2. \A q : VmsBegun(q) = Len(projects[q].vms) + 0
    BY <1>3 DEF VmsBegun
  <2>3. \A q : VmsBegun(q)' = Len(projects'[q].vms) + 0
    BY <2>1 DEF VmsBegun
  <2>4. Len(projects'[p].vms) = 0
    BY <1>6
  <2> QED  BY <2>2, <2>3, <2>4
<1>8. \A q \in DOMAIN projects : VmsBegun(q)' = VmsBegun(q)
  BY <1>6, <1>7
<1>9. BooksAgree'
  <2>1. MakingAgrees'
    BY <1>2, <1>3 DEF MakingAgrees
  <2>2. ASSUME NEW q \in DOMAIN projects PROVE ProjectAgrees(q)'
    <3>1. ProjectAgrees(q) /\ projects'[q] = projects[q]
      BY <1>1, <1>6, <2>2, ProjectTyped
    <3> QED  BY <1>2, <1>8, <3>1 DEF ProjectAgrees
  <2>3. ProjectAgrees(p)'
    <3>1. 2 <= hosts
      BY <1>1, HostsAssumption DEF BooksAgree
    <3>2. DOMAIN <<>> = {}
      OBVIOUS
    <3>3. projects'[p].tag = tag /\ projects'[p].net = p
          /\ projects'[p].vms = <<>>
      BY <1>6
    <3>4. used'[p + 1] = 2 + VmsBegun(p)' /\ used'[p + 1] <= hosts'
      BY <1>2, <1>4, <1>7, <3>1
    <3>5. Len(projects'[p].vms) <= NVms
      BY <1>7, NumbersAssumption
    <3> HIDE DEF new
    <3> QED  BY <1>4, <3>2, <3>3, <3>4, <3>5 DEF ProjectAgrees
  <2>4. \A q \in DOMAIN projects' : ProjectAgrees(q)'
    BY <1>6, <2>2, <2>3
  <2>5. used' \in Seq(Nat) /\ used' # <<>> /\ used'[1] = 1
        /\ Len(used') = Len(projects') + 1
    BY <1>2, <1>4, <1>6
  <2>6. making' \in MakingTypes
    BY <1>2 DEF MakingTypes
  <2>7. hosts' \in HostCounts /\ turn' \in 1..NWorkers
    BY <1>1, <1>2 DEF BooksAgree
  <2> HIDE DEF new
  <2> QED
    BY <1>2, <1>3, <1>4, <1>6, <2>1, <2>4, <2>5, <2>6, <2>7 DEF BooksAgree
<1>10. ScriptAgrees'
  BY <1>1, <1>2, <1>3 DEF ScriptAgrees, IsList, DistinctRows
<1>11. RowsAgree'
  <2>1. \A q \in DOMAIN projects : VmsBegun(q) \in Nat
    BY <1>1, <1>7, ProjectTyped
  <2>2. Len(used) \in Nat /\ used' = used
    BY <1>2, <1>4
  <2>3. \A row : Planned(row) => Planned(row)'
    <3> HIDE DEF new
    <3> QED  BY <1>6, <1>8, <2>1, <2>2, PlannedGrows
  <2> QED  BY <1>1, <1>2, <2>3, RowsStay
<1>12. OnceOnly'
  BY <1>1, <1>2 DEF OnceOnly, IsInjective
<1>13. NeedsMet'
  <2>1. Rows' = Rows /\ \A c : Ensured(c)' <=> Ensured(c)
    BY <1>2, EnsuredSame
  <2>2. \A q \in DOMAIN projects : VmsOf(q)' = VmsOf(q)
    BY <1>6 DEF VmsOf
  <2>3. VmsOf(p)' = {}
    <3>1. DOMAIN <<>> = {}
      OBVIOUS
    <3> QED  BY <1>6, <3>1 DEF VmsOf, Range
  <2>4. \A c \in ProjectNeeds(p) : Ensured(c)
    <3>1. Range(todo) = {}
      BY <1>2, ListFew
    <3> QED  BY <1>0, <1>1, <3>1 DEF NeedsMet, Tracked
  <2>5. ASSUME NEW q \in DOMAIN projects'
        PROVE  /\ \A c \in ProjectNeeds(q) : Ensured(c)'
               /\ \A vm \in VmsOf(q)' :
                    /\ <<"in", vm.port, Switch(q), Ip(q, vm.host)>> \in Rows'
                    /\ \A c \in VmNeeds(q, vm) : Ensured(c)'
    <3>1. CASE q = p
      BY <2>1, <2>3, <2>4, <3>1
    <3>2. CASE q \in DOMAIN projects
      BY <1>1, <2>1, <2>2, <3>2 DEF NeedsMet
    <3> QED  BY <1>6, <3>1, <3>2
  <2> QED  BY <1>3, <2>5 DEF NeedsMet
<1>14. GatewaysKnown'
  <2> DEFINE S == Rows \cup logged
             T == {c.row : c \in Range(todo)}
  <2>1. S' = S
    BY <1>2 DEF Rows
  <2>2. T = {}
    BY <1>2, ListFew
  <2>3. S \cup T = S
    BY <2>2
  <2>4. Sampled(GwsIn(S, p))
    BY <1>0, <1>1, <2>3 DEF GatewaysKnown
  <2>5. \A q \in DOMAIN projects' : Sampled(GwsIn(S', q))
    BY <1>1, <1>6, <2>1, <2>4 DEF GatewaysKnown
  <2> QED  BY <1>3, <2>5 DEF GatewaysKnown
<1>15. Balanced'
  <2>1. Listed' = Listed
    <3>1. \A q \in DOMAIN projects : VmsOf(q)' = VmsOf(q)
      BY <1>6 DEF VmsOf
    <3>2. VmsOf(p)' = {}
      <4>1. DOMAIN <<>> = {}
        OBVIOUS
      <4> QED  BY <1>6, <4>1 DEF VmsOf, Range
    <3>3. UNION {VmsOf(q)' : q \in DOMAIN projects'}
            = UNION {VmsOf(q) : q \in DOMAIN projects}
      <4>1. DOMAIN projects' = DOMAIN projects \cup {p}
        BY <1>6
      <4>2. ASSUME NEW vm
            PROVE  (\E q \in DOMAIN projects' : vm \in VmsOf(q)')
                     <=> (\E q \in DOMAIN projects : vm \in VmsOf(q))
        BY ONLY <3>1, <3>2, <4>1
      <4> QED  BY ONLY <4>2
    <3> QED  BY <3>3 DEF Listed
  <2>2. \A w : OnNode(w)' = OnNode(w)
    BY <2>1 DEF OnNode
  <2>3. NextNode' = NextNode
    BY <1>2, <1>3 DEF NextNode
  <2> QED  BY <1>1, <2>1, <2>2, <2>3 DEF Balanced
<1>16. MeshDone' /\ CountersAgree'
  BY <1>1, <1>2 DEF MeshDone, CountersAgree
<1> QED
  BY <1>9, <1>10, <1>11, <1>12, <1>13, <1>14, <1>15, <1>16 DEF IInv

LEMMA FinishVm ==
  ASSUME IInv, Finish, Making("vm")
  PROVE  IInv'
<1>1. /\ BooksAgree /\ ScriptAgrees /\ RowsAgree /\ OnceOnly /\ NeedsMet
      /\ GatewaysKnown /\ Balanced /\ CountersAgree
  BY DEF IInv
<1>0. PICK p, port, host, w : /\ p = making.of /\ port = making.port
                              /\ host = making.host /\ w = making.on
  OBVIOUS
<1> DEFINE new == [port |-> port, host |-> host, on |-> w]
           i == Len(projects[p].vms)
<1>2. /\ pc = "busy" /\ todo = <<>> /\ pc' = "idle" /\ making' = Nothing
      /\ UNCHANGED <<db, todo, attempts, logged, measured, faults>>
      /\ UNCHANGED <<hosts, used, turn, pinged>>
      /\ projects' = [projects EXCEPT ![p].vms = Append(@, new)]
  BY <1>0 DEF Finish, End, Making
<1>3. /\ \A what : Making(what)' <=> what = "nothing"
      /\ ~Making("project") /\ ~Making("network") /\ making # Nothing
  BY <1>2 DEF Making, Nothing
<1>4. /\ Len(projects) = NProjects /\ p \in DOMAIN projects
      /\ port = Vm(projects[p].tag, i) /\ host = i + 3 /\ i < NVms
      /\ turn = (w % NWorkers) + 1 /\ w \in 1..NWorkers
  BY <1>0, <1>1, MakingKinds DEF BooksAgree, MakingAgrees
<1>5. /\ p \in Nat /\ projects[p] \in ProjectTypes
      /\ projects[p].vms \in Seq(VmTypes) /\ i \in Nat /\ ProjectAgrees(p)
      /\ DOMAIN projects[p].vms = 1..i
  BY <1>1, <1>4, ProjectTyped
<1>6. new \in VmTypes
  <2>1. projects[p].tag \in Nat
    BY <1>5 DEF ProjectTypes
  <2>2. port \in VmPorts
    BY <1>4, <1>5, <2>1 DEF VmPorts
  <2> QED  BY <1>4, <1>5, <2>2 DEF VmTypes
<1>7. new.port = port /\ new.host = host /\ new.on = w
  OBVIOUS
<1> HIDE DEF new
<1>8. /\ DOMAIN projects' = DOMAIN projects
      /\ \A q \in DOMAIN projects : q # p => projects'[q] = projects[q]
      /\ projects'[p].tag = projects[p].tag
      /\ projects'[p].net = projects[p].net
      /\ projects'[p].vms = Append(projects[p].vms, new)
      /\ projects'[p] = [projects[p] EXCEPT !.vms = Append(@, new)]
  <2>1. projects[p] = [tag |-> projects[p].tag, net |-> projects[p].net,
                       vms |-> projects[p].vms]
    BY <1>5 DEF ProjectTypes
  <2>2. projects \in [1..Len(projects) -> ProjectTypes]
    BY <1>1 DEF BooksAgree
  <2> QED  BY <1>2, <1>4, <2>1, <2>2
<1>9. /\ Len(projects'[p].vms) = i + 1 /\ projects'[p].vms \in Seq(VmTypes)
      /\ DOMAIN projects'[p].vms = 1..(i + 1)
      /\ projects'[p].vms[i + 1] = new
      /\ \A k \in 1..i : projects'[p].vms[k] = projects[p].vms[k]
  BY <1>5, <1>6, <1>8, AppendProperties
<1>10. projects' \in Seq(ProjectTypes) /\ Len(projects') = Len(projects)
  <2>1. projects \in Seq(ProjectTypes)
    BY <1>1 DEF BooksAgree
  <2>2. projects'[p] \in ProjectTypes
    BY <1>5, <1>8, <1>9 DEF ProjectTypes
  <2> QED  BY <1>2, <1>4, <1>8, <2>1, <2>2
<1>11. \A q \in DOMAIN projects : /\ VmsBegun(q) \in Nat
                                  /\ VmsBegun(q)' = VmsBegun(q)
  <2> SUFFICES ASSUME NEW q \in DOMAIN projects
               PROVE  VmsBegun(q) \in Nat /\ VmsBegun(q)' = VmsBegun(q)
    OBVIOUS
  <2>1. ~Making("vm")' /\ Len(projects[q].vms) \in Nat
    BY <1>1, <1>3, ProjectTyped
  <2>2. VmsBegun(q)' = Len(projects'[q].vms) + 0
    BY <2>1 DEF VmsBegun
  <2>3. CASE q = p
    <3>1. VmsBegun(p) = i + 1
      BY <1>0 DEF VmsBegun
    <3> QED  BY <1>5, <1>9, <2>2, <2>3, <3>1
  <2>4. CASE q # p
    <3>1. VmsBegun(q) = Len(projects[q].vms) + 0
      BY <1>0, <2>4 DEF VmsBegun
    <3> QED  BY <1>8, <2>1, <2>2, <2>4, <3>1
  <2> QED  BY <2>3, <2>4
<1>12. BooksAgree'
  <2>1. MakingAgrees'
    BY <1>2, <1>3 DEF MakingAgrees
  <2>2. ASSUME NEW q \in DOMAIN projects PROVE ProjectAgrees(q)'
    <3>1. ProjectAgrees(q) /\ VmsBegun(q)' = VmsBegun(q)
      BY <1>1, <1>11, ProjectTyped
    <3>2. CASE q # p
      <4>1. projects'[q] = projects[q]
        BY <1>8, <3>2
      <4> QED  BY <1>2, <3>1, <4>1 DEF ProjectAgrees
    <3>3. CASE q = p
      <4>1. ASSUME NEW k \in 1..(i + 1)
            PROVE  /\ projects'[p].vms[k].port = Vm(projects[p].tag, k - 1)
                   /\ projects'[p].vms[k].host = k + 2
        <5>1. CASE k = i + 1
          BY <1>4, <1>5, <1>7, <1>9, <5>1, SMTT(20)
        <5>2. CASE k # i + 1
          <6>1. k \in 1..i
            BY <1>5, <5>2
          <6> QED  BY <1>5, <1>9, <6>1 DEF ProjectAgrees
        <5> QED  BY <5>1, <5>2
      <4>2. Len(projects'[p].vms) <= NVms
        BY <1>4, <1>5, <1>9, NumbersAssumption
      <4>3. /\ projects'[p].tag \in 1..p /\ projects'[p].net = p
            /\ used'[p + 1] = 2 + VmsBegun(p)' /\ used'[p + 1] <= hosts'
        BY <1>2, <1>5, <1>8, <3>1, <3>3 DEF ProjectAgrees
      <4>4. ProjectAgrees(p)'
        BY <1>8, <1>9, <4>1, <4>2, <4>3 DEF ProjectAgrees
      <4> QED  BY <3>3, <4>4
    <3> QED  BY <3>2, <3>3
  <2>3. making' \in MakingTypes
    BY <1>2 DEF MakingTypes
  <2> QED
    BY <1>1, <1>2, <1>3, <1>8, <1>10, <2>1, <2>2, <2>3 DEF BooksAgree
<1>13. ScriptAgrees'
  <2>1. Range(todo) = {} /\ IsList(todo)' /\ DistinctRows(todo)'
    BY <1>1, <1>2, ListFew DEF ScriptAgrees, IsList, DistinctRows
  <2> QED  BY <1>2, <1>3, <2>1 DEF ScriptAgrees
<1>14. RowsAgree'
  <2>1. Len(used) \in Nat /\ used' = used
    BY <1>1, <1>2 DEF BooksAgree
  <2>2. \A q \in DOMAIN projects : /\ q \in DOMAIN projects'
                                   /\ projects'[q].tag = projects[q].tag
                                   /\ VmsBegun(q) <= VmsBegun(q)'
    <3> SUFFICES ASSUME NEW q \in DOMAIN projects
                 PROVE  /\ projects'[q].tag = projects[q].tag
                        /\ VmsBegun(q) <= VmsBegun(q)'
      BY <1>8
    <3>1. projects'[q].tag = projects[q].tag
      <4>1. CASE q = p
        BY <1>8, <4>1
      <4>2. CASE q # p
        BY <1>8, <4>2
      <4> QED  BY <4>1, <4>2
    <3>2. \A a, b \in Nat : a = b => a <= b
      OBVIOUS
    <3> QED  BY <1>11, <3>1, <3>2
  <2>3. \A row : Planned(row) => Planned(row)'
    BY <1>11, <2>1, <2>2, PlannedGrows
  <2> QED  BY <1>1, <1>2, <2>3, RowsStay
<1>15. OnceOnly'
  BY <1>1, <1>2 DEF OnceOnly, IsInjective
<1>16. /\ VmsOf(p)' = VmsOf(p) \cup {new}
       /\ \A q \in DOMAIN projects : q # p => VmsOf(q)' = VmsOf(q)
  <2>1. IsList(projects[p].vms)
    BY <1>5, ListOf
  <2>2. PICK s : s = projects[p].vms
    OBVIOUS
  <2>3. Range(Append(s, new)) = Range(s) \cup {new}
    BY <2>1, <2>2, ListAppend
  <2> QED  BY <1>8, <2>2, <2>3 DEF VmsOf
<1>17. <<"in", port, Switch(p), Ip(p, host)>> \in Rows
  <2>1. MakePort.row = <<"in", port, Switch(p), Ip(p, host)>>
    BY <1>0 DEF MakePort, LsPortAdd, Insert, Command
  <2>2. Range(todo) = {}
    BY <1>2, ListFew
  <2> QED  BY <1>1, <2>1, <2>2 DEF ScriptAgrees
<1>18. NeedsMet'
  <2>1. Rows' = Rows /\ \A c : Ensured(c)' <=> Ensured(c)
    BY <1>2, EnsuredSame
  <2>2. \A c \in VmNeeds(p, new) : Ensured(c)
    <3>1. Range(todo) = {}
      BY <1>2, ListFew
    <3>2. VmNeeds(p, new) = VmNeeds(making.of, making)
      BY <1>0, <1>7 DEF VmNeeds
    <3> QED  BY <1>1, <3>1, <3>2 DEF NeedsMet, Tracked
  <2>3. ASSUME NEW q \in DOMAIN projects'
        PROVE  /\ \A c \in ProjectNeeds(q) : Ensured(c)'
               /\ \A vm \in VmsOf(q)' :
                    /\ <<"in", vm.port, Switch(q), Ip(q, vm.host)>> \in Rows'
                    /\ \A c \in VmNeeds(q, vm) : Ensured(c)'
    <3>1. CASE q = p
      <4>1. \A vm \in VmsOf(p) :
              /\ <<"in", vm.port, Switch(p), Ip(p, vm.host)>> \in Rows
              /\ \A c \in VmNeeds(p, vm) : Ensured(c)
        BY <1>1, <1>4 DEF NeedsMet
      <4>2. <<"in", new.port, Switch(p), Ip(p, new.host)>> \in Rows
        BY <1>7, <1>17
      <4> QED  BY <1>1, <1>4, <1>16, <2>1, <2>2, <3>1, <4>1, <4>2 DEF NeedsMet
    <3>2. CASE q # p
      BY <1>1, <1>8, <1>16, <2>1, <3>2 DEF NeedsMet
    <3> QED  BY <3>1, <3>2
  <2> QED  BY <1>3, <2>3 DEF NeedsMet
<1>19. GatewaysKnown'
  <2> DEFINE S == Rows \cup logged
  <2>1. S' = S
    BY <1>2 DEF Rows
  <2>2. \A q \in DOMAIN projects' : Sampled(GwsIn(S', q))
    BY <1>1, <1>8, <2>1 DEF GatewaysKnown
  <2> QED  BY <1>3, <2>2 DEF GatewaysKnown
(* Its port is on its own switch only, where its name is new.              *)
<1>20. new \notin Listed
  <2> SUFFICES ASSUME NEW q \in DOMAIN projects, new \in VmsOf(q)
               PROVE  FALSE
    BY DEF Listed
  <2>1. <<"in", port, Switch(q), Ip(q, host)>> \in Rows
    BY <1>1, <1>7 DEF NeedsMet
  <2>2. Switch(q) = Switch(p)
    <3> DEFINE r == <<"in", port, Switch(q), Ip(q, host)>>
               s == <<"in", port, Switch(p), Ip(p, host)>>
    <3>1. r \in Rows /\ s \in Rows /\ r[1] = "in" /\ s[1] = "in" /\ r[2] = s[2]
      BY <1>17, <2>1
    <3>2. r[3] = s[3]
      BY <1>1, <3>1 DEF RowsAgree
    <3> QED  BY <3>2
  <2>3. q = p
    BY <2>2 DEF Switch
  <2>4. PICK k \in 1..i : projects[p].vms[k] = new
    BY <1>5, <2>3 DEF VmsOf, Range
  <2>5. host = k + 2
    BY <1>5, <1>7, <2>4 DEF ProjectAgrees
  <2> QED  BY <1>4, <1>5, <2>4, <2>5
<1>21. Listed' = Listed \cup {new}
  <2>1. UNION {VmsOf(q)' : q \in DOMAIN projects}
          = (UNION {VmsOf(q) : q \in DOMAIN projects}) \cup {new}
    BY <1>4, <1>16
  <2> QED  BY <1>8, <2>1 DEF Listed
<1>22. Balanced'
  <2>1. IsFiniteSet(Listed) /\ NextNode = w /\ NextNode' = turn
    BY <1>0, <1>1, <1>2, <1>3 DEF Balanced, NextNode
  <2>2. IsFiniteSet(Listed)'
    BY <1>21, <2>1, FS_AddElement
  <2>3. PICK n \in Nat : \A x \in 1..NWorkers :
           Cardinality(OnNode(x)) = IF x < w THEN n + 1 ELSE n
    BY <1>1, <2>1 DEF Balanced
  <2>4. ASSUME NEW x \in 1..NWorkers
        PROVE  Cardinality(OnNode(x)') = IF x <= w THEN n + 1 ELSE n
    <3>1. IsFiniteSet(OnNode(x))
      BY <2>1, FS_Subset DEF OnNode
    <3>2. CASE x = w
      <4>1. OnNode(x)' = OnNode(x) \cup {new} /\ new \notin OnNode(x)
        BY <1>7, <1>20, <1>21, <3>2 DEF OnNode
      <4>2. Cardinality(OnNode(x)) = n
        BY <1>4, <2>3, <3>2
      <4>3. PICK S : S = OnNode(x)
        OBVIOUS
      <4>4. Cardinality(S \cup {new}) = n + 1
        BY <3>1, <3>2, <4>1, <4>2, <4>3, FS_AddElement
      <4> QED  BY <1>4, <3>2, <4>1, <4>3, <4>4
    <3>3. CASE x # w
      <4>1. OnNode(x)' = OnNode(x)
        BY <1>7, <1>21, <3>3 DEF OnNode
      <4> QED  BY <1>4, <2>3, <3>3, <4>1
    <3> QED  BY <3>2, <3>3
  <2>5. CASE w < NWorkers
    <3>1. turn = w + 1
      BY <1>4, <2>5, WorkersAssumption
    <3>2. \A x \in 1..NWorkers : (x < turn) <=> (x <= w)
      BY <1>4, <3>1
    <3> QED  BY <1>4, <2>1, <2>2, <2>4, <3>2 DEF Balanced
  <2>6. CASE w = NWorkers
    <3>1. turn = 1
      BY <1>4, <2>6, WorkersAssumption
    <3>2. ASSUME NEW x \in 1..NWorkers
          PROVE  Cardinality(OnNode(x)') = IF x < turn THEN n + 2 ELSE n + 1
      BY <2>4, <2>6, <3>1, WorkersAssumption
    <3>3. n + 1 \in Nat /\ (n + 1) + 1 = n + 2
      OBVIOUS
    <3> QED  BY <2>1, <2>2, <3>2, <3>3 DEF Balanced
  <2> QED  BY <1>4, <2>5, <2>6, WorkersAssumption
<1>23. MeshDone' /\ CountersAgree'
  BY <1>1, <1>2 DEF MeshDone, CountersAgree
<1> QED
  BY <1>12, <1>13, <1>14, <1>15, <1>18, <1>19, <1>22, <1>23 DEF IInv

LEMMA StutterStep ==
  ASSUME IInv, UNCHANGED <<db, todo, attempts, logged, measured, faults, pc>>,
         UNCHANGED <<hosts, making, projects, used, turn, pinged>>
  PROVE  IInv'
<1>1. /\ BooksAgree /\ ScriptAgrees /\ RowsAgree /\ OnceOnly /\ NeedsMet
      /\ GatewaysKnown /\ Balanced /\ MeshDone /\ CountersAgree
  BY DEF IInv
<1>2. /\ \A p : ProjectAgrees(p)' <=> ProjectAgrees(p)
      /\ \A row : Planned(row)' <=> Planned(row)
      /\ \A what : Making(what)' <=> Making(what)
      /\ \A c : OfVm(c)' <=> OfVm(c)
      /\ MakePort' = MakePort
  BY BooksStay
<1>3. Rows' = Rows /\ \A c : Ensured(c)' <=> Ensured(c)
  BY EnsuredSame
<1>4. BooksAgree'
  <2>1. MakingAgrees'
    BY <1>1, <1>2 DEF BooksAgree, MakingAgrees
  <2> QED  BY <1>1, <1>2, <2>1 DEF BooksAgree
<1>5. ScriptAgrees'
  BY <1>1, <1>2, <1>3 DEF ScriptAgrees, IsList, DistinctRows
<1>6. RowsAgree'
  BY <1>1, <1>2, RowsStay
<1>7. OnceOnly'
  BY <1>1, <1>2, <1>3 DEF OnceOnly, IsInjective, Fresh, Doomed
<1>8. NeedsMet'
  <2>1. \A q : VmsOf(q)' = VmsOf(q)
    BY DEF VmsOf
  <2> QED  BY <1>1, <1>2, <1>3, <2>1 DEF NeedsMet, Tracked
<1>9. GatewaysKnown'
  BY <1>1, <1>2, <1>3 DEF GatewaysKnown
<1>10. Balanced'
  BY <1>1, <1>2, BalancedStays DEF NextNode
<1>11. MeshDone' /\ CountersAgree'
  BY <1>1 DEF MeshDone, CountersAgree
<1> QED
  BY <1>4, <1>5, <1>6, <1>7, <1>8, <1>9, <1>10, <1>11 DEF IInv

LEMMA Inductive == IInv /\ [Next]_vars => IInv'
<1> SUFFICES ASSUME IInv, [Next]_vars PROVE IInv'
  OBVIOUS
<1>1. CASE Work
  BY <1>1, WorkStep
<1>2. CASE Finish
  <2>1. Making("network") \/ Making("project") \/ Making("vm")
    BY <1>2, MakingKinds DEF IInv, BooksAgree, MakingAgrees, Finish, End
  <2> QED  BY <1>2, <2>1, FinishNetwork, FinishProject, FinishVm
<1>3. CASE NewExternalNetwork
  BY <1>3, ExternalStep
<1>4. ASSUME NEW tag \in 1..(Len(projects) + 1), NEW sample \in GatewayChassis,
             NewProject(tag, sample)
      PROVE  IInv'
  BY <1>4, ProjectStep
<1>5. ASSUME NEW p \in DOMAIN projects, AddVm(p) \/ RefuseVm(p)
      PROVE  IInv'
  BY <1>5, VmStep, RefuseStep
<1>6. CASE MeshPing
  BY <1>6, MeshStep
<1>7. CASE UNCHANGED vars
  BY <1>7, StutterStep DEF vars, script, cloud
<1> QED  BY <1>1, <1>2, <1>3, <1>4, <1>5, <1>6, <1>7 DEF Next

LEMMA Invariant == Spec => []IInv
<1> QED  BY InitHolds, Inductive, PTL DEF Spec

-----------------------------------------------------------------------------
(***************************************************************************)
(* What follows from the invariant.                                        *)
(***************************************************************************)
LEMMA TypeFollows == IInv => TypeOK
<1> SUFFICES ASSUME IInv PROVE TypeOK
  OBVIOUS
<1>1. /\ BooksAgree /\ ScriptAgrees /\ CountersAgree
  BY DEF IInv
<1>2. ScriptTypeOK
  <2>1. ASSUME NEW k \in DOMAIN todo
        PROVE  todo[k].fails
                 \subseteq {"retry", "log", "measure", "raise", "lose"}
    <3>1. todo[k] \in Range(todo)
      BY DEF Range
    <3>2. Handled(todo[k])
      BY <1>1, <3>1, AllHandled
    <3> QED  BY <3>2 DEF Handled
  <2> QED  BY <1>1, <2>1 DEF ScriptTypeOK, CountersAgree
<1>3. /\ hosts \in HostCounts /\ hosts \in Nat /\ 2 <= hosts
      /\ turn \in 1..NWorkers
  BY <1>1, HostsAssumption DEF BooksAgree
<1>4. used \in Seq(Nat) /\ projects \in Seq(ProjectTypes)
      /\ Len(projects) \in Nat /\ Len(projects) <= NProjects
      /\ DOMAIN used = 1..Len(used) /\ Len(used) \in Nat
      /\ DOMAIN projects = 1..Len(projects)
  BY <1>1 DEF BooksAgree
<1>5. ASSUME NEW p \in DOMAIN projects
      PROVE  /\ p \in Nat /\ p + 1 \in DOMAIN used /\ used[p + 1] >= 1
             /\ used[p + 1] <= hosts
  <2>1. /\ p \in Nat /\ p # 0 /\ p <= Len(projects) /\ ProjectAgrees(p)
        /\ Len(projects[p].vms) \in Nat
    BY <1>1, ProjectTyped
  <2>2. used # <<>> /\ Len(used) > Len(projects)
    <3>1. Len(<<>>) = 0 /\ projects # <<>>
      BY <2>1
    <3>2. used # <<>>
      BY <1>1, <3>1 DEF BooksAgree
    <3>3. Len(used) = Len(projects) + IF Making("project") THEN 2 ELSE 1
      BY <1>1, <3>2 DEF BooksAgree
    <3> QED  BY <1>4, <3>2, <3>3
  <2>3. VmsBegun(p) \in Nat
    <3>1. CASE Making("vm") /\ making.of = p
      <4>1. VmsBegun(p) = Len(projects[p].vms) + 1
        BY <3>1 DEF VmsBegun
      <4> QED  BY <2>1, <4>1
    <3>2. CASE ~(Making("vm") /\ making.of = p)
      <4>1. VmsBegun(p) = Len(projects[p].vms) + 0
        BY <3>2 DEF VmsBegun
      <4> QED  BY <2>1, <4>1
    <3> QED  BY <3>1, <3>2
  <2> QED  BY <1>4, <2>1, <2>2, <2>3, SMTT(20) DEF ProjectAgrees
<1>6. used \in Seq(1..hosts)
  <2>1. ASSUME NEW k \in 1..Len(used) PROVE used[k] \in 1..hosts
    <3>1. used # <<>> /\ used[k] \in Nat
      BY <1>4, <2>1
    <3>2. used[1] = 1
          /\ Len(used) = Len(projects) + IF Making("project") THEN 2 ELSE 1
      BY <1>1, <3>1 DEF BooksAgree
    <3>3. CASE k = 1
      BY <1>3, <3>2, <3>3
    <3>4. CASE k - 1 \in DOMAIN projects
      <4>1. (k - 1) + 1 = k
        BY <2>1
      <4> QED  BY <1>3, <1>5, <3>1, <3>4, <4>1
    <3>5. CASE k # 1 /\ k - 1 \notin DOMAIN projects
      <4>1. Making("project") /\ k = Len(projects) + 2
        BY <1>4, <2>1, <3>2, <3>5
      <4>2. used[k] = 2
        <5>1. making.net = Len(projects) + 1 /\ used[making.net + 1] = 2
          BY <1>1, <4>1 DEF BooksAgree, MakingAgrees
        <5>2. making.net + 1 = k
          BY <1>4, <4>1, <5>1
        <5> QED  BY <5>1, <5>2
      <4> QED  BY <1>3, <4>2
    <3> QED  BY <3>3, <3>4, <3>5
  <2> QED  BY <1>3, <1>4, <2>1
<1>7. ASSUME NEW p \in DOMAIN projects
      PROVE  /\ projects[p].tag \in 1..p
             /\ projects[p].net + 1 \in DOMAIN used
             /\ Len(projects[p].vms) <= NVms
             /\ \A k \in DOMAIN projects[p].vms :
                  projects[p].vms[k].on \in 1..NWorkers
  <2>1. ProjectAgrees(p) /\ projects[p].vms \in Seq(VmTypes)
    BY <1>1, ProjectTyped
  <2>2. \A k \in DOMAIN projects[p].vms : projects[p].vms[k] \in VmTypes
    BY <2>1
  <2>3. \A k \in DOMAIN projects[p].vms :
           projects[p].vms[k].on \in 1..NWorkers
    BY <2>2 DEF VmTypes
  <2>4. /\ projects[p].tag \in 1..p /\ projects[p].net = p
        /\ Len(projects[p].vms) <= NVms
    BY <2>1 DEF ProjectAgrees
  <2> QED  BY <1>5, <2>3, <2>4
<1>8. /\ making.what \in {"nothing", "network", "project", "vm"}
      /\ pc \in {"idle", "busy", "dead", "refused", "done"}
  BY <1>1, MakingKinds DEF BooksAgree, Making
<1> QED  BY <1>2, <1>3, <1>4, <1>6, <1>7, <1>8 DEF TypeOK

(* Whose an address is can be read off the address.                        *)
LEMMA AddressesFollow == IInv => AddressesAreUnique
<1> SUFFICES ASSUME IInv, NEW r \in Rows, NEW s \in Rows,
                    Addressed(r), Addressed(s), r[4] = s[4]
             PROVE  r[2] = s[2]
  BY DEF AddressesAreUnique, Addressed
<1>1. ASSUME NEW q \in Rows, Addressed(q)
      PROVE  \/ \E p \in DOMAIN projects, i \in Nat :
                  /\ q[2] = Vm(projects[p].tag, i) /\ q[4] = Ip(p, i + 3)
             \/ \E n \in Nat : NetworkAddress(q, n)
  <2>1. Planned(q)
    BY DEF IInv, RowsAgree
  <2> QED  BY <1>1, <2>1 DEF Planned, VmRow
<1>2. CASE /\ \E n \in Nat : NetworkAddress(r, n)
           /\ \E n \in Nat : NetworkAddress(s, n)
  <2>1. PICK m \in Nat : NetworkAddress(r, m)
    BY <1>2
  <2>2. PICK n \in Nat : NetworkAddress(s, n)
    BY <1>2
  <2> QED  BY <2>1, <2>2 DEF NetworkAddress, Ip, ExtIp, Gateway
<1>3. ASSUME NEW a \in Rows, NEW b \in Rows, a[4] = b[4],
             NEW p \in DOMAIN projects, NEW i \in Nat, NEW n \in Nat,
             a[4] = Ip(p, i + 3), NetworkAddress(b, n)
      PROVE  FALSE
  BY <1>3 DEF NetworkAddress, Ip, ExtIp, Gateway
<1>4. CASE /\ \E p \in DOMAIN projects, i \in Nat :
                r[2] = Vm(projects[p].tag, i) /\ r[4] = Ip(p, i + 3)
           /\ \E p \in DOMAIN projects, i \in Nat :
                s[2] = Vm(projects[p].tag, i) /\ s[4] = Ip(p, i + 3)
  <2>1. PICK p \in DOMAIN projects, i \in Nat :
           r[2] = Vm(projects[p].tag, i) /\ r[4] = Ip(p, i + 3)
    BY <1>4
  <2>2. PICK q \in DOMAIN projects, j \in Nat :
           s[2] = Vm(projects[q].tag, j) /\ s[4] = Ip(q, j + 3)
    BY <1>4
  <2>3. Ip(p, i + 3) = Ip(q, j + 3)
    BY <2>1, <2>2
  <2>4. p = q /\ i + 3 = j + 3
    BY <2>3 DEF Ip
  <2>5. i = j
    BY <2>4
  <2> QED  BY <2>1, <2>2, <2>4, <2>5
<1> QED  BY <1>1, <1>2, <1>3, <1>4

LEMMA ConnectedFollows == IInv => VmsAreConnected
<1> SUFFICES ASSUME IInv PROVE VmsAreConnected
  OBVIOUS
<1>1. BooksAgree /\ NeedsMet /\ MeshDone
  BY DEF IInv
<1>2. MeshIsComplete
  BY <1>1 DEF MeshDone, MeshIsComplete
<1>3. ASSUME NEW p \in DOMAIN projects, NEW vm \in VmsOf(p)
      PROVE  LET n == projects[p].net IN
        /\ <<"in", vm.port, Switch(n), Ip(n, vm.host)>> \in Rows
        /\ Has(<<"in", Lrp(p, n), Router(p), Ip(n, Gateway)>>)
        /\ Has(<<"router", Dhcp(n), None, Ip(n, Gateway)>>)
        /\ Exists(Lsp(p, n)) /\ Exists(Lsp(p, 0))
        /\ \E k \in 1..NProjects :
             /\ Has(<<"in", Lrp(p, 0), Router(p), ExtIp(k)>>)
             /\ Has(<<"route", Router(p), None, ExtIp(k)>>)
        /\ Has(<<"snat", Router(p), None, Switch(n)>>)
        /\ Has(<<"ports", Group(n), None, vm.port>>)
        /\ \A k \in 1..4 : Has(<<"acl", Group(n), None, <<"rule", k, 0>>>>)
        /\ Has(<<"options", vm.port, None, Chassis(vm.on)>>)
        /\ <<"iface", vm.port, None, Chassis(vm.on)>> \in Rows
        /\ Has(<<"in", Netns(vm.port), None, Ip(n, Gateway)>>)
  <2> USE DEF LrPortAdd, LsPortAdd, RouteAdd, NatAdd, DhcpOptionsSetOptions,
              AclAdd, LsPortSetOptions, PortGroupAddPorts, AddPort, BindVmPort,
              Insert, Set, Change, Command
  <2>1. projects[p].net = p /\ p \in 1..NProjects
    BY <1>1, ProjectTyped, NumbersAssumption, SMTT(20)
       DEF ProjectAgrees, BooksAgree
  <2>2. \A c \in ProjectNeeds(p) : Ensured(c)
    BY <1>1 DEF NeedsMet
  <2>3. /\ <<"in", vm.port, Switch(p), Ip(p, vm.host)>> \in Rows
        /\ \A c \in VmNeeds(p, vm) : Ensured(c)
    BY <1>1 DEF NeedsMet
  <2>4. ASSUME NEW c, Ensured(c), "retry" \notin c.fails PROVE Has(c.row)
    BY <2>4 DEF Ensured, Has
  <2>5. /\ Has(<<"in", Lrp(p, p), Router(p), Ip(p, Gateway)>>)
        /\ Has(<<"in", Lrp(p, 0), Router(p), ExtIp(p)>>)
        /\ Has(<<"router", Dhcp(p), None, Ip(p, Gateway)>>)
        /\ Has(<<"route", Router(p), None, ExtIp(p)>>)
        /\ Has(<<"snat", Router(p), None, Switch(p)>>)
    <3>1. /\ LrPortAdd(Lrp(p, p), Router(p), Ip(p, Gateway)) \in ProjectNeeds(p)
          /\ LrPortAdd(Lrp(p, 0), Router(p), ExtIp(p)) \in ProjectNeeds(p)
          /\ DhcpOptionsSetOptions(Dhcp(p), Ip(p, Gateway)) \in ProjectNeeds(p)
          /\ RouteAdd(Router(p), "route", ExtIp(p)) \in ProjectNeeds(p)
          /\ NatAdd(Router(p), Switch(p)) \in ProjectNeeds(p)
      BY DEF ProjectNeeds
    <3>2. \A x, y, z : Ensured(LrPortAdd(x, y, z)) => Has(<<"in", x, y, z>>)
      <4> SUFFICES ASSUME NEW x, NEW y, NEW z, Ensured(LrPortAdd(x, y, z))
                   PROVE  Has(<<"in", x, y, z>>)
        OBVIOUS
      <4>1. "retry" \notin LrPortAdd(x, y, z).fails
        OBVIOUS
      <4>2. Has(LrPortAdd(x, y, z).row)
        BY <2>4, <4>1
      <4> QED  BY <4>2
    <3>3. ASSUME NEW col, NEW x, NEW val, Ensured(Set(col, x, val))
          PROVE  Has(<<col, x, None, val>>)
      <4>1. "retry" \notin Set(col, x, val).fails
        OBVIOUS
      <4>2. Has(Set(col, x, val).row)
        BY <2>4, <3>3, <4>1
      <4> QED  BY <4>2
    <3> HIDE DEF Set, LrPortAdd
    <3>4. /\ Ensured(Set("router", Dhcp(p), Ip(p, Gateway)))
          /\ Ensured(Set("route", Router(p), ExtIp(p)))
          /\ Ensured(Set("snat", Router(p), Switch(p)))
      BY <2>2, <3>1
    <3> QED  BY <2>2, <3>1, <3>2, <3>3, <3>4
  <2>6. ASSUME NEW k \in 1..4
        PROVE  Has(<<"acl", Group(p), None, <<"rule", k, 0>>>>)
    <3>1. AclAdd(Group(p), <<"rule", k, 0>>) \in ProjectNeeds(p)
      BY DEF ProjectNeeds
    <3> QED  BY <2>2, <2>4, <3>1
  <2>7. Exists(Lsp(p, p)) /\ Exists(Lsp(p, 0))
    <3>1. ASSUME NEW x, NEW s, Ensured(LsPortAdd(x, s, None)) PROVE Exists(x)
      BY <3>1 DEF Ensured, Exists
    <3> QED  BY <2>2, <3>1 DEF ProjectNeeds
  <2>8. /\ Has(<<"options", vm.port, None, Chassis(vm.on)>>)
        /\ Has(<<"ports", Group(p), None, vm.port>>)
        /\ Has(<<"in", Netns(vm.port), None, Ip(p, Gateway)>>)
    BY <2>3, <2>4 DEF VmNeeds
  <2>9. <<"iface", vm.port, None, Chassis(vm.on)>> \in Rows
    BY <2>3 DEF VmNeeds, Ensured
  <2> QED  BY <2>1, <2>3, <2>5, <2>6, <2>7, <2>8, <2>9
<1> QED  BY <1>2, <1>3 DEF VmsAreConnected, VmsReachOutside

LEMMA GatewaysFollow == IInv => GatewaysFailOver
<1> SUFFICES ASSUME IInv, NEW p \in DOMAIN projects
             PROVE  LET gws == GwsIn(Rows \cup logged, p) IN
               /\ Cardinality(gws)
                    = Least(Least(NGateways, NWorkers), MaxGwPerRouter)
               /\ \A g, h \in gws : g # h => g[2] # h[2] /\ g[3] # h[3]
  BY DEF GatewaysFailOver, GwsIn
<1> DEFINE gws == GwsIn(Rows \cup logged, p)
<1>1. PICK s \in GatewayChassis : gws = {Gw(s[k], k) : k \in DOMAIN s}
  BY DEF IInv, GatewaysKnown, Sampled
<1>2. PICK m \in Nat : /\ m = Least(Least(NGateways, NWorkers), MaxGwPerRouter)
                       /\ DOMAIN s = 1..m /\ IsInjective(s)
  BY SampleFacts
<1> HIDE DEF gws
<1>3. Cardinality(gws) = m
  <2> DEFINE F == [k \in 1..m |-> Gw(s[k], k)]
  <2>1. F \in Bijection(1..m, gws)
    BY <1>1, <1>2 DEF Gw, Bijection, Injection, Surjection, IsInjective
  <2>2. ExistsBijection(1..m, gws)
    BY <2>1 DEF ExistsBijection
  <2>3. IsFiniteSet(1..m) /\ Cardinality(1..m) = m
    BY FS_Interval
  <2> QED  BY <2>2, <2>3, FS_Bijection
<1>4. ASSUME NEW g \in gws, NEW h \in gws, g # h
      PROVE  g[2] # h[2] /\ g[3] # h[3]
  <2>1. PICK j \in DOMAIN s, k \in DOMAIN s : g = Gw(s[j], j) /\ h = Gw(s[k], k)
    BY <1>1
  <2>2. j # k
    BY <1>4, <2>1
  <2>3. s[j] # s[k]
    BY <1>2, <2>2 DEF IsInjective
  <2> QED  BY <2>1, <2>2, <2>3 DEF Gw
<1> QED  BY <1>2, <1>3, <1>4 DEF gws

LEMMA PlacementFollows == IInv => PlacementIsBalanced
<1> SUFFICES ASSUME IInv, NEW w \in 1..NWorkers, NEW x \in 1..NWorkers
             PROVE  Cardinality(OnNode(w)) <= Cardinality(OnNode(x)) + 1
  BY DEF PlacementIsBalanced, OnNode
<1>1. PICK q \in Nat : \A v \in 1..NWorkers :
         Cardinality(OnNode(v)) = IF v < NextNode THEN q + 1 ELSE q
  BY DEF IInv, Balanced
<1>2. /\ Cardinality(OnNode(w)) \in {q, q + 1}
      /\ Cardinality(OnNode(x)) \in {q, q + 1}
  BY <1>1
<1> QED  BY <1>2

LEMMA RefusalFollows == IInv => RefusalLeavesNothing
<1> SUFFICES ASSUME IInv, pc = "refused", NEW r \in Rows,
                    r[1] = "in", r[2][1] = "vm"
             PROVE  r[2] \in {vm.port : vm \in Listed}
  BY DEF RefusalLeavesNothing
<1>1. BooksAgree /\ Planned(r)
  BY DEF IInv, RowsAgree
<1>2. PICK p \in DOMAIN projects, i \in Nat :
         /\ i < VmsBegun(p)
         /\ r = <<"in", Vm(projects[p].tag, i), Switch(p), Ip(p, i + 3)>>
  BY <1>1 DEF Planned, VmRow
<1>3. ~Making("vm")
  BY <1>1 DEF BooksAgree, MakingAgrees, Making, Nothing
<1>4. VmsBegun(p) = Len(projects[p].vms) + 0
  BY <1>3 DEF VmsBegun
<1>5. /\ DOMAIN projects[p].vms = 1..Len(projects[p].vms)
      /\ Len(projects[p].vms) \in Nat /\ ProjectAgrees(p)
  BY <1>1, ProjectTyped
<1>6. i + 1 \in DOMAIN projects[p].vms /\ (i + 1) - 1 = i
  BY <1>2, <1>4, <1>5
<1>7. projects[p].vms[i + 1].port = Vm(projects[p].tag, i)
  BY <1>5, <1>6 DEF ProjectAgrees
<1>8. projects[p].vms[i + 1] \in Listed
  BY <1>6 DEF Listed, VmsOf, Range
<1> QED  BY <1>2, <1>7, <1>8

-----------------------------------------------------------------------------
(* Of the addresses the cloud gives away, from the pools of its networks   *)
(* and from the external network, no two ports get the same, although a    *)
(* router's port takes its network's gateway past the pool.                *)
THEOREM AddressesStayUnique == Spec => []AddressesAreUnique
BY Invariant, AddressesFollow, PTL

(* Whatever fails and is tried again: a VM that the cloud lists has its    *)
(* port on its project's network, and every part of its way out is there,  *)
(* unless the log or a measurement says that it failed; and a run that is  *)
(* done has pinged each pair of a project's VMs.                           *)
THEOREM VmsStayConnected == Spec => []VmsAreConnected
BY Invariant, ConnectedFollows, PTL

(* For any numbers of nodes, projects and VMs: the gateways of a router    *)
(* are as many nodes as it can have, with priorities of their own, and no  *)
(* node has two VMs more than another.                                     *)
THEOREM LoadIsShared == Spec => []NodesShareTheLoad
<1>1. IInv => NodesShareTheLoad
  BY GatewaysFollow, PlacementFollows DEF NodesShareTheLoad
<1> QED  BY <1>1, Invariant, PTL

(* However often a transaction is tried again, it leaves one row, and a VM *)
(* that is refused leaves none.                                            *)
THEOREM NothingIsTooMuch == Spec => []NothingIsLeftOver
<1>1. IInv => NothingIsLeftOver
  BY TypeFollows, RefusalFollows
     DEF NothingIsLeftOver, NothingIsMadeTwice, IInv, OnceOnly
<1> QED  BY <1>1, Invariant, PTL

=============================================================================
