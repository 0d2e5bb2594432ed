------------------------- MODULE PortLifecycleProofs -------------------------
(***************************************************************************)
(* Proofs about PortLifecycle for any sets of ports and processes.         *)
(***************************************************************************)
EXTENDS PortLifecycle, TLAPS

-----------------------------------------------------------------------------
(***************************************************************************)
(* What each command of the remote shell does to the node when it executes.*)
(***************************************************************************)
LEMMA RunsNetnsAdd ==
  ASSUME NEW p, Runs(Cmd("netnsAdd", p))
  PROVE  node' = NetnsAdd(p)
  BY DEF Runs, Cmd

LEMMA RunsNetnsDel ==
  ASSUME NEW p, Runs(Cmd("netnsDel", p))
  PROVE  node' = NetnsDel(p)
  BY DEF Runs, Cmd

LEMMA RunsStart ==
  ASSUME NEW q, Runs(Cmd("start", q))
  PROVE  node' = Start(q)
  BY DEF Runs, Cmd

LEMMA RunsStop ==
  ASSUME NEW q, Runs(Cmd("stop", q))
  PROVE  node' = Stop(q)
  BY DEF Runs, Cmd

LEMMA CommandCases ==
  ASSUME NEW cmd \in Commands
  PROVE  \/ \E p \in Ports : cmd = Cmd("netnsAdd", p)
         \/ \E p \in Ports : cmd = Cmd("netnsDel", p)
         \/ \E q \in Procs : cmd = Cmd("start", q)
         \/ \E q \in Procs : cmd = Cmd("stop", q)
  BY DEF Commands, Cmd

LEMMA CmdType ==
  /\ \A p \in Ports : /\ Cmd("netnsAdd", p) \in Commands
                       /\ Cmd("netnsDel", p) \in Commands
  /\ \A q \in Procs : /\ Cmd("start", q) \in Commands
                       /\ Cmd("stop", q) \in Commands
  BY DEF Commands, Cmd

LEMMA NodeStateFields ==
  ASSUME NEW n, NEW a \in SUBSET Ports, NEW b \in SUBSET Procs,
         NEW c \in SUBSET Procs, n = [netns |-> a, alive |-> b, pids |-> c]
  PROVE  n \in NodeState
  BY DEF NodeState

(***************************************************************************)
(* However a remote call ends, the node and the late commands stay typed.  *)
(***************************************************************************)
LEMMA RunsType ==
  ASSUME TypeOK, NEW cmd \in Commands, Runs(cmd)
  PROVE  node' \in NodeState
<1>1. node \in NodeState
  BY DEF TypeOK
<1>2. ASSUME NEW p \in Ports, cmd = Cmd("netnsAdd", p)
      PROVE  node' \in NodeState
  BY <1>1, <1>2, RunsNetnsAdd DEF NetnsAdd, NodeState
<1>3. ASSUME NEW p \in Ports, cmd = Cmd("netnsDel", p)
      PROVE  node' \in NodeState
  BY <1>1, <1>3, RunsNetnsDel DEF NetnsDel, NodeState
<1>4. ASSUME NEW q \in Procs, cmd = Cmd("start", q)
      PROVE  node' \in NodeState
  <2>1. /\ node'.netns = node.netns
        /\ node'.alive = node.alive \cup {q} /\ node'.pids = node.pids \cup {q}
        /\ node' = [netns |-> node'.netns, alive |-> node'.alive,
                    pids |-> node'.pids]
    BY <1>1, <1>4, RunsStart DEF Start, NodeState
  <2>2. QED
    BY <1>1, <2>1, NodeStateFields DEF NodeState
<1>5. ASSUME NEW q \in Procs, cmd = Cmd("stop", q)
      PROVE  node' \in NodeState
  <2>1. CASE q \in node.pids
    <3>1. /\ node'.netns = node.netns
          /\ node'.alive = node.alive \ {q} /\ node'.pids = node.pids \ {q}
          /\ node' = [netns |-> node'.netns, alive |-> node'.alive,
                      pids |-> node'.pids]
      BY <1>1, <1>5, <2>1, RunsStop DEF Stop, NodeState
    <3>2. QED
      BY <1>1, <3>1, NodeStateFields DEF NodeState
  <2>2. CASE q \notin node.pids
    BY <1>1, <1>5, <2>2, RunsStop DEF Stop
  <2>3. QED
    BY <2>1, <2>2
<1>6. QED
  BY <1>2, <1>3, <1>4, <1>5, CommandCases

LEMMA CallType ==
  ASSUME TypeOK, NEW cmd \in Commands, Executes(cmd) \/ Raises(cmd)
  PROVE  node' \in NodeState /\ shell' \in BOOLEAN /\ late' \subseteq Commands
<1>1. CASE Executes(cmd)
  BY <1>1, RunsType DEF Executes, TypeOK
<1>2. CASE Raises(cmd)
  BY <1>2 DEF Raises, TimesOut, NoShell, TypeOK
<1>3. QED
  BY <1>1, <1>2

LEMMA AtType ==
  ASSUME NEW ps \in SUBSET Ports, NEW qs \in SUBSET Procs, NEW by \in Callers
  PROVE  /\ \A loc \in Between : At(loc, NoPort, ps, qs, by) \in Control
         /\ \A loc \in Working, p \in Ports : At(loc, p, ps, qs, by) \in Control
  BY DEF At, Control

LEMMA ControlType ==
  /\ Idle \in Control /\ Dead \in Control
  /\ \A ps \in SUBSET Ports : BindNext(ps) \in Control
  BY AtType DEF Idle, Dead, BindNext, Between, Callers

-----------------------------------------------------------------------------
(***************************************************************************)
(* Type correctness of the worker's books, the node and the tester.        *)
(***************************************************************************)
LEMMA InitTypeOK == Init => TypeOK
  BY ControlType, NodeStateFields DEF Init, TypeOK

LEMMA StepTypeOK == TypeOK /\ [Next]_vars => TypeOK'
<1> SUFFICES ASSUME TypeOK, [Next]_vars
             PROVE  TypeOK'
  OBVIOUS
<1> USE PassiveAssumption, ControlType DEF TypeOK, world, books
<1> USE DEF Between, Unbinding, Working, Callers
<1>0. /\ pc.port \in Ports \cup {NoPort} /\ pc.ports \in SUBSET Ports
      /\ pc.procs \in SUBSET Procs /\ pc.by \in Callers
      /\ pc.at \in Working => pc.port \in Ports
  BY DEF Control
<1>1. ASSUME NEW ps \in SUBSET Ports, ProvisionPorts(ps)
      PROVE  TypeOK'
  BY <1>1 DEF ProvisionPorts
<1>2. ASSUME NEW p \in Ports, BindPort(p)
      PROVE  TypeOK'
  <2>1. pc' \in Control
    <3>1. pc.ports \ {p} \in SUBSET Ports
      BY <1>0
    <3>2. BindNext(pc.ports \ {p}) \in Control
      BY <3>1
    <3>3. At("netns", p, pc.ports \ {p}, {}, "test") \in Control
      BY <3>1, AtType
    <3>4. pc' = IF p \in Passive THEN BindNext(pc.ports \ {p})
                ELSE At("netns", p, pc.ports \ {p}, {}, "test")
      BY <1>2 DEF BindPort
    <3>5. QED
      BY ONLY <3>2, <3>3, <3>4
  <2>2. QED
    BY <1>2, <2>1 DEF BindPort
<1>3. CASE BindVmPort
  <2>1. Cmd("netnsAdd", pc.port) \in Commands
    BY <1>0, <1>3, CmdType DEF BindVmPort
  <2>2. /\ Executes(Cmd("netnsAdd", pc.port)) \/ Raises(Cmd("netnsAdd", pc.port))
        /\ reported' \subseteq Ports /\ logged' \subseteq Ports
    BY <1>0, <1>3 DEF BindVmPort, Raises
  <2>3. QED
    BY <1>0, <1>3, <2>1, <2>2, CallType DEF BindVmPort
<1>4. ASSUME NEW p \in Ports, NEW q \in Procs, StartProcess(p, q)
      PROVE  TypeOK'
  <2>1. Executes(Cmd("start", q)) \/ Raises(Cmd("start", q))
    BY <1>4 DEF StartProcess
  <2>2. pc' \in Control
    <3>1. At("check", p, {}, {q}, "test") \in Control
      BY AtType
    <3>2. pc' \in {At("check", p, {}, {q}, "test"), Dead}
      BY <1>4 DEF StartProcess
    <3>3. QED
      BY ONLY <3>1, <3>2, ControlType
  <2>3. QED
    BY <1>4, <2>1, <2>2, CallType, CmdType DEF StartProcess
<1>5. ASSUME NEW q \in Procs, CheckProcess(q)
      PROVE  TypeOK'
  <2>1. tracked' \in [Ports -> SUBSET Procs]
    BY <1>0, <1>5 DEF CheckProcess
  <2>2. QED
    BY <1>5, <2>1 DEF CheckProcess
<1>6. ASSUME NEW p \in Ports, StopListeners(p)
      PROVE  TypeOK'
  <2>1. pc' \in Control
    BY <1>6, AtType DEF StopListeners, PopProcesses
  <2>2. QED
    BY <1>6, <2>1 DEF StopListeners, PopProcesses
<1>7. ASSUME NEW q \in Procs, StopProcess(q)
      PROVE  TypeOK'
  <2>1. Executes(Cmd("stop", q)) \/ Raises(Cmd("stop", q))
    BY <1>7 DEF StopProcess
  <2>2. pc' \in Control
    <3>1. [pc EXCEPT !.procs = @ \ {q}] \in Control
      BY DEF Control
    <3>2. At("forget", pc.port, {}, {}, "unbind") \in Control
      BY <1>0, <1>7, AtType DEF StopProcess
    <3>3. QED
      BY <1>7, <3>1, <3>2 DEF StopProcess
  <2>3. reported' \subseteq Ports
    BY <1>0, <1>7 DEF StopProcess
  <2>4. QED
    BY <1>7, <2>1, <2>2, <2>3, CallType, CmdType DEF StopProcess
<1>8. CASE AllStopped
  <2>1. pc' \in Control
    BY <1>0, <1>8, AtType DEF AllStopped, AfterStop
  <2>2. QED
    BY <1>8, <2>1 DEF AllStopped
<1>9. ASSUME NEW p \in Ports, UnprovisionPort(p)
      PROVE  TypeOK'
  <2>1. pc' \in Control
    BY <1>9, AtType DEF UnprovisionPort, PopProcesses
  <2>2. QED
    BY <1>9, <2>1 DEF UnprovisionPort, PopProcesses
<1>10. CASE UnbindVmPort
  <2>1. Cmd("netnsDel", pc.port) \in Commands
    BY <1>0, <1>10, CmdType DEF UnbindVmPort
  <2>2. /\ Executes(Cmd("netnsDel", pc.port)) \/ Raises(Cmd("netnsDel", pc.port))
        /\ reported' \subseteq Ports /\ logged' \subseteq Ports
    BY <1>0, <1>10 DEF UnbindVmPort, Raises
  <2>3. pc' \in Control
    BY <1>10 DEF UnbindVmPort, Control
  <2>4. QED
    BY <1>10, <2>1, <2>2, <2>3, CallType DEF UnbindVmPort
<1>11. CASE DelPort
  <2>1. pc' \in Control
    BY <1>11 DEF DelPort, Control
  <2>2. QED
    BY <1>11, <2>1 DEF DelPort
<1>12. CASE ForgetPort
  BY <1>12 DEF ForgetPort
<1>13. CASE OvsTransactionRaises
  BY <1>13 DEF OvsTransactionRaises
<1>14. ASSUME NEW q \in Procs, ProcessExits(q)
       PROVE  TypeOK'
  BY <1>14 DEF ProcessExits, NodeState
<1>15. ASSUME NEW cmd \in late, LateCommand(cmd)
       PROVE  TypeOK'
  BY <1>15, RunsType DEF LateCommand
<1>16. CASE UNCHANGED vars
  BY <1>16 DEF vars
<1>17. QED
  BY <1>1, <1>2, <1>3, <1>4, <1>5, <1>6, <1>7, <1>8, <1>9, <1>10, <1>11, <1>12,
     <1>13, <1>14, <1>15, <1>16 DEF Next, Tester, Node

THEOREM TypeCorrect == Spec => []TypeOK
  BY InitTypeOK, StepTypeOK, PTL DEF Spec

-----------------------------------------------------------------------------
(***************************************************************************)
(* What a remote call does to each part of the node, however it ends.      *)
(***************************************************************************)
LEMMA AddEffect ==
  ASSUME TypeOK, NEW p, Runs(Cmd("netnsAdd", p))
  PROVE  /\ node'.netns = node.netns \cup {p}
         /\ node'.alive = node.alive /\ node'.pids = node.pids
  BY RunsNetnsAdd DEF NetnsAdd, TypeOK, NodeState

LEMMA DelEffect ==
  ASSUME TypeOK, NEW p, Runs(Cmd("netnsDel", p))
  PROVE  /\ node'.netns = node.netns \ {p}
         /\ node'.alive = node.alive /\ node'.pids = node.pids
  BY RunsNetnsDel DEF NetnsDel, TypeOK, NodeState

LEMMA StartEffect ==
  ASSUME TypeOK, NEW q, Runs(Cmd("start", q))
  PROVE  /\ node'.netns = node.netns
         /\ node'.alive = node.alive \cup {q} /\ node'.pids = node.pids \cup {q}
  BY RunsStart DEF Start, TypeOK, NodeState

LEMMA StopEffect ==
  ASSUME TypeOK, node.alive \subseteq node.pids, NEW q,
         Runs(Cmd("stop", q))
  PROVE  /\ node'.netns = node.netns
         /\ node'.alive = node.alive \ {q} /\ node'.pids = node.pids \ {q}
<1>1. CASE q \in node.pids
  BY <1>1, RunsStop DEF Stop, TypeOK, NodeState
<1>2. CASE q \notin node.pids
  BY <1>2, RunsStop DEF Stop
<1>3. QED
  BY <1>1, <1>2

-----------------------------------------------------------------------------
(***************************************************************************)
(* The operations, one by one, while the run is not aborted.               *)
(***************************************************************************)
LEMMA StepListed ==
  TypeOK /\ lports \subseteq created /\ [Next]_vars
    => lports' \subseteq created'
<1> SUFFICES ASSUME lports \subseteq created, [Next]_vars
             PROVE  lports' \subseteq created'
  OBVIOUS
<1>1. CASE Tester
  BY <1>1 DEF Tester, ProvisionPorts, BindPort, StopListeners, UnprovisionPort,
     StartProcess, CheckProcess, StopProcess, BindVmPort, AllStopped,
     UnbindVmPort, DelPort, ForgetPort, OvsTransactionRaises, books
<1>2. CASE Node
  BY <1>2 DEF Node, ProcessExits, LateCommand, books
<1>3. CASE UNCHANGED vars
  BY <1>3 DEF vars, books
<1>4. QED
  BY <1>1, <1>2, <1>3 DEF Next

LEMMA ProvisionPortsSound ==
  ASSUME TypeOK, IInv, pc.at # "dead", NEW ps \in SUBSET Ports,
         ProvisionPorts(ps)
  PROVE  Sound'
<1> DEFINE next == BindNext(ps)
<1>1. /\ pc.at = "idle" /\ pc = Idle /\ Sound
      /\ next.at = "bind" /\ next.port = NoPort /\ next.ports = ps
      /\ next.by = "test" /\ pc' = next
  BY DEF ProvisionPorts, BindNext, Idle, At, IInv
<1>2. UNCHANGED <<ovsPorts, node, late, tracked, ownerOf, reported, logged>>
  BY DEF ProvisionPorts
<1> HIDE DEF next
<1>3. LateIsLogged'
  BY <1>1, <1>2 DEF Sound, LateIsLogged
<1>4. PcAgrees'
  BY <1>1, <1>2 DEF Sound, PcAgrees, ProvisionPorts, Working, Unbinding
<1>5. ProcessesKnown'
  BY <1>1, <1>2 DEF Sound, ProcessesKnown, ProvisionPorts, Unbinding
<1>6. PlumbedSoFar'
  BY <1>1, <1>2 DEF Sound, PlumbedSoFar, ProvisionPorts
<1>7. LeftoversKnown'
  BY <1>1, <1>2 DEF Sound, LeftoversKnown, ProvisionPorts, IInv
<1>8. QED
  BY <1>3, <1>4, <1>5, <1>6, <1>7 DEF Sound

LEMMA BindPortSound ==
  ASSUME TypeOK, IInv, pc.at # "dead", NEW p \in Ports, BindPort(p)
  PROVE  Sound'
<1> DEFINE rest == pc.ports \ {p}
<1>1. /\ pc.at = "bind" /\ p \in pc.ports /\ Sound
      /\ ovsPorts' = ovsPorts \cup {p}
      /\ UNCHANGED <<nbRows, node, late, lports, tracked, ownerOf, created,
                     reported, logged>>
  BY DEF BindPort, IInv, books
<1>2. /\ pc'.ports = rest /\ pc'.by = "test"
      /\ \/ p \in Passive /\ rest = {} /\ pc' = Idle /\ pc'.at = "idle"
         \/ p \in Passive /\ rest # {} /\ pc'.at = "bind"
         \/ p \notin Passive /\ pc'.at = "netns" /\ pc'.port = p
  BY DEF BindPort, BindNext, Idle, At
<1> HIDE DEF rest
<1>3. LateIsLogged'
  BY <1>1 DEF Sound, LateIsLogged
<1>4. PcAgrees'
  BY <1>1, <1>2 DEF Sound, PcAgrees, Working, Unbinding, rest
<1>5. ProcessesKnown'
  BY <1>1, <1>2 DEF Sound, ProcessesKnown, Unbinding
<1>6. PlumbedSoFar'
  BY <1>1, <1>2 DEF Sound, PlumbedSoFar, rest
<1>7. LeftoversKnown'
  BY <1>1, <1>2 DEF Sound, LeftoversKnown, PcAgrees
<1>8. QED
  BY <1>3, <1>4, <1>5, <1>6, <1>7 DEF Sound

(* The command to add the namespace may be executed at once, late or never.*)
LEMMA BindVmPortSound ==
  ASSUME TypeOK, IInv, pc.at # "dead", BindVmPort
  PROVE  Sound'
<1> DEFINE cmd == Cmd("netnsAdd", pc.port)
<1>1. /\ pc.at = "netns" /\ Sound /\ pc.port \in Ports
      /\ UNCHANGED <<nbRows, ovsPorts, lports, tracked, ownerOf, created>>
  BY DEF BindVmPort, IInv, TypeOK, Control, Between
<1>2. /\ pc'.ports = pc.ports /\ pc'.by = "test"
      /\ \/ pc.ports = {} /\ pc' = Idle /\ pc'.at = "idle"
         \/ pc.ports # {} /\ pc'.at = "bind"
  BY DEF BindVmPort, BindNext, Idle, At
<1>3. /\ node'.alive = node.alive /\ node'.pids = node.pids
      /\ reported \subseteq reported' /\ logged \subseteq logged'
      /\ late' \in {late, late \cup {cmd}}
      /\ late' # late => pc.port \in logged'
      /\ \/ node'.netns = node.netns \cup {pc.port}
         \/ node'.netns = node.netns /\ pc.port \in reported' \cup logged'
  <2>1. CASE Executes(cmd) /\ UNCHANGED <<reported, logged>>
    BY <2>1, AddEffect DEF Executes
  <2>2. CASE TimesOut(cmd) /\ logged' = logged \cup {pc.port} /\ UNCHANGED reported
    BY <2>2 DEF TimesOut
  <2>3. CASE NoShell /\ reported' = reported \cup {pc.port} /\ UNCHANGED logged
    BY <2>3 DEF NoShell
  <2>4. QED
    BY <2>1, <2>2, <2>3 DEF BindVmPort
<1>4. cmd.op = "netnsAdd" /\ cmd.on = pc.port
  BY DEF Cmd
<1> HIDE DEF cmd
<1>5. pc.port \in lports /\ pc.port \notin Passive
  BY <1>1 DEF Sound, PcAgrees, Working
<1>6. LateIsLogged'
  BY <1>1, <1>3, <1>4, <1>5 DEF Sound, LateIsLogged
<1>7. PcAgrees'
  BY <1>1, <1>2 DEF Sound, PcAgrees, Working, Unbinding
<1>8. ProcessesKnown'
  BY <1>1, <1>2, <1>3 DEF Sound, ProcessesKnown, Unbinding
<1>9. PlumbedSoFar'
  BY <1>1, <1>2, <1>3 DEF Sound, PlumbedSoFar
<1>10. LeftoversKnown'
  BY <1>1, <1>2, <1>3, <1>5 DEF Sound, LeftoversKnown
<1>11. QED
  BY <1>6, <1>7, <1>8, <1>9, <1>10 DEF Sound

(* Only a start that was executed and answered lets the run continue.      *)
LEMMA StartProcessSound ==
  ASSUME TypeOK, IInv, pc.at # "dead", pc'.at # "dead",
         NEW p \in Ports, NEW q \in Procs, StartProcess(p, q)
  PROVE  Sound'
<1>1. /\ pc = Idle /\ pc.at = "idle" /\ Sound
      /\ p \in lports \ Passive /\ ownerOf[q] = NoPort
      /\ ownerOf' = [ownerOf EXCEPT ![q] = p]
      /\ UNCHANGED <<nbRows, ovsPorts, lports, tracked, created, reported, logged>>
  BY DEF StartProcess, Idle, At, IInv
<1>2. /\ Executes(Cmd("start", q))
      /\ pc'.at = "check" /\ pc'.port = p /\ pc'.procs = {q} /\ pc'.by = "test"
  BY DEF StartProcess, Dead, At
<1>3. /\ node'.netns = node.netns /\ late' = late
      /\ node'.alive = node.alive \cup {q} /\ node'.pids = node.pids \cup {q}
  BY <1>2, StartEffect DEF Executes
<1>4. /\ \A r \in Procs : r # q => ownerOf'[r] = ownerOf[r]
      /\ ownerOf'[q] = p /\ node.alive \subseteq Procs
  BY <1>1 DEF TypeOK, NodeState
<1>5. LateIsLogged'
  BY <1>1, <1>3 DEF Sound, LateIsLogged
<1>6. PcAgrees'
  BY <1>1, <1>2 DEF Sound, PcAgrees, Working, Unbinding
<1>7. ProcessesKnown'
  BY <1>1, <1>2, <1>3, <1>4 DEF Sound, ProcessesKnown, Unbinding
<1>8. PlumbedSoFar'
  BY <1>1, <1>2, <1>3 DEF Sound, PlumbedSoFar
<1>9. LeftoversKnown'
  BY <1>1, <1>2, <1>3 DEF Sound, LeftoversKnown
<1>10. QED
  BY <1>5, <1>6, <1>7, <1>8, <1>9 DEF Sound

LEMMA CheckProcessSound ==
  ASSUME TypeOK, IInv, pc.at # "dead", pc'.at # "dead",
         NEW q \in Procs, CheckProcess(q)
  PROVE  Sound'
<1>1. /\ pc.at = "check" /\ Sound /\ q \in pc.procs /\ pc.port \in Ports
      /\ UNCHANGED <<nbRows, ovsPorts, node, late, lports, ownerOf, created,
                     reported, logged>>
  BY DEF CheckProcess, IInv, TypeOK, Control, Between
<1>2. /\ pc' = Idle /\ pc'.at = "idle" /\ pc'.by = "test"
      /\ tracked' = [tracked EXCEPT ![pc.port] = @ \cup {q}]
  BY DEF CheckProcess, Dead, Idle, At
<1>3. /\ \A p \in Ports : p # pc.port => tracked'[p] = tracked[p]
      /\ tracked'[pc.port] = tracked[pc.port] \cup {q}
  BY <1>1, <1>2 DEF TypeOK
<1>4. pc.procs = {q} /\ pc.port \in lports
  BY <1>1 DEF Sound, PcAgrees, Working
<1>5. LateIsLogged'
  BY <1>1 DEF Sound, LateIsLogged
<1>6. PcAgrees'
  BY <1>1, <1>2 DEF Sound, PcAgrees, Working, Unbinding
<1>7. ProcessesKnown'
  BY <1>1, <1>2, <1>3, <1>4 DEF Sound, ProcessesKnown, Unbinding
<1>8. PlumbedSoFar'
  BY <1>1, <1>2 DEF Sound, PlumbedSoFar
<1>9. LeftoversKnown'
  BY <1>1, <1>2 DEF Sound, LeftoversKnown
<1>10. QED
  BY <1>5, <1>6, <1>7, <1>8, <1>9 DEF Sound

(* The owner's list is emptied before the first kill: from then on the     *)
(* tester's location says which of its processes may still run.            *)
LEMMA StopListenersSound ==
  ASSUME TypeOK, IInv, pc.at # "dead", NEW p \in Ports, StopListeners(p)
  PROVE  Sound'
<1>1. /\ pc = Idle /\ pc.at = "idle" /\ Sound /\ p \in lports \ Passive
      /\ tracked' = [tracked EXCEPT ![p] = {}]
      /\ UNCHANGED <<nbRows, ovsPorts, node, late, lports, ownerOf, created,
                     reported, logged>>
  BY DEF StopListeners, PopProcesses, Idle, At, IInv, world
<1>2. /\ pc'.at = "stop" /\ pc'.port = p /\ pc'.procs = tracked[p]
      /\ pc'.by = "test"
  BY DEF StopListeners, PopProcesses, At
<1>3. /\ \A r \in Ports : r # p => tracked'[r] = tracked[r]
      /\ tracked'[p] = {}
  BY <1>1 DEF TypeOK
<1>4. LateIsLogged'
  BY <1>1 DEF Sound, LateIsLogged
<1>5. PcAgrees'
  BY <1>1, <1>2 DEF Sound, PcAgrees, Working, Unbinding
<1>6. ProcessesKnown'
  BY <1>1, <1>2, <1>3 DEF Sound, ProcessesKnown, Unbinding
<1>7. PlumbedSoFar'
  BY <1>1, <1>2 DEF Sound, PlumbedSoFar
<1>8. LeftoversKnown'
  BY <1>1, <1>2 DEF Sound, LeftoversKnown
<1>9. QED
  BY <1>4, <1>5, <1>6, <1>7, <1>8 DEF Sound

LEMMA UnprovisionPortSound ==
  ASSUME TypeOK, IInv, pc.at # "dead", NEW p \in Ports, UnprovisionPort(p)
  PROVE  Sound'
<1>1. /\ pc = Idle /\ pc.at = "idle" /\ Sound /\ p \in lports
      /\ tracked' = [tracked EXCEPT ![p] = {}]
      /\ logged \subseteq logged' /\ nbRows' \subseteq nbRows
      /\ p \notin nbRows' \ logged'
      /\ UNCHANGED <<ovsPorts, node, late, lports, ownerOf, created, reported>>
  BY DEF UnprovisionPort, PopProcesses, Idle, At, IInv
<1>2. /\ pc'.at = "stop" /\ pc'.port = p /\ pc'.procs = tracked[p]
      /\ pc'.by = "unbind"
  BY DEF UnprovisionPort, PopProcesses, At
<1>3. /\ \A r \in Ports : r # p => tracked'[r] = tracked[r]
      /\ tracked'[p] = {}
  BY <1>1 DEF TypeOK
<1>4. LateIsLogged'
  BY <1>1 DEF Sound, LateIsLogged
<1>5. PcAgrees'
  BY <1>1, <1>2 DEF Sound, PcAgrees, Working, Unbinding
<1>6. ProcessesKnown'
  BY <1>1, <1>2, <1>3 DEF Sound, ProcessesKnown, Unbinding
<1>7. PlumbedSoFar'
  BY <1>1, <1>2 DEF Sound, PlumbedSoFar
<1>8. LeftoversKnown'
  BY <1>1, <1>2 DEF Sound, LeftoversKnown
<1>9. QED
  BY <1>4, <1>5, <1>6, <1>7, <1>8 DEF Sound

(***************************************************************************)
(* One round of the kill loop.  After an SSHError the processes that are   *)
(* left are those of a port that now has a failed measurement.             *)
(***************************************************************************)
LEMMA StopProcessSound ==
  ASSUME TypeOK, IInv, pc.at # "dead", pc'.at # "dead",
         NEW q \in Procs, StopProcess(q)
  PROVE  Sound'
<1>1. /\ pc.at = "stop" /\ Sound /\ q \in pc.procs /\ pc.port \in Ports
      /\ pc.port \in lports /\ pc.procs \subseteq Procs /\ tracked[pc.port] = {}
      /\ node.alive \subseteq node.pids
      /\ UNCHANGED <<nbRows, ovsPorts, lports, tracked, ownerOf, created, logged>>
  BY DEF StopProcess, IInv, TypeOK, Control, Between, Sound, PcAgrees, Working,
     ProcessesKnown
<1>2. CASE /\ Executes(Cmd("stop", q))
           /\ pc' = [pc EXCEPT !.procs = @ \ {q}]
           /\ UNCHANGED reported
  <2>1. /\ node'.netns = node.netns /\ late' = late
        /\ node'.alive = node.alive \ {q} /\ node'.pids = node.pids \ {q}
    BY <1>1, <1>2, StopEffect DEF Executes
  <2>2. /\ pc'.at = "stop" /\ pc'.port = pc.port /\ pc'.by = pc.by
        /\ pc'.procs = pc.procs \ {q}
    BY <1>1, <1>2 DEF TypeOK, Control
  <2>3. LateIsLogged'
    BY <1>1, <2>1 DEF Sound, LateIsLogged
  <2>4. PcAgrees'
    BY <1>1, <2>2 DEF Sound, PcAgrees, Working, Unbinding
  <2>5. ProcessesKnown'
    BY <1>1, <1>2, <2>1, <2>2 DEF Sound, ProcessesKnown, Unbinding
  <2>6. PlumbedSoFar'
    BY <1>1, <1>2, <2>1, <2>2 DEF Sound, PlumbedSoFar
  <2>7. LeftoversKnown'
    BY <1>1, <1>2, <2>1, <2>2 DEF Sound, LeftoversKnown
  <2>8. QED
    BY <2>3, <2>4, <2>5, <2>6, <2>7 DEF Sound
<1>3. CASE /\ Raises(Cmd("stop", q))
           /\ pc.by = "unbind"
           /\ reported' = reported \cup {pc.port}
           /\ pc' = At("forget", pc.port, {}, {}, "unbind")
  <2>1. node' = node /\ late' \in {late, late \cup {Cmd("stop", q)}}
    BY <1>3 DEF Raises, TimesOut, NoShell
  <2>2. Cmd("stop", q).op = "stop"
    BY DEF Cmd
  <2>3. /\ pc'.at = "forget" /\ pc'.port = pc.port /\ pc'.by = "unbind"
    BY <1>3 DEF At
  <2>4. LateIsLogged'
    BY <1>1, <2>1, <2>2 DEF Sound, LateIsLogged
  <2>5. PcAgrees'
    BY <1>1, <1>3, <2>3 DEF Sound, PcAgrees, Working, Unbinding
  <2>6. ProcessesKnown'
    BY <1>1, <1>3, <2>1, <2>3 DEF Sound, ProcessesKnown, Unbinding
  <2>7. PlumbedSoFar'
    BY <1>1, <1>3, <2>1, <2>3 DEF Sound, PlumbedSoFar
  <2>8. LeftoversKnown'
    BY <1>1, <1>3, <2>1, <2>3 DEF Sound, LeftoversKnown
  <2>9. QED
    BY <2>4, <2>5, <2>6, <2>7, <2>8 DEF Sound
<1>4. QED
  BY <1>2, <1>3 DEF StopProcess, Dead, At

LEMMA AllStoppedSound ==
  ASSUME TypeOK, IInv, pc.at # "dead", AllStopped
  PROVE  Sound'
<1>1. /\ pc.at = "stop" /\ Sound /\ pc.procs = {} /\ pc.port \in Ports
      /\ pc.port \in lports /\ tracked[pc.port] = {} /\ pc.by \in Callers
      /\ UNCHANGED <<nbRows, ovsPorts, node, late, lports, tracked, ownerOf,
                     created, reported, logged>>
  BY DEF AllStopped, IInv, TypeOK, Control, Between, Sound, PcAgrees, Working,
     ProcessesKnown, world, books
<1>2. \/ pc' = Idle /\ pc'.at = "idle" /\ pc'.by = "test"
      \/ /\ pc.by = "unbind" /\ pc'.by = "unbind" /\ pc'.port = pc.port
         /\ \/ pc.port \in Passive /\ pc'.at = "delPort"
            \/ pc.port \notin Passive /\ pc'.at = "delNetns"
  BY <1>1 DEF AllStopped, AfterStop, Idle, At, Callers
<1>3. LateIsLogged'
  BY <1>1 DEF Sound, LateIsLogged
<1>4. PcAgrees'
  BY <1>1, <1>2 DEF Sound, PcAgrees, Working, Unbinding
<1>5. ProcessesKnown'
  BY <1>1, <1>2 DEF Sound, ProcessesKnown, Unbinding
<1>6. PlumbedSoFar'
  BY <1>1, <1>2 DEF Sound, PlumbedSoFar
<1>7. LeftoversKnown'
  BY <1>1, <1>2 DEF Sound, LeftoversKnown
<1>8. QED
  BY <1>3, <1>4, <1>5, <1>6, <1>7 DEF Sound

(* After the command the namespace is gone, or the log or the report knows.*)
LEMMA UnbindVmPortSound ==
  ASSUME TypeOK, IInv, pc.at # "dead", UnbindVmPort
  PROVE  Sound'
<1> DEFINE cmd == Cmd("netnsDel", pc.port)
<1>1. /\ pc.at = "delNetns" /\ Sound /\ pc.port \in Ports
      /\ pc.port \in lports /\ tracked[pc.port] = {} /\ pc.by = "unbind"
      /\ UNCHANGED <<nbRows, ovsPorts, lports, tracked, ownerOf, created>>
  BY DEF UnbindVmPort, IInv, TypeOK, Control, Between, Sound, PcAgrees, Working,
     Unbinding, ProcessesKnown
<1>2. /\ pc'.port = pc.port /\ pc'.by = "unbind"
      /\ \/ pc'.at = "delPort"
         \/ pc'.at = "forget" /\ pc.port \in reported'
  BY <1>1 DEF UnbindVmPort, TypeOK, Control
<1>3. /\ node'.alive = node.alive /\ node'.pids = node.pids
      /\ reported \subseteq reported' /\ logged \subseteq logged'
      /\ late' \in {late, late \cup {cmd}}
      /\ late' # late => pc.port \in logged'
      /\ \/ node'.netns = node.netns \ {pc.port}
         \/ node'.netns = node.netns /\ pc.port \in reported' \cup logged'
  <2>1. CASE Executes(cmd) /\ UNCHANGED <<reported, logged>>
    BY <2>1, DelEffect DEF Executes
  <2>2. CASE TimesOut(cmd) /\ logged' = logged \cup {pc.port} /\ UNCHANGED reported
    BY <2>2 DEF TimesOut
  <2>3. CASE NoShell /\ reported' = reported \cup {pc.port} /\ UNCHANGED logged
    BY <2>3 DEF NoShell
  <2>4. QED
    BY <2>1, <2>2, <2>3 DEF UnbindVmPort
<1>4. cmd.op = "netnsDel" /\ cmd.on = pc.port
  BY DEF Cmd
<1> HIDE DEF cmd
<1>5. LateIsLogged'
  BY <1>1, <1>3, <1>4 DEF Sound, LateIsLogged
<1>6. PcAgrees'
  BY <1>1, <1>2, <1>3 DEF Sound, PcAgrees, Working, Unbinding
<1>7. ProcessesKnown'
  BY <1>1, <1>2, <1>3 DEF Sound, ProcessesKnown, Unbinding
<1>8. PlumbedSoFar'
  BY <1>1, <1>2, <1>3 DEF Sound, PlumbedSoFar
<1>9. LeftoversKnown'
  BY <1>1, <1>2, <1>3 DEF Sound, LeftoversKnown
<1>10. QED
  BY <1>5, <1>6, <1>7, <1>8, <1>9 DEF Sound

LEMMA DelPortSound ==
  ASSUME TypeOK, IInv, pc.at # "dead", DelPort
  PROVE  Sound'
<1>1. /\ pc.at = "delPort" /\ Sound /\ ovsPorts' = ovsPorts \ {pc.port}
      /\ pc.port \in Ports /\ pc.by = "unbind"
      /\ UNCHANGED <<nbRows, node, late, lports, tracked, ownerOf, created,
                     reported, logged>>
  BY DEF DelPort, IInv, TypeOK, Control, Between, Sound, PcAgrees, Unbinding,
     books
<1>2. pc'.at = "forget" /\ pc'.port = pc.port /\ pc'.by = "unbind"
  BY <1>1 DEF DelPort, TypeOK, Control
<1>3. LateIsLogged'
  BY <1>1 DEF Sound, LateIsLogged
<1>4. PcAgrees'
  BY <1>1, <1>2 DEF Sound, PcAgrees, Working, Unbinding
<1>5. ProcessesKnown'
  BY <1>1, <1>2 DEF Sound, ProcessesKnown, Unbinding
<1>6. PlumbedSoFar'
  BY <1>1, <1>2 DEF Sound, PlumbedSoFar
<1>7. LeftoversKnown'
  BY <1>1, <1>2 DEF Sound, LeftoversKnown
<1>8. QED
  BY <1>3, <1>4, <1>5, <1>6, <1>7 DEF Sound

(* What the port has left behind becomes a leftover of a forgotten port.   *)
LEMMA ForgetPortSound ==
  ASSUME TypeOK, IInv, pc.at # "dead", ForgetPort
  PROVE  Sound'
<1>1. /\ pc.at = "forget" /\ Sound /\ lports' = lports \ {pc.port}
      /\ pc.port \in Ports /\ pc.by = "unbind" /\ tracked[pc.port] = {}
      /\ UNCHANGED <<nbRows, ovsPorts, node, late, tracked, ownerOf, created,
                     reported, logged>>
  BY DEF ForgetPort, IInv, TypeOK, Control, Between, Sound, PcAgrees, Unbinding,
     ProcessesKnown, world
<1>2. pc' = Idle /\ pc'.at = "idle" /\ pc'.by = "test"
  BY DEF ForgetPort, Idle, At
<1>3. LateIsLogged'
  BY <1>1 DEF Sound, LateIsLogged
<1>4. PcAgrees'
  BY <1>1, <1>2 DEF Sound, PcAgrees, Working, Unbinding
<1>5. ProcessesKnown'
  BY <1>1, <1>2 DEF Sound, ProcessesKnown, Unbinding
<1>6. PlumbedSoFar'
  BY <1>1, <1>2 DEF Sound, PlumbedSoFar
<1>7. LeftoversKnown'
  BY <1>1, <1>2 DEF Sound, LeftoversKnown, PcAgrees
<1>8. QED
  BY <1>3, <1>4, <1>5, <1>6, <1>7 DEF Sound

(* The node, while the tester does something else.                         *)
LEMMA ProcessExitsSound ==
  ASSUME TypeOK, IInv, pc.at # "dead", NEW q \in Procs, ProcessExits(q)
  PROVE  Sound'
<1>1. /\ Sound /\ node'.netns = node.netns /\ node'.pids = node.pids
      /\ node'.alive \subseteq node.alive
      /\ UNCHANGED <<nbRows, ovsPorts, late, lports, tracked, ownerOf, created,
                     reported, logged, pc>>
  BY DEF ProcessExits, IInv, TypeOK, NodeState, books
<1>2. LateIsLogged' /\ PcAgrees' /\ ProcessesKnown'
  BY <1>1 DEF Sound, LateIsLogged, PcAgrees, ProcessesKnown
<1>3. PlumbedSoFar' /\ LeftoversKnown'
  BY <1>1 DEF Sound, PlumbedSoFar, LeftoversKnown
<1>4. QED
  BY <1>2, <1>3 DEF Sound

(* A late command changes only what the log already knows of.              *)
LEMMA LateCommandSound ==
  ASSUME TypeOK, IInv, pc.at # "dead", NEW cmd \in late, LateCommand(cmd)
  PROVE  Sound'
<1>1. /\ Sound /\ Runs(cmd) /\ late' = late \ {cmd}
      /\ node.alive \subseteq node.pids /\ cmd \in Commands
      /\ UNCHANGED <<nbRows, ovsPorts, lports, tracked, ownerOf, created,
                     reported, logged, pc>>
  BY DEF LateCommand, IInv, TypeOK, books, Sound, ProcessesKnown
<1> DEFINE Harmless ==
      /\ node'.alive \subseteq node.alive /\ node'.alive \subseteq node'.pids
      /\ \/ node'.netns = node.netns
         \/ \E p \in logged : node'.netns = node.netns \ {p}
         \/ \E p \in logged \ Passive : node'.netns = node.netns \cup {p}
<1>2. Harmless
  <2>1. ASSUME NEW p \in Ports, cmd = Cmd("netnsAdd", p)
        PROVE  p \in logged \ Passive /\ Runs(Cmd("netnsAdd", p))
    BY <1>1, <2>1 DEF Sound, LateIsLogged, Cmd
  <2>2. ASSUME NEW p \in Ports, cmd = Cmd("netnsDel", p)
        PROVE  p \in logged /\ Runs(Cmd("netnsDel", p))
    BY <1>1, <2>2 DEF Sound, LateIsLogged, Cmd
  <2>3. ASSUME NEW q \in Procs, cmd = Cmd("start", q)
        PROVE  FALSE
    BY <1>1, <2>3 DEF Sound, LateIsLogged, Cmd
  <2>4. ASSUME NEW p \in Ports, cmd = Cmd("netnsAdd", p)
        PROVE  Harmless
    BY <1>1, <2>1, <2>4, AddEffect
  <2>5. ASSUME NEW p \in Ports, cmd = Cmd("netnsDel", p)
        PROVE  Harmless
    BY <1>1, <2>2, <2>5, DelEffect
  <2>6. ASSUME NEW q \in Procs, cmd = Cmd("stop", q)
        PROVE  Harmless
    BY <1>1, <2>6, StopEffect
  <2>7. QED
    BY <1>1, <2>3, <2>4, <2>5, <2>6, CommandCases
<1>3. LateIsLogged' /\ PcAgrees'
  BY <1>1 DEF Sound, LateIsLogged, PcAgrees
<1>4. ProcessesKnown'
  BY <1>1, <1>2 DEF Sound, ProcessesKnown
<1>5. PlumbedSoFar'
  BY <1>1, <1>2 DEF Sound, PlumbedSoFar
<1>6. LeftoversKnown'
  BY <1>1, <1>2 DEF Sound, LeftoversKnown
<1>7. QED
  BY <1>3, <1>4, <1>5, <1>6 DEF Sound

-----------------------------------------------------------------------------
(***************************************************************************)
(* The inductive invariant and what follows from it between operations.    *)
(***************************************************************************)
LEMMA InitIInv == Init => IInv
  BY DEF Init, IInv, Sound, LateIsLogged, PcAgrees, ProcessesKnown,
     PlumbedSoFar, LeftoversKnown, Idle, At, Working, Unbinding

(* An aborted run stays aborted: only the node still changes.              *)
LEMMA DeadStays == pc.at = "dead" /\ [Next]_vars => pc'.at = "dead"
<1> SUFFICES ASSUME pc.at = "dead", [Next]_vars
             PROVE  pc'.at = "dead"
  OBVIOUS
<1>1. pc # Idle
  BY DEF Idle, At
<1>2. CASE Tester
  BY <1>1, <1>2 DEF Tester, ProvisionPorts, BindPort, StopListeners,
     UnprovisionPort, StartProcess, CheckProcess, StopProcess, BindVmPort,
     AllStopped, UnbindVmPort, DelPort, ForgetPort, OvsTransactionRaises
<1>3. CASE Node
  BY <1>3 DEF Node, ProcessExits, LateCommand
<1>4. CASE UNCHANGED vars
  BY <1>4 DEF vars
<1>5. QED
  BY <1>2, <1>3, <1>4 DEF Next

LEMMA StepIInv == TypeOK /\ IInv /\ [Next]_vars => IInv'
<1> SUFFICES ASSUME TypeOK, IInv, [Next]_vars, pc'.at # "dead"
             PROVE  Sound'
  BY StepListed DEF IInv
<1>0. pc.at # "dead"
  BY DeadStays
<1>1. ASSUME NEW ps \in SUBSET Ports, ProvisionPorts(ps)
      PROVE  Sound'
  BY <1>0, <1>1, ProvisionPortsSound
<1>2. ASSUME NEW p \in Ports, BindPort(p)
      PROVE  Sound'
  BY <1>0, <1>2, BindPortSound
<1>3. CASE BindVmPort
  BY <1>0, <1>3, BindVmPortSound
<1>4. ASSUME NEW p \in Ports, NEW q \in Procs, StartProcess(p, q)
      PROVE  Sound'
  BY <1>0, <1>4, StartProcessSound
<1>5. ASSUME NEW q \in Procs, CheckProcess(q)
      PROVE  Sound'
  BY <1>0, <1>5, CheckProcessSound
<1>6. ASSUME NEW p \in Ports, StopListeners(p)
      PROVE  Sound'
  BY <1>0, <1>6, StopListenersSound
<1>7. ASSUME NEW q \in Procs, StopProcess(q)
      PROVE  Sound'
  BY <1>0, <1>7, StopProcessSound
<1>8. CASE AllStopped
  BY <1>0, <1>8, AllStoppedSound
<1>9. ASSUME NEW p \in Ports, UnprovisionPort(p)
      PROVE  Sound'
  BY <1>0, <1>9, UnprovisionPortSound
<1>10. CASE UnbindVmPort
  BY <1>0, <1>10, UnbindVmPortSound
<1>11. CASE DelPort
  BY <1>0, <1>11, DelPortSound
<1>12. CASE ForgetPort
  BY <1>0, <1>12, ForgetPortSound
<1>13. CASE OvsTransactionRaises
  BY <1>13 DEF OvsTransactionRaises, Dead, At
<1>14. ASSUME NEW q \in Procs, ProcessExits(q)
       PROVE  Sound'
  BY <1>0, <1>14, ProcessExitsSound
<1>15. ASSUME NEW cmd \in late, LateCommand(cmd)
       PROVE  Sound'
  BY <1>0, <1>15, LateCommandSound
<1>16. CASE UNCHANGED vars
  BY <1>0, <1>16 DEF vars, world, books, IInv, Sound, LateIsLogged, PcAgrees,
     ProcessesKnown, PlumbedSoFar, LeftoversKnown
<1>17. QED
  BY <1>1, <1>2, <1>3, <1>4, <1>5, <1>6, <1>7, <1>8, <1>9, <1>10, <1>11, <1>12,
     <1>13, <1>14, <1>15, <1>16 DEF Next, Tester, Node

LEMMA Invariance == Spec => [](TypeOK /\ IInv)
  BY InitTypeOK, StepTypeOK, InitIInv, StepIInv, PTL DEF Spec

(***************************************************************************)
(* Whatever times out, is executed late or cannot get a shell: between     *)
(* operations, what an unprovisioned port has left behind is reported.     *)
(***************************************************************************)
THEOREM LeaksAreReported == Spec => []LeakIsReported
<1>1. TypeOK /\ IInv => LeakIsReported
  <2> SUFFICES ASSUME TypeOK, IInv, pc = Idle, NEW p \in created \ lports
               PROVE  /\ p \in ovsPorts \/ RunsFor(p) # {} => p \in reported
                      /\ p \in node.netns \cup nbRows
                           => p \in reported \cup logged
    BY DEF LeakIsReported
  <2>1. pc.at = "idle" /\ p \in Ports /\ Sound
    BY DEF Idle, At, TypeOK, IInv
  <2>2. ASSUME NEW q \in RunsFor(p)
        PROVE  p \in reported
    BY <2>1, <2>2 DEF RunsFor, Sound, ProcessesKnown
  <2>3. QED
    BY <2>1, <2>2 DEF Sound, LeftoversKnown
<1>2. QED
  BY <1>1, Invariance, PTL

(***************************************************************************)
(* Between operations, every process that runs is tracked for its port, or *)
(* the port has a failed measurement; forgotten ports own no processes.    *)
(***************************************************************************)
THEOREM ProcessesStayTracked == Spec => []ProcessesAreTracked
<1>1. TypeOK /\ IInv => ProcessesAreTracked
  <2> SUFFICES ASSUME TypeOK, IInv, pc = Idle
               PROVE  ProcessesAreTracked
    BY DEF ProcessesAreTracked
  <2>1. pc.at = "idle" /\ Sound
    BY DEF Idle, At, IInv
  <2>2. QED
    BY <2>1 DEF ProcessesAreTracked, Sound, ProcessesKnown
<1>2. QED
  BY <1>1, Invariance, PTL

(***************************************************************************)
(* Between operations, a port the worker has is plumbed, and has its       *)
(* namespace unless it is passive, or its report or the log says otherwise.*)
(***************************************************************************)
THEOREM PortsStayPlumbed == Spec => []PortsArePlumbed
<1>1. IInv => PortsArePlumbed
  <2> SUFFICES ASSUME IInv, pc = Idle
               PROVE  PortsArePlumbed
    BY DEF PortsArePlumbed
  <2>1. pc.at = "idle" /\ Sound
    BY DEF Idle, At, IInv
  <2>2. QED
    BY <2>1 DEF PortsArePlumbed, Sound, PlumbedSoFar
<1>2. QED
  BY <1>1, Invariance, PTL

=============================================================================
