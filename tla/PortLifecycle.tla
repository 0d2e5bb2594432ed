---------------------------- MODULE PortLifecycle ----------------------------
(***************************************************************************)
(* The workload ports of one worker (a ChassisNode, which is a Sandbox):   *)
(* provision_ports, bind_port, the background processes started in a       *)
(* port's namespace, unbind_port and unprovision_port.                     *)
(*                                                                         *)
(* A port owns state in four places: its Northbound row, its interface on  *)
(* br-int, its network namespace and its processes.  The tester changes    *)
(* the last two through the worker's remote shell, whose commands can time *)
(* out; a shell that timed out is abandoned but its command may still      *)
(* execute.  @ovn_stats.timeit turns an SSHError into a failed measurement *)
(* and lets the caller continue; any other exception ends the test run.    *)
(***************************************************************************)
EXTENDS Naturals

CONSTANTS
  Ports,     \* the lports the test creates: names never recur on a worker
  Passive,   \* those created with passive=True, which get no namespace
  Procs,     \* background processes, one pid file each
  NoPort

ASSUME PassiveAssumption == Passive \subseteq Ports
ASSUME NoPortAssumption == NoPort \notin Ports

VARIABLES
  nbRows,    \* ports with a Logical_Switch_Port row
  ovsPorts,  \* ports with an interface on br-int
  node,      \* what the remote commands change: netns, alive, pids
  shell,     \* Sandbox.channel is open
  late,      \* commands of abandoned shells that have not executed (yet)
  lports,    \* ChassisNode.lports
  tracked,   \* Sandbox.background_processes, per owner
  ownerOf,   \* history: the port a process was started for
  created,   \* history: ports that have been provisioned
  reported,  \* ports with a failed measurement in the report
  logged,    \* ports with an error that was only logged
  pc         \* where the tester is

world == <<nbRows, ovsPorts, node, shell, late>>
books == <<lports, tracked, ownerOf, created, reported, logged>>
vars  == <<world, books, pc>>

Between   == {"idle", "bind", "dead"}            \* no port is worked on
Unbinding == {"delNetns", "delPort", "forget"}
Working   == {"netns", "check", "stop"} \cup Unbinding
Callers   == {"test", "unbind"}
Commands  == [op : {"netnsAdd", "netnsDel"}, on : Ports]
               \cup [op : {"start", "stop"}, on : Procs]
NodeState == [netns : SUBSET Ports, alive : SUBSET Procs, pids : SUBSET Procs]
Control   == [at : Between, port : {NoPort}, ports : SUBSET Ports,
              procs : SUBSET Procs, by : Callers]
               \cup [at : Working, port : Ports, ports : SUBSET Ports,
                     procs : SUBSET Procs, by : Callers]

(***************************************************************************)
(* pc.port is the port being worked on, pc.ports those still to bind,      *)
(* pc.procs the processes still to check or stop, pc.by who asked for it.  *)
(***************************************************************************)
At(loc, p, ps, qs, by) ==
  [at |-> loc, port |-> p, ports |-> ps, procs |-> qs, by |-> by]
Idle == At("idle", NoPort, {}, {}, "test")
Dead == At("dead", NoPort, {}, {}, "test")

Init ==
  /\ nbRows = {} /\ ovsPorts = {}
  /\ node = [netns |-> {}, alive |-> {}, pids |-> {}]
  /\ shell = FALSE
  /\ late = {}
  /\ lports = {}
  /\ tracked = [p \in Ports |-> {}]
  /\ ownerOf = [q \in Procs |-> NoPort]
  /\ created = {} /\ reported = {} /\ logged = {}
  /\ pc = Idle

-----------------------------------------------------------------------------
(***************************************************************************)
(* The remote shell.                                                       *)
(***************************************************************************)
Cmd(op, x) == [op |-> op, on |-> x]

NetnsAdd(p) == [node EXCEPT !.netns = @ \cup {p}]
NetnsDel(p) == [node EXCEPT !.netns = @ \ {p}]
Start(q)    == [node EXCEPT !.alive = @ \cup {q}, !.pids = @ \cup {q}]

(* The kill is conditional on the pid file, which is removed with it.      *)
Stop(q) ==
  IF q \in node.pids
  THEN [node EXCEPT !.alive = @ \ {q}, !.pids = @ \ {q}]
  ELSE node

Runs(cmd) ==
  \/ cmd.op = "netnsAdd" /\ node' = NetnsAdd(cmd.on)
  \/ cmd.op = "netnsDel" /\ node' = NetnsDel(cmd.on)
  \/ cmd.op = "start"    /\ node' = Start(cmd.on)
  \/ cmd.op = "stop"     /\ node' = Stop(cmd.on)

(* ensure_channel opens a shell if there is none and the command executes. *)
Executes(cmd) ==
  /\ Runs(cmd)
  /\ shell' = TRUE
  /\ UNCHANGED late

(* No answer within the timeout: the channel is closed and forgotten.      *)
TimesOut(cmd) ==
  /\ shell' = FALSE
  /\ late' \in {late, late \cup {cmd}}
  /\ UNCHANGED node

(* ensure_channel's own "echo Hello" fails, with raise_on_error=True       *)
(* whatever the caller asked for; the command is never sent.               *)
NoShell ==
  /\ ~shell
  /\ UNCHANGED <<shell, late, node>>

(* What run(raise_on_error=True) turns into an SSHError.                   *)
Raises(cmd) == TimesOut(cmd) \/ NoShell

-----------------------------------------------------------------------------
(***************************************************************************)
(* Provisioning.                                                           *)
(***************************************************************************)
BindNext(ps) == IF ps = {} THEN Idle ELSE At("bind", NoPort, ps, {}, "test")

(* provision_ports provisions all the ports it was asked for, then binds   *)
(* them one by one.                                                        *)
ProvisionPorts(ps) ==
  /\ pc = Idle
  /\ ps # {} /\ ps \cap created = {}
  /\ created' = created \cup ps
  /\ nbRows' = nbRows \cup ps
  /\ lports' = lports \cup ps
  /\ pc' = BindNext(ps)
  /\ UNCHANGED <<ovsPorts, node, shell, late, tracked, ownerOf, reported,
                 logged>>

(* Mutant: the loop over the ports ends after the first.                   *)
BindPortMutant(p) ==
  /\ pc.at = "bind" /\ p \in pc.ports
  /\ ovsPorts' = ovsPorts \cup {p}
  /\ pc' = IF p \in Passive THEN Idle ELSE At("netns", p, {}, {}, "test")
  /\ UNCHANGED <<nbRows, node, shell, late, books>>

(* bind_port: one OVS transaction, then a namespace unless passive.        *)
BindPort(p) ==
  /\ pc.at = "bind" /\ p \in pc.ports
  /\ ovsPorts' = ovsPorts \cup {p}
  /\ pc' = IF p \in Passive
           THEN BindNext(pc.ports \ {p})
           ELSE At("netns", p, pc.ports \ {p}, {}, "test")
  /\ UNCHANGED <<nbRows, node, shell, late, books>>

(* bind_vm_port does not raise on error: a timeout is only logged, but     *)
(* an SSHError from ensure_channel fails the measurement.                  *)
BindVmPort ==
  /\ pc.at = "netns"
  /\ LET cmd == Cmd("netnsAdd", pc.port) IN
       \/ Executes(cmd) /\ UNCHANGED <<reported, logged>>
       \/ /\ TimesOut(cmd)
          /\ logged' = logged \cup {pc.port}
          /\ UNCHANGED reported
       \/ /\ NoShell
          /\ reported' = reported \cup {pc.port}
          /\ UNCHANGED logged
  /\ pc' = BindNext(pc.ports)
  /\ UNCHANGED <<nbRows, ovsPorts, lports, tracked, ownerOf, created>>

-----------------------------------------------------------------------------
(***************************************************************************)
(* Background processes.                                                   *)
(***************************************************************************)
(* start_background_process sends the command ...                          *)
StartProcess(p, q) ==
  /\ pc = Idle
  /\ p \in lports \ Passive
  /\ ownerOf[q] = NoPort
  /\ ownerOf' = [ownerOf EXCEPT ![q] = p]
  /\ \/ Executes(Cmd("start", q)) /\ pc' = At("check", p, {}, {q}, "test")
     \/ Raises(Cmd("start", q)) /\ pc' = Dead
  /\ UNCHANGED <<nbRows, ovsPorts, lports, tracked, created, reported, logged>>

(* Mutant: an owner's earlier processes are overwritten.                   *)
CheckProcessMutant(q) ==
  /\ pc.at = "check" /\ q \in pc.procs
  /\ q \in node.alive \cap node.pids
  /\ tracked' = [tracked EXCEPT ![pc.port] = {q}]
  /\ shell' = TRUE
  /\ pc' = Idle
  /\ UNCHANGED <<nbRows, ovsPorts, node, late, lports, ownerOf, created,
                 reported, logged>>

(* ... then checks that the process lives, and only then records it.  The  *)
(* callers do not catch the SSHError of either command.                    *)
CheckProcess(q) ==
  /\ pc.at = "check" /\ q \in pc.procs
  /\ \/ /\ q \in node.alive \cap node.pids
        /\ tracked' = [tracked EXCEPT ![pc.port] = @ \cup {q}]
        /\ shell' = TRUE
        /\ pc' = Idle
     \/ /\ q \notin node.alive \cap node.pids
        /\ shell' = TRUE
        /\ pc' = Dead
        /\ UNCHANGED tracked
     \/ /\ shell' = FALSE
        /\ pc' = Dead
        /\ UNCHANGED tracked
  /\ UNCHANGED <<nbRows, ovsPorts, node, late, lports, ownerOf, created,
                 reported, logged>>

(* stop_background_processes pops the owner's list before the first kill.  *)
PopProcesses(p, by) ==
  /\ tracked' = [tracked EXCEPT ![p] = {}]
  /\ pc' = At("stop", p, {}, tracked[p], by)

(* A test stops the listeners of a port it keeps.                          *)
StopListeners(p) ==
  /\ pc = Idle
  /\ p \in lports \ Passive
  /\ PopProcesses(p, "test")
  /\ UNCHANGED <<world, lports, ownerOf, created, reported, logged>>

(* One round of the kill loop; unbind_port's timeit catches the SSHError,  *)
(* skips the rest of unbind_port and lets unprovision_port continue.       *)
StopProcess(q) ==
  /\ pc.at = "stop" /\ q \in pc.procs
  /\ \/ /\ Executes(Cmd("stop", q))
        /\ pc' = [pc EXCEPT !.procs = @ \ {q}]
        /\ UNCHANGED reported
     \/ /\ Raises(Cmd("stop", q))
        /\ pc.by = "unbind"
        /\ reported' = reported \cup {pc.port}
        /\ pc' = At("forget", pc.port, {}, {}, "unbind")
     \/ /\ Raises(Cmd("stop", q))
        /\ pc.by = "test"
        /\ pc' = Dead
        /\ UNCHANGED reported
  /\ UNCHANGED <<nbRows, ovsPorts, lports, tracked, ownerOf, created, logged>>

(* Mutant: unbind_port returns early for a passive port.                   *)
AfterStopMutant ==
  IF pc.by = "test" THEN Idle
  ELSE At(IF pc.port \in Passive THEN "forget" ELSE "delNetns",
          pc.port, {}, {}, "unbind")

(* Mutant: the port to unbind is lost on the way.                          *)
AfterStopPortLost ==
  IF pc.by = "test" THEN Idle
  ELSE At("delPort", NoPort, {}, {}, "unbind")

AfterStop ==
  IF pc.by = "test" THEN Idle
  ELSE At(IF pc.port \in Passive THEN "delPort" ELSE "delNetns",
          pc.port, {}, {}, "unbind")

AllStopped ==
  /\ pc.at = "stop" /\ pc.procs = {}
  /\ pc' = AfterStop
  /\ UNCHANGED <<world, books>>

-----------------------------------------------------------------------------
(***************************************************************************)
(* Unprovisioning.                                                         *)
(***************************************************************************)
(* ls_port_del executes without check_error: a failure is only logged.     *)
UnprovisionPort(p) ==
  /\ pc = Idle
  /\ p \in lports
  /\ \/ nbRows' = nbRows \ {p} /\ UNCHANGED logged
     \/ logged' = logged \cup {p} /\ UNCHANGED nbRows
  /\ PopProcesses(p, "unbind")
  /\ UNCHANGED <<ovsPorts, node, shell, late, lports, ownerOf, created,
                 reported>>

UnbindVmPort ==
  /\ pc.at = "delNetns"
  /\ LET cmd == Cmd("netnsDel", pc.port) IN
       \/ /\ Executes(cmd)
          /\ pc' = [pc EXCEPT !.at = "delPort"]
          /\ UNCHANGED <<reported, logged>>
       \/ /\ TimesOut(cmd)
          /\ logged' = logged \cup {pc.port}
          /\ pc' = [pc EXCEPT !.at = "delPort"]
          /\ UNCHANGED reported
       \/ /\ NoShell
          /\ reported' = reported \cup {pc.port}
          /\ pc' = [pc EXCEPT !.at = "forget"]
          /\ UNCHANGED logged
  /\ UNCHANGED <<nbRows, ovsPorts, lports, tracked, ownerOf, created>>

DelPort ==
  /\ pc.at = "delPort"
  /\ ovsPorts' = ovsPorts \ {pc.port}
  /\ pc' = [pc EXCEPT !.at = "forget"]
  /\ UNCHANGED <<nbRows, node, shell, late, books>>

(* unprovision_port drops the port whether or not unbind_port succeeded.   *)
ForgetPort ==
  /\ pc.at = "forget"
  /\ lports' = lports \ {pc.port}
  /\ pc' = Idle
  /\ UNCHANGED <<world, tracked, ownerOf, created, reported, logged>>

(* The OVS transactions are executed with check_error=True; ovsdbapp's     *)
(* exceptions are not OvnTestExceptions and end the run.                   *)
OvsTransactionRaises ==
  /\ pc.at \in {"bind", "delPort"}
  /\ pc' = Dead
  /\ UNCHANGED <<world, books>>

-----------------------------------------------------------------------------
(***************************************************************************)
(* The node, at any moment.                                                *)
(***************************************************************************)
ProcessExits(q) ==
  /\ q \in node.alive
  /\ node' = [node EXCEPT !.alive = @ \ {q}]
  /\ UNCHANGED <<nbRows, ovsPorts, shell, late, books, pc>>

LateCommand(cmd) ==
  /\ cmd \in late
  /\ Runs(cmd)
  /\ late' = late \ {cmd}
  /\ UNCHANGED <<nbRows, ovsPorts, shell, books, pc>>

Tester ==
  \/ \E ps \in SUBSET Ports : ProvisionPorts(ps)
  \/ \E p \in Ports : BindPort(p) \/ StopListeners(p) \/ UnprovisionPort(p)
  \/ \E p \in Ports, q \in Procs : StartProcess(p, q)
  \/ \E q \in Procs : CheckProcess(q) \/ StopProcess(q)
  \/ BindVmPort \/ AllStopped \/ UnbindVmPort \/ DelPort \/ ForgetPort
  \/ OvsTransactionRaises

Node ==
  \/ \E q \in Procs : ProcessExits(q)
  \/ \E cmd \in late : LateCommand(cmd)

Next == Tester \/ Node

Spec == Init /\ [][Next]_vars

-----------------------------------------------------------------------------
TypeOK ==
  /\ nbRows \subseteq Ports
  /\ ovsPorts \subseteq Ports
  /\ node \in NodeState
  /\ shell \in BOOLEAN
  /\ late \subseteq Commands
  /\ lports \subseteq Ports
  /\ tracked \in [Ports -> SUBSET Procs]
  /\ ownerOf \in [Procs -> Ports \cup {NoPort}]
  /\ created \subseteq Ports
  /\ reported \subseteq Ports
  /\ logged \subseteq Ports
  /\ pc \in Control

RunsFor(p) == {q \in node.alive : ownerOf[q] = p}

(***************************************************************************)
(* The inductive strengthening of the three properties below, while the    *)
(* run is not aborted.  First, what a command that is still to execute can *)
(* change is already known to the log.                                     *)
(***************************************************************************)
LateIsLogged ==
  \A cmd \in late :
    /\ cmd.op # "start"
    /\ cmd.op \in {"netnsAdd", "netnsDel"} => cmd.on \in logged
    /\ cmd.op = "netnsAdd" => cmd.on \notin Passive

(* What the locations of the tester say about the port it is working on.   *)
PcAgrees ==
  /\ pc.at \in Working => pc.port \in lports
  /\ pc.at \in {"netns", "check", "delNetns"} => pc.port \notin Passive
  /\ pc.at \in Unbinding => pc.by = "unbind"
  /\ pc.at \in {"bind", "netns"} => pc.ports \subseteq lports
  /\ pc.at = "check" => \E q \in Procs : pc.procs = {q}
  /\ pc.at = "idle" => pc = Idle
  /\ pc.by = "unbind" => pc.port \notin nbRows \ logged

(* Where a running process is known.                                       *)
ProcessesKnown ==
  /\ \A q \in node.alive :
       /\ q \in node.pids
       /\ \E p \in Ports :
            /\ ownerOf[q] = p
            /\ \/ q \in tracked[p]
               \/ p \in reported
               \/ pc.at \in {"check", "stop"} /\ pc.port = p /\ q \in pc.procs
  /\ \A p \in Ports \ lports : tracked[p] = {}
  /\ pc.at \in {"stop"} \cup Unbinding => tracked[pc.port] = {}

(* Which ports are plumbed, and which are only about to be or no longer.   *)
PlumbedSoFar ==
  \A p \in lports :
    /\ \/ p \in ovsPorts
       \/ pc.at \in {"bind", "netns"} /\ p \in pc.ports
       \/ pc.at = "forget" /\ pc.port = p
    /\ \/ p \in node.netns \cup Passive \cup reported \cup logged
       \/ pc.at \in {"bind", "netns"} /\ p \in pc.ports
       \/ pc.at \in {"netns", "delPort", "forget"} /\ pc.port = p

(* What is left of a port that is gone, or about to be forgotten.          *)
LeftoversKnown ==
  /\ node.netns \cap Passive = {}
  /\ \A p \in created \ lports :
       /\ p \in ovsPorts => p \in reported
       /\ p \in node.netns \cup nbRows => p \in reported \cup logged
  /\ pc.at = "forget" /\ pc.port \in ovsPorts => pc.port \in reported
  /\ pc.at \in {"delPort", "forget"} /\ pc.port \in node.netns =>
       pc.port \in reported \cup logged

Sound ==
  LateIsLogged /\ PcAgrees /\ ProcessesKnown /\ PlumbedSoFar /\ LeftoversKnown

IInv ==
  /\ lports \subseteq created
  /\ pc.at # "dead" => Sound

(***************************************************************************)
(* Between operations, whatever an unprovisioned port has left behind is   *)
(* accounted for.  unprovision_port forgets the port even when unbind_port *)
(* failed, so nothing will ever clean up after it: an interface or a       *)
(* process that stays must show as a failed measurement of that port, a    *)
(* namespace or a Northbound row at least in the log.                      *)
(***************************************************************************)
LeakIsReported ==
  pc = Idle =>
    \A p \in created \ lports :
      /\ p \in ovsPorts \/ RunsFor(p) # {} => p \in reported
      /\ p \in node.netns \cup nbRows => p \in reported \cup logged

(***************************************************************************)
(* Between operations, every process that runs for a port is tracked, so   *)
(* that stop_background_processes can find it, or its port has a failed    *)
(* measurement; and only ports the worker still has are owners.            *)
(***************************************************************************)
ProcessesAreTracked ==
  pc = Idle =>
    /\ \A q \in node.alive :
         \E p \in Ports : ownerOf[q] = p /\ (q \in tracked[p] \/ p \in reported)
    /\ \A p \in Ports \ lports : tracked[p] = {}

(***************************************************************************)
(* Between operations, a port the worker has is plumbed: its interface     *)
(* exists and, unless it is passive or its report or the log says          *)
(* otherwise, so does its namespace, late commands notwithstanding.        *)
(***************************************************************************)
PortsArePlumbed ==
  pc = Idle =>
    \A p \in lports :
      /\ p \in ovsPorts
      /\ p \in node.netns \cup Passive \cup reported \cup logged

=============================================================================
