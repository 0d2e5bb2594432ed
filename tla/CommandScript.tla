---------------------------- MODULE CommandScript ----------------------------
(***************************************************************************)
(* How the tester configures a deployment: scripts of commands, executed   *)
(* one by one, each an OVSDB transaction or a command in a node's shell.   *)
(* A command may fail before or after it took effect, and what refers to   *)
(* something that is missing always fails.  What a failure means depends   *)
(* on how the command is executed:                                         *)
(*   "retry"    uuid_transaction: again with may_exist, MAX_RETRY times;   *)
(*   "log"      execute() or run(): an error in the log, and on it goes;   *)
(*   "measure"  an OvnTestException that timeit turns into a measurement;  *)
(*   "raise"    any other exception: the run of the tester ends;           *)
(*   "lose"     db_create_transaction, whose retry is never reached: as    *)
(*              "log", and without its UUID the tester cannot refer to the *)
(*              row, whether it is there or not.                           *)
(* Components EXTEND this module with their scripts.                       *)
(***************************************************************************)
EXTENDS Naturals, Sequences, Functions

CONSTANTS
  MaxRetry,   \* MAX_RETRY, 5 in the code
  MaxFaults   \* bound: commands that fail without a reason

ASSUME RetryAssumption == MaxRetry \in Nat \ {0} /\ MaxFaults \in Nat

VARIABLES
  db,        \* rows, column values and node settings, in order of creation
  todo,      \* commands the current operation has still to execute
  attempts,  \* failed attempts at the first of them
  logged,    \* what failed with no more than a line in the log
  measured,  \* what failed as a measurement
  faults,    \* failures without a reason so far
  pc         \* idle, busy with todo, dead, or where an extending module says

script == <<db, todo, attempts, logged, measured, faults, pc>>

(***************************************************************************)
(* A row is <<"in", object, where, address>>; a column of an object, or a  *)
(* setting of a node, is <<column, object, None, value>>.                  *)
(***************************************************************************)
None == <<"none", 0, 0>>
Rows == Range(db)
Exists(x) == \E r \in Rows : r[1] = "in" /\ r[2] = x

Command(row, needs, fails) == [row |-> row, needs |-> needs, fails |-> fails]
Insert(x, on, val, fails) == Command(<<"in", x, on, val>>, {on} \ {None}, fails)
Change(col, x, val, fails) == Command(<<col, x, None, val>>, {x}, fails)
Set(col, x, val)           == Change(col, x, val, {"log"})

(* A column that refers to an object by its UUID.                          *)
Refer(col, x, y, fails)    == Command(<<col, x, None, y>>, {x, y}, fails)

-----------------------------------------------------------------------------
(***************************************************************************)
(* The commands of OvnNbctl, OvsVsctl and ChassisNode that scripts use.    *)
(***************************************************************************)
LrAdd(r)               == Insert(r, None, None, {"retry"})
LrSetOptions(r, val)   == Set("options", r, val)
LrPortAdd(rp, r, ip)   == Insert(rp, r, ip, {"log"})
LrPortSetGwChassis(rp, gw) == Set("gateway", rp, gw)
LsAdd(s)               == Insert(s, None, None, {"retry"})
LsPortAdd(lp, s, ip)   == Insert(lp, s, ip, {"retry"})
LsPortSetType(lp)      == Set("type", lp, None)
LsPortEnable(lp)       == Set("enabled", lp, None)
LsPortSetOptions(lp, val)     == Set("options", lp, val)
LsPortSetIpv4Address(lp, ip)  == Set("addresses", lp, ip)
PortGroupCreate(pg)    == Insert(pg, None, None, {"log"})
PortGroupAddPorts(pg, lp) == Set("ports", pg, lp)
AddressSetCreate(as)   == Insert(as, None, None, {"log"})
AddressSetAddAddrs(as, ips) == Set("addresses", as, ips)
AclAdd(pg, rule)       == Set("acl", pg, rule)
RouteAdd(r, col, gw)   == Set(col, r, gw)
NatAdd(r, net)         == Set("snat", r, net)

(* Its result is used at once: an AttributeError if it failed.             *)
CreateDhcpOptions(d)   == Insert(d, None, None, {"raise"})
DhcpOptionsSetOptions(d, val) == Set("router", d, val)

CreateLb(lb)           == Insert(lb, None, None, {"lose"})
LbSetVips(lb, val)     == Set("vips", lb, val)
LbAddTo(lb, x)         == Refer("load_balancer", x, lb, {"raise"})
AddLbg(lbg, x)         == Refer("load_balancer_group", x, lbg, {"log"})
SetGlobal(x)           == Insert(x, None, None, {"log"})

(* OVS transactions are executed with check_error; ovsdbapp's exceptions   *)
(* are no OvnTestExceptions.                                               *)
SetGlobalExternalId(x) == Insert(x, None, None, {"raise"})
AddPort(lp, w)         == Change("iface", lp, w, {"raise"})

(* The namespace, with its default route, is made in the node's shell,     *)
(* which logs a time-out and raises an SSHError when it does not open.     *)
Netns(lp)              == <<"netns", lp[2], lp[3]>>
BindVmPort(lp, gw)     == Insert(Netns(lp), None, gw, {"log", "measure"})
BindPort(lp, w, gw)    == <<AddPort(lp, w), BindVmPort(lp, gw)>>

-----------------------------------------------------------------------------
(* ovsdbapp cannot execute what refers to a missing row, nor add a port    *)
(* whose name is taken on another switch.                                  *)
Lost(x) == <<"lost", x, None, None>> \in logged

Refused(cmd) ==
  \/ \E x \in cmd.needs : ~Exists(x) \/ Lost(x)
  \/ /\ cmd.row[1] = "in"
     /\ \E r \in Rows : r[1] = "in" /\ r[2] = cmd.row[2] /\ r[3] # cmd.row[3]

(* Mutant: the row is not looked up first.                                 *)
EffectMutant(cmd) == Append(db, cmd.row)

(* may_exist: a row that an earlier attempt has made is found.             *)
Effect(cmd) ==
  IF "retry" \in cmd.fails /\ Exists(cmd.row[2]) THEN db
  ELSE Append(db, cmd.row)

Succeeds(cmd) ==
  /\ ~Refused(cmd)
  /\ db' = Effect(cmd)
  /\ UNCHANGED faults

Fails(cmd) ==
  \/ Refused(cmd) /\ UNCHANGED <<db, faults>>
  \/ /\ ~Refused(cmd) /\ faults < MaxFaults
     /\ faults' = faults + 1
     /\ db' \in {db, Effect(cmd)}

Advance == todo' = Tail(todo) /\ attempts' = 0 /\ UNCHANGED pc
Stop    == pc' = "dead" /\ UNCHANGED <<todo, attempts>>

(* Mutant: attempts are not counted.                                       *)
AttemptsMadeMutant == attempts

AttemptsMade == attempts + 1

Execute ==
  /\ pc = "busy" /\ todo # <<>>
  /\ LET cmd == Head(todo) IN
       \/ Succeeds(cmd) /\ Advance /\ UNCHANGED <<logged, measured>>
       \/ /\ Fails(cmd) /\ "log" \in cmd.fails
          /\ logged' = logged \cup {cmd.row}
          /\ Advance /\ UNCHANGED measured
       \/ /\ Fails(cmd) /\ "lose" \in cmd.fails
          /\ logged' = logged \cup {<<"lost", cmd.row[2], None, None>>}
          /\ Advance /\ UNCHANGED measured
       \/ /\ Fails(cmd) /\ "measure" \in cmd.fails
          /\ measured' = measured \cup {cmd.row}
          /\ Advance /\ UNCHANGED logged
       \/ /\ Fails(cmd) /\ "raise" \in cmd.fails
          /\ Stop /\ UNCHANGED <<logged, measured>>
       \/ /\ Fails(cmd) /\ "retry" \in cmd.fails
          /\ IF AttemptsMade = MaxRetry
             THEN Stop
             ELSE attempts' = AttemptsMade /\ UNCHANGED <<todo, pc>>
          /\ UNCHANGED <<logged, measured>>

ScriptInit ==
  /\ db = <<>> /\ todo = <<>> /\ attempts = 0
  /\ logged = {} /\ measured = {} /\ faults = 0
  /\ pc = "idle"

Begin(cmds) ==
  /\ pc = "idle"
  /\ todo' = cmds
  /\ pc' = "busy"
  /\ UNCHANGED <<db, attempts, logged, measured, faults>>

(* The operation has executed all its commands.                            *)
End ==
  /\ pc = "busy" /\ todo = <<>>
  /\ pc' = "idle"
  /\ UNCHANGED <<db, todo, attempts, logged, measured, faults>>

-----------------------------------------------------------------------------
ScriptTypeOK ==
  /\ attempts \in 0..(MaxRetry - 1)
  /\ faults \in 0..MaxFaults
  /\ \A k \in DOMAIN todo :
       todo[k].fails \subseteq {"retry", "log", "measure", "raise", "lose"}

(* What an object or a node has, unless the log or a measurement says that *)
(* the command failed.                                                     *)
Has(row) == row \in Rows \cup logged \cup measured

=============================================================================
