----------------------------- MODULE AddressPlan -----------------------------
(***************************************************************************)
(* Which workers, addresses and tasks a zone has.  An address is a number, *)
(* counted from the base of the network it is in.                          *)
(***************************************************************************)
EXTENDS Integers

CONSTANTS
  NCentral,     \* database servers of a zone: 3 if clustered, else 1
  NRelays,      \* config.n_relays
  NWorkers,     \* config.n_workers
  MaxAz,        \* the zones: config.n_az is in 1..MaxAz
  NetSize       \* addresses in each tenant network

ASSUME PlanAssumption ==
  /\ NCentral \in Nat \ {0} /\ NRelays \in Nat /\ NWorkers \in Nat
  /\ MaxAz \in Nat \ {0} /\ NetSize \in Nat

(***************************************************************************)
(* DualStackSubnet, of one family.  reverse() counts from the last address *)
(* and leaves it out.                                                      *)
(***************************************************************************)
Forward(net, k) == <<net[1], net[2], k>>
FromEnd(net, k) == <<net[1], net[2], NetSize - 1 - k>>
Gateway(net)    == FromEnd(net, 1)

(***************************************************************************)
(* The workers of a zone, of OVN-Kubernetes.                               *)
(***************************************************************************)
AzWorkers(n) == NWorkers \div n

(* Worker ids of a zone; those that n_az does not divide stay unused.      *)
WorkersOf(n, az) == (az * AzWorkers(n))..((az + 1) * AzWorkers(n) - 1)

(* distribute_n_tasks_per_clusters: what cluster i of n gets.              *)
Distribute(tasks, n, i) ==
  IF i < tasks % n THEN (tasks \div n) + 1 ELSE tasks \div n

=============================================================================
