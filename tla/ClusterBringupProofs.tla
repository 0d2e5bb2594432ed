-------------------------- MODULE ClusterBringupProofs --------------------------
(***************************************************************************)
(* Proofs about ClusterBringup: the verdicts on iterations, the addresses  *)
(* of the interfaces of the network, the paths behind the successes that   *)
(* the tester reports, and that the run is what the configuration asks     *)
(* for.                                                                    *)
(***************************************************************************)
EXTENDS ClusterBringup, SequenceTheorems, FiniteSetTheorems, NaturalsInduction,
        WellFoundedInduction, TLAPS

-----------------------------------------------------------------------------
(***************************************************************************)
(* Numbers in blocks, and the zones.                                       *)
(***************************************************************************)
(* Each zone has a block of k addresses; blocks of different zones are     *)
(* apart.                                                                  *)
LEMMA BlocksAreApart ==
  ASSUME NEW k \in Nat, NEW a \in Nat, NEW b \in Nat, a < b
  PROVE  a * k \in Nat /\ b * k \in Nat /\ a * k + k <= b * k
<1> DEFINE d == b - a - 1
<1>1. d \in Nat /\ b = a + 1 + d
  OBVIOUS
<1>2. d * k \in Nat /\ a * k \in Nat
  BY <1>1
<1>3. b * k = a * k + k + d * k
  BY <1>1
<1> QED  BY <1>1, <1>2, <1>3

(* The block and the place in it are those of the number.                  *)
LEMMA PlacesAreApart ==
  ASSUME NEW k \in Nat, NEW a \in Nat, NEW b \in Nat,
         NEW s \in 0..(k - 1), NEW t \in 0..(k - 1), a < b
  PROVE  2 + a * k + s # 2 + b * k + t
<1> DEFINE p == a * k
           q == b * k
<1>1. p \in Nat /\ q \in Nat /\ p + k <= q
  BY BlocksAreApart
<1> HIDE DEF p, q
<1>2. 2 + p + s # 2 + q + t
  BY <1>1
<1> QED  BY <1>2 DEF p, q

LEMMA PlacesAreUnique ==
  ASSUME NEW k \in Nat, NEW a \in Nat, NEW b \in Nat,
         NEW s \in 0..(k - 1), NEW t \in 0..(k - 1),
         2 + a * k + s = 2 + b * k + t
  PROVE  a = b /\ s = t
<1>1. ~(a < b) /\ ~(b < a)
  BY PlacesAreApart
<1>2. a = b
  BY <1>1
<1> DEFINE p == a * k
<1>3. p \in Nat /\ 2 + p + s = 2 + p + t
  BY <1>2
<1> HIDE DEF p
<1> QED  BY <1>2, <1>3

(* The zones of a run are as many throughout.                              *)
ZonesInv == n_az \in 1..MaxAz

LEMMA ZonesStay == Spec => []ZonesInv
<1>1. Init => ZonesInv
  BY DEF Init, ZonesInv
<1>2. ZonesInv /\ [Next]_vars => ZonesInv'
  BY DEF ZonesInv, Next, vars, where, Enter, Top, Iterate, StopIteration,
         Leave, Finish, Work, EndOfScript
<1> QED  BY <1>1, <1>2, PTL DEF Spec

-----------------------------------------------------------------------------
(***************************************************************************)
(* Verdicts on iterations.  Only the body of an iteration has commands     *)
(* that fail as a measurement: the scripts of the other stages are quiet.  *)
(***************************************************************************)
Quiet(s) == \E S : s \in Seq(S) /\ \A c \in S : "measure" \notin c.fails

LEMMA QuietTail ==
  ASSUME NEW s, Quiet(s), s # <<>>
  PROVE  Quiet(Tail(s)) /\ "measure" \notin Head(s).fails
<1>1. PICK S : s \in Seq(S) /\ \A c \in S : "measure" \notin c.fails
  BY DEF Quiet
<1>2. Head(s) \in S /\ Tail(s) \in Seq(S)
  BY <1>1, HeadTailProperties
<1> QED  BY <1>1, <1>2 DEF Quiet

LEMMA QuietConcat ==
  ASSUME NEW s, NEW t, Quiet(s), Quiet(t)
  PROVE  Quiet(s \o t)
<1>1. PICK S : s \in Seq(S) /\ \A c \in S : "measure" \notin c.fails
  BY DEF Quiet
<1>2. PICK T : t \in Seq(T) /\ \A c \in T : "measure" \notin c.fails
  BY DEF Quiet
<1> DEFINE U == S \cup T
<1>3. s \in Seq(U) /\ t \in Seq(U)
  BY <1>1, <1>2
<1>4. \A c \in U : "measure" \notin c.fails
  BY <1>1, <1>2
<1> HIDE DEF U
<1>5. s \o t \in Seq(U)
  BY <1>3, ConcatProperties
<1> QED  BY <1>4, <1>5 DEF Quiet

LEMMA QuietFunction ==
  ASSUME NEW k \in Nat, NEW S, NEW s \in [1..k -> S],
         \A c \in S : "measure" \notin c.fails
  PROVE  Quiet(s)
<1>1. s \in Seq(S)
  OBVIOUS
<1> QED  BY <1>1 DEF Quiet

LEMMA QuietFew ==
  /\ Quiet(<<>>)
  /\ \A c : "measure" \notin c.fails => Quiet(<<c>>)
<1>1. Quiet(<<>>)
  <2>1. <<>> \in [1..0 -> {}]
    OBVIOUS
  <2> QED  BY <2>1, QuietFunction
<1>2. ASSUME NEW c, "measure" \notin c.fails PROVE Quiet(<<c>>)
  <2> DEFINE S == {c}
  <2>1. <<c>> \in [1..1 -> S]
    OBVIOUS
  <2>2. \A d \in S : "measure" \notin d.fails
    BY <1>2
  <2> HIDE DEF S
  <2> QED  BY <2>1, <2>2, QuietFunction
<1> QED  BY <1>1, <1>2

LEMMA QuietScripts ==
  ASSUME ZonesInv, NEW c, NEW i
  PROVE  Quiet(External(c, i)) /\ Quiet(Closing(c))
           /\ Quiet(Sync(c) \o Following(c))
<1>0. n_az \in Nat \ {0} /\ AzWorkers(n_az) \in Nat
  BY PlanAssumption DEF ZonesInv, AzWorkers
<1>1. Quiet(External(c, i))
  BY QuietFew DEF External, Insert, Command
<1>2. Quiet(Closing(c))
  <2>1. Quiet(ProvisionLbGroup(Zone(c)))
    <3> DEFINE az == Zone(c)
               k == 2 * AzWorkers(n_az)
               Cmd(j) ==
                 LET w == FirstWorker(az) + ((j - 1) \div 2) IN
                   AddLbg(Lbg(az), IF j % 2 = 1 THEN Switch(w) ELSE GwRouter(w))
               S == {Cmd(j) : j \in 1..k}
               s == [j \in 1..k |-> Cmd(j)]
    <3>1. \A j : "measure" \notin Cmd(j).fails
      BY DEF AddLbg, Refer, Command
    <3> HIDE DEF Cmd
    <3>2. \A x \in S : "measure" \notin x.fails
      BY <3>1
    <3>3. s \in [1..k -> S]
      OBVIOUS
    <3>4. k \in Nat
      BY <1>0
    <3> HIDE DEF k, S
    <3>5. Quiet(s)
      BY <3>2, <3>3, <3>4, QuietFunction
    <3>6. Quiet(<<CreateLb(Lbg(az))>>)
      BY QuietFew DEF CreateLb, Insert, Command
    <3>7. Quiet(<<CreateLb(Lbg(az))>> \o s)
      BY <3>5, <3>6, QuietConcat
    <3> QED  BY <3>7 DEF ProvisionLbGroup, Cmd, k
  <2> QED  BY <2>1, QuietFew DEF Closing
<1>3. Quiet(Sync(c))
  <2> DEFINE S == {Sync(c)[j] : j \in 1..n_az}
  <2>1. Sync(c) \in [1..n_az -> S]
    BY DEF Sync
  <2>2. \A x \in S : "measure" \notin x.fails
    BY DEF Sync, Insert, Command
  <2> HIDE DEF S
  <2> QED  BY <1>0, <2>1, <2>2, QuietFunction
<1>4. Quiet(CreateTransitSwitch)
  BY QuietFew DEF CreateTransitSwitch, LsAdd, Insert, Command
<1>5. Quiet(CheckIcConnectivity)
  <2> DEFINE k == (n_az - 1) * AzWorkers(n_az)
             S == {CheckIcConnectivity[j] : j \in 1..k}
  <2>1. CheckIcConnectivity \in [1..k -> S]
    BY DEF CheckIcConnectivity
  <2>2. \A x \in S : "measure" \notin x.fails
    BY DEF CheckIcConnectivity, Command
  <2>3. k \in Nat
    BY <1>0
  <2> HIDE DEF S, k
  <2> QED  BY <2>1, <2>2, <2>3, QuietFunction
<1>6. ASSUME NEW what PROVE Quiet(PortGroups(what))
  <2> DEFINE S == {PortGroups(what)[j] : j \in 1..n_az}
  <2>1. PortGroups(what) \in [1..n_az -> S]
    BY DEF PortGroups
  <2>2. \A x \in S : "measure" \notin x.fails
    BY DEF PortGroups, PortGroupCreate, Insert, Command
  <2> HIDE DEF S
  <2> QED  BY <1>0, <2>1, <2>2, QuietFunction
<1>7. Quiet(NewNamespace)
  <2> DEFINE s == [j \in 1..n_az |-> AddressSetCreate(Of("as", j - 1))]
             S == {s[j] : j \in 1..n_az}
  <2>1. s \in [1..n_az -> S]
    OBVIOUS
  <2>2. \A x \in S : "measure" \notin x.fails
    BY DEF AddressSetCreate, Insert, Command
  <2> HIDE DEF S, s
  <2>3. Quiet(s)
    BY <1>0, <2>1, <2>2, QuietFunction
  <2>4. Quiet(PortGroups("pg_deny_igr") \o PortGroups("pg_deny_egr"))
    BY <1>6, QuietConcat
  <2>5. Quiet(PortGroups("pg_deny_igr") \o PortGroups("pg_deny_egr")
                \o PortGroups("pg"))
    BY <1>6, <2>4, QuietConcat
  <2>6. Quiet(PortGroups("pg_deny_igr") \o PortGroups("pg_deny_egr")
                \o PortGroups("pg") \o s)
    BY <2>3, <2>5, QuietConcat
  <2> QED  BY <2>6 DEF NewNamespace, s
<1>8. Quiet(CheckIcConnectivity \o NewNamespace)
  BY <1>5, <1>7, QuietConcat
<1>9. Quiet(Following(c))
  BY <1>4, <1>8, QuietFew DEF Following
<1> QED  BY <1>1, <1>2, <1>3, <1>9, QuietConcat

(* What a command leaves to do, and when it is a failed measurement.       *)
LEMMA WorkLeaves ==
  ASSUME Work
  PROVE  /\ todo # <<>>
         /\ todo' = todo \/ todo' = Tail(todo)
         /\ "measure" \notin Head(todo).fails => UNCHANGED stats
         /\ UNCHANGED stats \/ AddFailure
<1>1. CASE Execute
  BY <1>1 DEF Work, Execute, Advance, Stop
<1>2. CASE PingTimesOut
  BY <1>2 DEF Work, PingTimesOut, Advance, Stop
<1> QED  BY <1>1, <1>2 DEF Work

(***************************************************************************)
(* The verdicts so far are right, the failures are of iterations that have *)
(* begun, and the context has failed exactly if its current iteration has. *)
(***************************************************************************)
VerdictInv ==
  /\ stage \in {"enter", "top", "advance", "leave"}
  /\ context = [name |-> context.name, max |-> context.max,
                iteration |-> context.iteration,
                started |-> context.started, failed |-> context.failed]
  /\ context.iteration \in Int
  /\ context.started \in BOOLEAN /\ context.failed \in BOOLEAN
  /\ VerdictsMatch
  /\ \A f \in failures : f \in Int /\ f <= context.iteration
  /\ \A t \in totals : t[1] \in Int /\ t[1] <= context.iteration
  /\ ~context.started => totals = {}
  /\ stage = "top" =>
       /\ \A t \in totals : t[1] < context.iteration
       /\ context.started =>
            context.failed = (context.iteration \in failures)
  /\ stage = "advance" => context.started /\ ~context.failed
  /\ context.started /\ stage \in {"advance", "leave", "enter"} => Quiet(todo)

LEMMA VerdictInit == Init => VerdictInv
BY DEF Init, ContextInit, NewContext, Before, VerdictInv, VerdictsMatch

LEMMA VerdictStep == ZonesInv /\ VerdictInv /\ [Next]_vars => VerdictInv'
<1> SUFFICES ASSUME ZonesInv, VerdictInv, [Next]_vars PROVE VerdictInv'
  OBVIOUS
<1>1. CASE Enter
  <2>1. /\ context' = NewContext(Name(at), Iterations(at))
        /\ failures' = {} /\ totals' = {} /\ stage' \in {"leave", "top"}
    BY <1>1 DEF Enter, EnterContext
  <2> QED
    BY <2>1 DEF NewContext, Before, VerdictInv, VerdictsMatch
<1>2. CASE Top
  <2>1. Quiet(todo')
    BY <1>2, QuietScripts DEF Top, Begin
  <2>2. /\ stage = "top" /\ stage' = "advance"
        /\ context' = [context EXCEPT !.started = TRUE, !.failed = FALSE]
        /\ totals' = IF context.started
                     THEN totals \cup {<<context.iteration, context.failed>>}
                     ELSE totals
        /\ failures' = failures
    BY <1>2 DEF Top, Conclude
  <2>3. VerdictsMatch'
    BY <2>2 DEF VerdictInv, VerdictsMatch
  <2>4. /\ context' = [name |-> context.name, max |-> context.max,
                       iteration |-> context.iteration,
                       started |-> TRUE, failed |-> FALSE]
        /\ context.iteration \in Int
    BY <2>2 DEF VerdictInv
  <2>5. \A t \in totals' : t[1] \in Int /\ t[1] <= context.iteration
    BY <2>2 DEF VerdictInv
  <2>6. \A f \in failures' : f \in Int /\ f <= context.iteration
    BY <2>2 DEF VerdictInv
  <2> QED  BY <2>1, <2>2, <2>3, <2>4, <2>5, <2>6 DEF VerdictInv
<1>3. CASE Iterate
  <2>1. /\ stage = "advance" /\ stage' = "top"
        /\ context' = [context EXCEPT !.iteration = @ + 1]
        /\ failures' = failures /\ totals' = totals
    BY <1>3 DEF Iterate, NextIteration
  <2>2. VerdictsMatch'
    BY <2>1 DEF VerdictInv, VerdictsMatch
  <2> QED  BY <2>1, <2>2 DEF VerdictInv
<1>4. CASE StopIteration
  <2>1. Quiet(todo')
    BY <1>4, QuietScripts DEF StopIteration, Begin
  <2>2. stage' = "leave" /\ UNCHANGED stats
    BY <1>4 DEF StopIteration
  <2> QED  BY <2>1, <2>2 DEF VerdictInv, VerdictsMatch, stats
<1>5. CASE Leave
  <2>1. Quiet(todo')
    BY <1>5, QuietScripts DEF Leave, Begin
  <2>2. stage' = "enter" /\ UNCHANGED stats
    BY <1>5 DEF Leave
  <2> QED  BY <2>1, <2>2 DEF VerdictInv, VerdictsMatch, stats
<1>6. CASE Work
  <2>1. UNCHANGED where
    BY <1>6 DEF Work
  <2>2. Quiet(todo) => Quiet(todo') /\ UNCHANGED stats
    BY <1>6, WorkLeaves, QuietTail
  <2>3. CASE UNCHANGED stats
    BY <2>1, <2>2, <2>3 DEF VerdictInv, VerdictsMatch, stats, where
  <2>4. CASE AddFailure /\ ~Quiet(todo)
    <3>1. /\ context' = [context EXCEPT !.failed = TRUE]
          /\ failures' = failures \cup {context.iteration}
          /\ totals' = totals /\ stage' = stage
      BY <2>1, <2>4 DEF AddFailure, where
    <3>2. context.started => stage \notin {"advance", "leave", "enter"}
      BY <2>4 DEF VerdictInv
    <3>3. stage \in {"enter", "top", "advance", "leave"}
      BY DEF VerdictInv
    <3>4. \A t \in totals : t[1] # context.iteration
      BY <3>2, <3>3 DEF VerdictInv
    <3>5. VerdictsMatch'
      BY <3>1, <3>4 DEF VerdictInv, VerdictsMatch
    <3>6. /\ context' = [name |-> context.name, max |-> context.max,
                         iteration |-> context.iteration,
                         started |-> context.started, failed |-> TRUE]
          /\ context.iteration \in Int /\ context.started \in BOOLEAN
      BY <3>1 DEF VerdictInv
    <3>7. \A t \in totals' : /\ t[1] \in Int /\ t[1] <= context.iteration
                            /\ stage = "top" => t[1] < context.iteration
      BY <3>1 DEF VerdictInv
    <3>8. /\ context.iteration \in failures'
          /\ \A f \in failures' : f \in Int /\ f <= context.iteration
      BY <3>1, <3>6 DEF VerdictInv
    <3>9. /\ ~context.started => totals' = {}
          /\ stage # "advance"
          /\ context.started => stage = "top"
      BY <3>1, <3>2, <3>3 DEF VerdictInv
    <3> QED  BY <3>1, <3>3, <3>5, <3>6, <3>7, <3>8, <3>9 DEF VerdictInv
  <2> QED  BY <1>6, <2>2, <2>3, <2>4, WorkLeaves
<1>7. CASE Finish
  BY <1>7 DEF Finish, VerdictInv, VerdictsMatch, stats, where
<1>8. CASE EndOfScript
  BY <1>8 DEF EndOfScript, End, VerdictInv, VerdictsMatch, stats, where
<1>9. CASE UNCHANGED vars
  BY <1>9 DEF vars, script, VerdictInv, VerdictsMatch, stats, where
<1> QED  BY <1>1, <1>2, <1>3, <1>4, <1>5, <1>6, <1>7, <1>8, <1>9 DEF Next

(* For any number of zones, workers and pods, and however often commands   *)
(* fail: an iteration is reported as failed exactly if a measurement made  *)
(* in it failed.                                                           *)
THEOREM VerdictsAreRight == Spec => []VerdictsMatch
<1>1. VerdictInv => VerdictsMatch
  BY DEF VerdictInv
<1> QED  BY <1>1, VerdictInit, VerdictStep, ZonesStay, PTL DEF Spec

-----------------------------------------------------------------------------
(***************************************************************************)
(* Scripts as lists of commands: which commands are in a script that is    *)
(* put together from others.                                               *)
(***************************************************************************)
IsList(s) == s \in Seq(Range(s))

LEMMA ListOf ==
  ASSUME NEW C, NEW s \in Seq(C)
  PROVE  IsList(s) /\ Range(s) \subseteq C
BY RangeOfSeq, SeqOfRange DEF IsList

LEMMA ListConcat ==
  ASSUME NEW s, NEW t, IsList(s), IsList(t)
  PROVE  IsList(s \o t) /\ Range(s \o t) = Range(s) \cup Range(t)
<1> DEFINE E == Range(s) \cup Range(t)
<1>1. s \in Seq(E) /\ t \in Seq(E)
  BY DEF IsList
<1> HIDE DEF E
<1>2. s \o t \in Seq(E)
  BY <1>1, ConcatProperties
<1>3. Range(s \o t) = Range(s) \cup Range(t)
  BY <1>1, RangeConcatenation
<1> QED  BY <1>2, <1>3, ListOf

LEMMA ListTail ==
  ASSUME NEW s, IsList(s), s # <<>>
  PROVE  /\ IsList(Tail(s)) /\ Range(Tail(s)) \subseteq Range(s)
         /\ Head(s) \in Range(s)
<1> DEFINE E == Range(s)
<1>1. s \in Seq(E)
  BY DEF IsList
<1> HIDE DEF E
<1>2. Tail(s) \in Seq(E) /\ Head(s) \in E
  BY <1>1, HeadTailProperties
<1> QED  BY <1>2, ListOf DEF E

LEMMA ListAppend ==
  ASSUME NEW s, NEW e, IsList(s)
  PROVE  IsList(Append(s, e)) /\ Range(Append(s, e)) = Range(s) \cup {e}
<1> DEFINE E == Range(s) \cup {e}
<1>1. s \in Seq(E) /\ <<e>> \in Seq(E) /\ e \in E
  BY DEF IsList
<1> HIDE DEF E
<1>2. Append(s, e) \in Seq(E) /\ Append(s, e) = s \o <<e>>
  BY <1>1, AppendProperties, AppendIsConcat
<1>3. Range(Append(s, e)) = Range(s) \cup Range(<<e>>)
  <2> DEFINE t == <<e>>
  <2>1. t \in Seq(E) /\ Append(s, e) = s \o t
    BY <1>1, <1>2
  <2> HIDE DEF t
  <2>2. Range(s \o t) = Range(s) \cup Range(t)
    BY <1>1, <2>1, RangeConcatenation
  <2> QED  BY <2>1, <2>2 DEF t
<1>4. Range(<<e>>) = {e}
  BY DEF Range
<1> QED  BY <1>2, <1>3, <1>4, ListOf

LEMMA ListFunction ==
  ASSUME NEW k \in Int, NEW s, s = [i \in 1..k |-> s[i]]
  PROVE  IsList(s) /\ Range(s) = {s[i] : i \in 1..k}
<1>1. DOMAIN s = 1..k
  OBVIOUS
<1>2. Range(s) = {s[i] : i \in 1..k}
  BY <1>1 DEF Range
<1>3. CASE k \in Nat
  BY <1>2, <1>3 DEF IsList
<1>4. CASE k \notin Nat
  <2>1. 1..k = 1..0
    BY <1>4
  <2>2. s \in [1..0 -> Range(s)]
    BY <1>2, <2>1
  <2> QED  BY <1>2, <2>2 DEF IsList
<1> QED  BY <1>3, <1>4

LEMMA ListFew ==
  /\ IsList(<<>>) /\ Range(<<>>) = {}
  /\ \A a : IsList(<<a>>) /\ Range(<<a>>) = {a}
  /\ \A a, b : IsList(<<a, b>>) /\ Range(<<a, b>>) = {a, b}
  /\ \A a, b, c : IsList(<<a, b, c>>) /\ Range(<<a, b, c>>) = {a, b, c}
  /\ \A a, b, c, d :
       IsList(<<a, b, c, d>>) /\ Range(<<a, b, c, d>>) = {a, b, c, d}
  /\ \A a, b, c, d, e :
       IsList(<<a, b, c, d, e>>) /\ Range(<<a, b, c, d, e>>) = {a, b, c, d, e}
  /\ \A a, b, c, d, e, f :
       /\ IsList(<<a, b, c, d, e, f>>)
       /\ Range(<<a, b, c, d, e, f>>) = {a, b, c, d, e, f}
<1>0. IsList(<<>>) /\ Range(<<>>) = {}
  <2>1. <<>> \in Seq({})
    OBVIOUS
  <2>2. DOMAIN <<>> = {}
    OBVIOUS
  <2>3. Range(<<>>) = {}
    BY <2>2 DEF Range
  <2> QED  BY <2>1, <2>3 DEF IsList
<1>1. ASSUME NEW a PROVE IsList(<<a>>) /\ Range(<<a>>) = {a}
  <2>1. <<a>> \in Seq({a}) /\ Range(<<a>>) = {a}
    BY DEF Range
  <2> QED  BY <2>1 DEF IsList
<1>2. ASSUME NEW a, NEW b PROVE IsList(<<a, b>>) /\ Range(<<a, b>>) = {a, b}
  <2>1. <<a, b>> \in Seq({a, b}) /\ Range(<<a, b>>) = {a, b}
    BY DEF Range
  <2> QED  BY <2>1 DEF IsList
<1>3. ASSUME NEW a, NEW b, NEW c
      PROVE  IsList(<<a, b, c>>) /\ Range(<<a, b, c>>) = {a, b, c}
  <2>1. <<a, b, c>> \in Seq({a, b, c}) /\ Range(<<a, b, c>>) = {a, b, c}
    BY DEF Range
  <2> QED  BY <2>1 DEF IsList
<1>4. ASSUME NEW a, NEW b, NEW c, NEW d
      PROVE  IsList(<<a, b, c, d>>) /\ Range(<<a, b, c, d>>) = {a, b, c, d}
  <2>1. DOMAIN <<a, b, c, d>> = {1, 2, 3, 4}
    OBVIOUS
  <2>2. Range(<<a, b, c, d>>) = {a, b, c, d}
    BY <2>1 DEF Range
  <2>3. <<a, b, c, d>> \in Seq({a, b, c, d})
    OBVIOUS
  <2> QED  BY <2>2, <2>3 DEF IsList
<1>5. ASSUME NEW a, NEW b, NEW c, NEW d, NEW e
      PROVE  /\ IsList(<<a, b, c, d, e>>)
             /\ Range(<<a, b, c, d, e>>) = {a, b, c, d, e}
  <2>1. DOMAIN <<a, b, c, d, e>> = {1, 2, 3, 4, 5}
    OBVIOUS
  <2>2. Range(<<a, b, c, d, e>>) = {a, b, c, d, e}
    BY <2>1 DEF Range
  <2>3. <<a, b, c, d, e>> \in Seq({a, b, c, d, e})
    OBVIOUS
  <2> QED  BY <2>2, <2>3 DEF IsList
<1>6. ASSUME NEW a, NEW b, NEW c, NEW d, NEW e, NEW f
      PROVE  /\ IsList(<<a, b, c, d, e, f>>)
             /\ Range(<<a, b, c, d, e, f>>) = {a, b, c, d, e, f}
  <2>1. DOMAIN <<a, b, c, d, e, f>> = {1, 2, 3, 4, 5, 6}
    OBVIOUS
  <2>2. Range(<<a, b, c, d, e, f>>) = {a, b, c, d, e, f}
    BY <2>1 DEF Range
  <2>3. <<a, b, c, d, e, f>> \in Seq({a, b, c, d, e, f})
    OBVIOUS
  <2> QED  BY <2>2, <2>3 DEF IsList
<1> QED  BY <1>0, <1>1, <1>2, <1>3, <1>4, <1>5, <1>6

(* A set of numbers has a least.                                           *)
LEMMA LeastOf ==
  ASSUME NEW S, S \subseteq Nat, S # {}
  PROVE  \E x \in S : \A y \in S : x <= y
<1>1. PICK x \in S : \A y \in S : ~(<<y, x>> \in OpToRel(<, Nat))
  BY NatLessThanWellFounded, WFMin
<1>2. ASSUME NEW y \in S PROVE x <= y
  <2>1. <<y, x>> \in Nat \X Nat /\ x \in Nat /\ y \in Nat
    OBVIOUS
  <2>2. ~(y < x)
    BY <1>1, <2>1 DEF OpToRel
  <2> QED  BY <2>1, <2>2
<1> QED  BY <1>2

(***************************************************************************)
(* FlattenSeq is a recursive function, so there has to be one that         *)
(* satisfies its equation: the least length for which there is none would  *)
(* have one, an extension of that for the length before.                   *)
(***************************************************************************)
LEMMA FlattenDefined ==
  ASSUME NEW n \in Nat \ {0}, NEW f
  PROVE  \E g : g = [i \in 1..n |->
                       IF i = 1 THEN f[i] ELSE g[i - 1] \o f[i]]
<1> DEFINE P(m) == \E g : g = [i \in 1..m |->
                                 IF i = 1 THEN f[i] ELSE g[i - 1] \o f[i]]
           Bad == {m \in Nat \ {0} : ~P(m)}
<1> SUFFICES ASSUME Bad # {} PROVE FALSE
  BY DEF Bad
<1>1. PICK m \in Bad : \A y \in Bad : m <= y
  BY LeastOf
<1>2. CASE m = 1
  <2> DEFINE g == [i \in 1..1 |-> f[i]]
  <2>1. g = [i \in 1..1 |-> IF i = 1 THEN f[i] ELSE g[i - 1] \o f[i]]
    OBVIOUS
  <2>2. P(1)
    BY <2>1
  <2> QED  BY <1>2, <2>2
<1>3. CASE m # 1
  <2>1. m - 1 \in Nat \ {0} /\ m - 1 \notin Bad /\ m \in Nat
    <3>1. m \in Nat \ {0} /\ m - 1 \in Nat \ {0}
      BY <1>1, <1>3
    <3>2. ~(m <= m - 1)
      BY <3>1
    <3> HIDE DEF Bad
    <3> QED  BY <1>1, <3>1, <3>2
  <2>2. P(m - 1)
    BY <2>1
  <2>3. PICK h : h = [i \in 1..(m - 1) |->
                        IF i = 1 THEN f[i] ELSE h[i - 1] \o f[i]]
    BY <2>2
  <2> DEFINE g == [i \in 1..m |-> IF i = 1 THEN f[i] ELSE h[i - 1] \o f[i]]
  <2>4. ASSUME NEW i \in 1..m, i # 1
        PROVE  g[i - 1] = h[i - 1]
    <3>1. i - 1 \in 1..(m - 1) /\ i - 1 \in 1..m
      BY <2>1, <2>4
    <3>2. g[i - 1] = IF i - 1 = 1 THEN f[i - 1]
                     ELSE h[(i - 1) - 1] \o f[i - 1]
      BY <3>1
    <3>3. h[i - 1] = IF i - 1 = 1 THEN f[i - 1]
                     ELSE h[(i - 1) - 1] \o f[i - 1]
      BY <2>3, <3>1
    <3> QED  BY <3>2, <3>3
  <2>5. g = [i \in 1..m |-> IF i = 1 THEN f[i] ELSE g[i - 1] \o f[i]]
    BY <2>4
  <2>6. P(m)
    BY <2>5
  <2> QED  BY <2>6
<1> QED  BY <1>2, <1>3

LEMMA ListFlatten ==
  ASSUME NEW n \in Nat, NEW f, f = [i \in 1..n |-> f[i]],
         \A i \in 1..n : IsList(f[i])
  PROVE  /\ IsList(FlattenSeq(f))
         /\ Range(FlattenSeq(f)) = UNION {Range(f[i]) : i \in 1..n}
<1> DEFINE U(m) == UNION {Range(f[j]) : j \in 1..m}
           Is(s, m) == IsList(s) /\ Range(s) = U(m)
<1>1. Len(f) = n
  OBVIOUS
<1>2. CASE n = 0
  <2>1. FlattenSeq(f) = f
    BY <1>1, <1>2 DEF FlattenSeq
  <2>2. IsList(f) /\ Range(f) = {f[i] : i \in 1..n}
    BY ListFunction
  <2>3. {Range(f[i]) : i \in 1..n} = {} /\ {f[i] : i \in 1..n} = {}
    BY <1>2
  <2> QED  BY <2>1, <2>2, <2>3
<1>3. CASE n # 0
  <2> DEFINE G == CHOOSE g : g = [i \in 1..n |->
                                  IF i = 1 THEN f[i] ELSE g[i - 1] \o f[i]]
  <2>1. FlattenSeq(f) = G[n]
    BY <1>1, <1>3, Zenon DEF FlattenSeq
  <2>2. G = [i \in 1..n |-> IF i = 1 THEN f[i] ELSE G[i - 1] \o f[i]]
    <3>1. n \in Nat \ {0}
      BY <1>3
    <3>2. \E g : g = [i \in 1..n |->
                        IF i = 1 THEN f[i] ELSE g[i - 1] \o f[i]]
      BY ONLY <3>1, FlattenDefined, Zenon
    <3> QED  BY <3>2, Zenon
  <2> HIDE DEF G
  <2> DEFINE Bad == {m \in 1..n : ~Is(G[m], m)}
  <2>3. ASSUME Bad # {} PROVE FALSE
    <3>0. Bad \subseteq Nat
      OBVIOUS
    <3>1. PICK m \in Bad : \A y \in Bad : m <= y
      <4> HIDE DEF Bad
      <4> QED  BY <2>3, <3>0, LeastOf
    <3>2. CASE m = 1
      <4>1. G[m] = f[1] /\ U(m) = Range(f[1])
        BY <2>2, <3>2
      <4>2. IsList(f[1])
        BY <3>2
      <4> QED  BY <4>1, <4>2
    <3>3. CASE m # 1
      <4>1. m - 1 \in 1..n /\ m - 1 \notin Bad /\ m \in 1..n
        <5>1. m \in 1..n /\ m - 1 \in 1..n
          BY <3>1, <3>3
        <5>2. ~(m <= m - 1)
          BY <5>1
        <5> HIDE DEF Bad
        <5> QED  BY <3>1, <5>1, <5>2
      <4>2. IsList(G[m - 1]) /\ Range(G[m - 1]) = U(m - 1) /\ IsList(f[m])
        BY <4>1
      <4>3. G[m] = G[m - 1] \o f[m]
        BY <2>2, <3>3, <4>1
      <4>4. U(m) = U(m - 1) \cup Range(f[m])
        <5>1. 1..m = 1..(m - 1) \cup {m}
          BY <4>1
        <5> QED  BY <5>1
      <4> HIDE DEF U
      <4>5. IsList(G[m]) /\ Range(G[m]) = U(m)
        BY <4>2, <4>3, <4>4, ListConcat
      <4> QED  BY <4>5
    <3> QED  BY <3>2, <3>3
  <2>4. Is(G[n], n)
    <3>1. n \in 1..n
      BY <1>3
    <3>2. n \notin Bad
      BY <2>3
    <3> QED  BY <3>1, <3>2
  <2> QED  BY <2>1, <2>4
<1> QED  BY <1>2, <1>3

(***************************************************************************)
(* The commands of the scripts.                                            *)
(***************************************************************************)
LEMMA Division ==
  ASSUME NEW a \in Nat, NEW n \in Nat \ {0}
  PROVE  /\ a \div n \in Nat /\ a % n \in 0..(n - 1)
         /\ a = (n * (a \div n)) + (a % n)
<1>1. a % n \in 0..(n - 1) /\ a \div n \in Int
  OBVIOUS
<1>2. a = (n * (a \div n)) + (a % n)
  OBVIOUS
<1> DEFINE q == a \div n
           r == a % n
<1>3. q \in Int /\ r \in 0..(n - 1) /\ a = (n * q) + r
  BY <1>1, <1>2
<1> HIDE DEF q, r
<1>4. q >= 0
  <2> SUFFICES ASSUME q <= -1 PROVE FALSE
    BY <1>3
  <2>1. n * (q + 1) <= 0 /\ n * (q + 1) = (n * q) + n
    BY <1>3
  <2> QED  BY <1>3, <2>1
<1> QED  BY <1>1, <1>2, <1>4 DEF q

LEMMA BlockOf ==
  ASSUME NEW k \in Nat \ {0}, NEW a \in Nat, NEW i \in 0..(k - 1)
  PROVE  (a * k + i) \div k = a
<1> DEFINE b == a * k + i
           q == b \div k
           r == b % k
<1>1. b \in Nat /\ b = a * k + i
  OBVIOUS
<1> HIDE DEF b
<1>2. q \in Nat /\ r \in 0..(k - 1) /\ b = (k * q) + r
  BY <1>1, Division
<1> HIDE DEF q, r
<1>3. a * k + i = q * k + r
  BY <1>1, <1>2
<1>4. 2 + a * k + i = 2 + q * k + r
  BY <1>2, <1>3
<1>5. a = q
  BY <1>2, <1>4, PlacesAreUnique
<1> QED  BY <1>5 DEF q, b

LEMMA PlanFacts ==
  ASSUME ZonesInv
  PROVE  /\ n_az \in Nat \ {0} /\ AzWorkers(n_az) \in Nat \ {0}
         /\ NWorkers \in Nat /\ n_az * AzWorkers(n_az) <= NWorkers
<1> DEFINE q == NWorkers \div n_az
<1>1. n_az \in Nat \ {0} /\ n_az <= NWorkers /\ NWorkers \in Nat
  BY PlanAssumption, BringupAssumption DEF ZonesInv
<1>2. /\ q \in Nat /\ n_az * q <= NWorkers /\ NWorkers < (n_az * q) + n_az
  BY <1>1, Division
<1> HIDE DEF q
<1>3. q # 0
  <2> SUFFICES ASSUME q = 0 PROVE FALSE
    OBVIOUS
  <2> QED  BY <1>1, <1>2
<1> QED  BY <1>1, <1>2, <1>3 DEF AzWorkers, q

(* The workers of a zone are workers, and it is their zone.                *)
LEMMA WorkersOfZone ==
  ASSUME ZonesInv, NEW az \in Zones, NEW i \in 0..(AzWorkers(n_az) - 1)
  PROVE  /\ FirstWorker(az) + i \in AllWorkers
         /\ ZoneOf(FirstWorker(az) + i) = az
<1> DEFINE k == AzWorkers(n_az)
           b == az * k
<1>1. k \in Nat \ {0} /\ n_az \in Nat \ {0} /\ NWorkers \in Nat
      /\ n_az * k <= NWorkers /\ az \in 0..(n_az - 1) /\ i \in 0..(k - 1)
  BY PlanFacts DEF Zones
<1> HIDE DEF k
<1>2. /\ b \in Nat /\ b + k = (az + 1) * k
  BY <1>1
<1>3. (az + 1) * k <= n_az * k
  <2>1. az + 1 \in Nat /\ az + 1 <= n_az
    BY <1>1
  <2> QED  BY <1>1, <2>1
<1>4. b + i \in 0..(NWorkers - 1)
  BY <1>1, <1>2, <1>3
<1>5. (b + i) \div k = az
  <2>1. (az * k + i) \div k = az
    BY <1>1, BlockOf
  <2> QED  BY <1>1, <2>1
<1> QED  BY <1>1, <1>4, <1>5 DEF FirstWorker, AllWorkers, ZoneOf, k

LEMMA PrepareCommands ==
  ASSUME ZonesInv, NEW az
  PROVE  /\ IsList(PrepareTest(az))
         /\ Range(PrepareTest(az)) =
              Range(SetRaftElectionTimeout(az)) \cup Range(StartCentral(az))
              \cup {SetGlobal(Of("ic-route-learn", az)),
                    SetGlobal(Of("ic-route-adv", az))}
              \cup Range(StartRelay(az))
              \cup (UNION {Range(Configure(FirstWorker(az) + i - 1)) :
                             i \in 1..AzWorkers(n_az)})
              \cup {SetGlobal(Of("options", az)), SetGlobal(Of("name", az)),
                    SetGlobal(Of("inactivity_probe", az))}
<1>0. /\ n_az \in Nat \ {0} /\ AzWorkers(n_az) \in Nat
      /\ NCentral \in Nat /\ NRelays \in Nat /\ RaftElectionTo \in Nat
  BY PlanFacts, PlanAssumption, BringupAssumption
<1> DEFINE a == SetRaftElectionTimeout(az)
           b == StartCentral(az)
           c == <<SetGlobal(Of("ic-route-learn", az)),
                  SetGlobal(Of("ic-route-adv", az))>>
           d == StartRelay(az)
           f == [i \in 1..AzWorkers(n_az) |-> Configure(FirstWorker(az) + i - 1)]
           g == <<SetGlobal(Of("options", az)), SetGlobal(Of("name", az)),
                  SetGlobal(Of("inactivity_probe", az))>>
<1>1. IsList(a)
  <2>1. CASE NCentral = 1
    BY <2>1, ListFew DEF SetRaftElectionTimeout
  <2>2. CASE NCentral # 1
    <3>1. (RaftElectionTo - 1) * NCentral \in Int
      BY <1>0
    <3>2. a = [k \in 1..((RaftElectionTo - 1) * NCentral) |-> a[k]]
      BY <2>2 DEF SetRaftElectionTimeout
    <3> HIDE DEF a
    <3> QED  BY <3>1, <3>2, ListFunction
  <2> QED  BY <2>1, <2>2
<1>2. IsList(b)
  <2>1. b = [k \in 1..NCentral |-> b[k]]
    BY DEF StartCentral
  <2> HIDE DEF b
  <2> QED  BY <1>0, <2>1, ListFunction
<1>3. IsList(d)
  <2>1. d = [k \in 1..NRelays |-> d[k]]
    BY DEF StartRelay
  <2> HIDE DEF d
  <2> QED  BY <1>0, <2>1, ListFunction
<1>4. /\ IsList(c) /\ Range(c) = {SetGlobal(Of("ic-route-learn", az)),
                                  SetGlobal(Of("ic-route-adv", az))}
  <2> DEFINE x == SetGlobal(Of("ic-route-learn", az))
             y == SetGlobal(Of("ic-route-adv", az))
  <2>1. IsList(<<x, y>>) /\ Range(<<x, y>>) = {x, y}
    <3> HIDE DEF x, y
    <3> QED  BY ListFew
  <2> QED  BY <2>1
<1>45. /\ IsList(g)
       /\ Range(g) = {SetGlobal(Of("options", az)), SetGlobal(Of("name", az)),
                      SetGlobal(Of("inactivity_probe", az))}
  <2> DEFINE x == SetGlobal(Of("options", az))
             y == SetGlobal(Of("name", az))
             z == SetGlobal(Of("inactivity_probe", az))
  <2>1. IsList(<<x, y, z>>) /\ Range(<<x, y, z>>) = {x, y, z}
    <3> HIDE DEF x, y, z
    <3> QED  BY ListFew
  <2> QED  BY <2>1
<1>5. /\ IsList(FlattenSeq(f))
      /\ Range(FlattenSeq(f)) =
           UNION {Range(Configure(FirstWorker(az) + i - 1)) :
                    i \in 1..AzWorkers(n_az)}
  <2>1. f = [i \in 1..AzWorkers(n_az) |-> f[i]]
    OBVIOUS
  <2>2. \A i \in 1..AzWorkers(n_az) :
          IsList(f[i]) /\ f[i] = Configure(FirstWorker(az) + i - 1)
    BY ListFew DEF Configure
  <2> HIDE DEF f
  <2>3. /\ IsList(FlattenSeq(f))
        /\ Range(FlattenSeq(f)) =
             UNION {Range(f[i]) : i \in 1..AzWorkers(n_az)}
    BY <1>0, <2>1, <2>2, ListFlatten
  <2>4. {Range(f[i]) : i \in 1..AzWorkers(n_az)} =
          {Range(Configure(FirstWorker(az) + i - 1)) : i \in 1..AzWorkers(n_az)}
    BY <2>2
  <2> QED  BY <2>3, <2>4
<1>6. PrepareTest(az) = a \o b \o c \o d \o FlattenSeq(f) \o g
  BY DEF PrepareTest
<1> DEFINE h == FlattenSeq(f)
<1>7. IsList(h) /\ Range(h) =
           UNION {Range(Configure(FirstWorker(az) + i - 1)) :
                    i \in 1..AzWorkers(n_az)}
      /\ PrepareTest(az) = a \o b \o c \o d \o h \o g
  BY <1>5, <1>6
<1> HIDE DEF a, b, c, d, f, g, h
<1>8. IsList(a \o b) /\ Range(a \o b) = Range(a) \cup Range(b)
  BY <1>1, <1>2, ListConcat
<1>9. /\ IsList(a \o b \o c)
      /\ Range(a \o b \o c) = Range(a) \cup Range(b) \cup Range(c)
  BY <1>4, <1>8, ListConcat
<1>10. /\ IsList(a \o b \o c \o d)
       /\ Range(a \o b \o c \o d) =
            Range(a) \cup Range(b) \cup Range(c) \cup Range(d)
  BY <1>3, <1>9, ListConcat
<1>11. /\ IsList(a \o b \o c \o d \o h)
       /\ Range(a \o b \o c \o d \o h) =
            Range(a) \cup Range(b) \cup Range(c) \cup Range(d) \cup Range(h)
  BY <1>7, <1>10, ListConcat
<1>12. /\ IsList(a \o b \o c \o d \o h \o g)
       /\ Range(a \o b \o c \o d \o h \o g) =
            Range(a) \cup Range(b) \cup Range(c) \cup Range(d) \cup Range(h)
              \cup Range(g)
  BY <1>45, <1>11, ListConcat
<1> QED  BY <1>4, <1>45, <1>7, <1>12 DEF a, b, d

LEMMA ProvisionCommands ==
  ASSUME NEW w
  PROVE  /\ IsList(Provision(w))
         /\ Range(Provision(w)) =
              Range(ConnectAndWait(w)) \cup Range(NodeSwitch(w))
              \cup Range(NodeGateway(w)) \cup Range(NodeExternal(w))
              \cup Range(NodeRoutes(w))
<1> DEFINE a == ConnectAndWait(w)
           b == NodeSwitch(w)
           c == NodeGateway(w)
           d == NodeExternal(w)
           e == NodeRoutes(w)
<1>1. IsList(a) /\ IsList(b) /\ IsList(c) /\ IsList(d) /\ IsList(e)
  BY ListFew DEF ConnectAndWait, NodeSwitch, NodeGateway, NodeExternal,
                 NodeRoutes
<1>2. Provision(w) = a \o b \o c \o d \o e
  BY DEF Provision
<1> HIDE DEF a, b, c, d, e
<1>3. IsList(a \o b) /\ Range(a \o b) = Range(a) \cup Range(b)
  BY <1>1, ListConcat
<1>4. /\ IsList(a \o b \o c)
      /\ Range(a \o b \o c) = Range(a) \cup Range(b) \cup Range(c)
  BY <1>1, <1>3, ListConcat
<1>5. /\ IsList(a \o b \o c \o d)
      /\ Range(a \o b \o c \o d) =
           Range(a) \cup Range(b) \cup Range(c) \cup Range(d)
  BY <1>1, <1>4, ListConcat
<1>6. /\ IsList(a \o b \o c \o d \o e)
      /\ Range(a \o b \o c \o d \o e) =
           Range(a) \cup Range(b) \cup Range(c) \cup Range(d) \cup Range(e)
  BY <1>1, <1>5, ListConcat
<1> QED  BY <1>2, <1>6 DEF a, b, c, d, e

LEMMA BindCommands ==
  ASSUME NEW w, NEW k, NEW passive
  PROVE  /\ IsList(Bind(w, k, passive)) /\ IsList(ProvisionPort(w, k))
         /\ Range(Bind(w, k, passive)) \subseteq
              Range(BindPort(Pod(w, k), Bound(w), Gateway(IntNet(w))))
         /\ ~passive => Range(Bind(w, k, passive)) =
              Range(BindPort(Pod(w, k), Bound(w), Gateway(IntNet(w))))
         /\ passive => Range(Bind(w, k, passive)) =
              {AddPort(Pod(w, k), Bound(w))}
         /\ IsList(BindPort(Pod(w, k), Bound(w), Gateway(IntNet(w))))
<1>1. IsList(ProvisionPort(w, k))
  BY ListFew DEF ProvisionPort
<1>2. /\ IsList(BindPort(Pod(w, k), Bound(w), Gateway(IntNet(w))))
      /\ Range(BindPort(Pod(w, k), Bound(w), Gateway(IntNet(w)))) =
           {AddPort(Pod(w, k), Bound(w)),
            BindVmPort(Pod(w, k), Gateway(IntNet(w)))}
  BY ListFew DEF BindPort
<1>3. CASE passive
  <2>1. Bind(w, k, passive) = <<AddPort(Pod(w, k), Bound(w))>>
    BY <1>3 DEF Bind
  <2>2. /\ IsList(Bind(w, k, passive))
        /\ Range(Bind(w, k, passive)) = {AddPort(Pod(w, k), Bound(w))}
    BY <2>1, ListFew, Zenon
  <2> QED  BY <1>1, <1>2, <1>3, <2>2
<1>4. CASE ~passive
  <2>1. Bind(w, k, passive)
          = BindPort(Pod(w, k), Bound(w), Gateway(IntNet(w)))
    BY <1>4 DEF Bind
  <2> QED  BY <1>1, <1>2, <1>4, <2>1
<1> QED  BY <1>3, <1>4

(* The ports of a worker, as the bring-up provisions them.                 *)
LEMMA PortsCommands ==
  ASSUME NEW w
  PROVE  /\ IsList(ProvisionPorts(w))
         /\ Range(ProvisionPorts(w)) =
              (UNION {Range(ProvisionPort(w, k - 1)) : k \in 1..NPods})
              \cup (UNION {Range(Bind(w, k - 1, FALSE)) : k \in 1..NPods})
<1>0. NPods \in Nat
  BY BringupAssumption
<1> DEFINE f == [k \in 1..NPods |-> ProvisionPort(w, k - 1)]
           g == [k \in 1..NPods |-> Bind(w, k - 1, FALSE)]
<1>1. /\ IsList(FlattenSeq(f))
      /\ Range(FlattenSeq(f)) =
           UNION {Range(ProvisionPort(w, k - 1)) : k \in 1..NPods}
  <2>1. /\ f = [k \in 1..NPods |-> f[k]]
        /\ \A k \in 1..NPods : IsList(f[k]) /\ f[k] = ProvisionPort(w, k - 1)
    BY BindCommands
  <2> HIDE DEF f
  <2>2. /\ IsList(FlattenSeq(f))
        /\ Range(FlattenSeq(f)) = UNION {Range(f[k]) : k \in 1..NPods}
    BY <1>0, <2>1, ListFlatten
  <2>3. {Range(f[k]) : k \in 1..NPods} =
          {Range(ProvisionPort(w, k - 1)) : k \in 1..NPods}
    BY <2>1
  <2> QED  BY <2>2, <2>3
<1>2. /\ IsList(FlattenSeq(g))
      /\ Range(FlattenSeq(g)) =
           UNION {Range(Bind(w, k - 1, FALSE)) : k \in 1..NPods}
  <2>1. /\ g = [k \in 1..NPods |-> g[k]]
        /\ \A k \in 1..NPods : IsList(g[k]) /\ g[k] = Bind(w, k - 1, FALSE)
    BY BindCommands
  <2> HIDE DEF g
  <2>2. /\ IsList(FlattenSeq(g))
        /\ Range(FlattenSeq(g)) = UNION {Range(g[k]) : k \in 1..NPods}
    BY <1>0, <2>1, ListFlatten
  <2>3. {Range(g[k]) : k \in 1..NPods} =
          {Range(Bind(w, k - 1, FALSE)) : k \in 1..NPods}
    BY <2>1
  <2> QED  BY <2>2, <2>3
<1>3. ProvisionPorts(w) = FlattenSeq(f) \o FlattenSeq(g)
  BY DEF ProvisionPorts
<1> HIDE DEF f, g
<1>4. /\ IsList(ProvisionPorts(w))
      /\ Range(ProvisionPorts(w)) =
           Range(FlattenSeq(f)) \cup Range(FlattenSeq(g))
  BY <1>1, <1>2, <1>3, ListConcat
<1> QED  BY <1>1, <1>2, <1>4

BringUp(w) ==
  Provision(w) \o ProvisionPorts(w) \o ProvisionLoadBalancers(w) \o PingPorts(w)

LEMMA BringUpCommands ==
  ASSUME NEW w
  PROVE  /\ IsList(BringUp(w))
         /\ Range(BringUp(w)) =
              Range(Provision(w)) \cup Range(ProvisionPorts(w))
              \cup Range(ProvisionLoadBalancers(w))
              \cup {PingPort(w, k - 1) : k \in 1..NPods}
<1> DEFINE a == Provision(w)
           b == ProvisionPorts(w)
           c == ProvisionLoadBalancers(w)
           d == PingPorts(w)
<1>1. IsList(a) /\ IsList(b)
  BY ProvisionCommands, PortsCommands
<1>2. IsList(c)
  BY ListFew DEF ProvisionLoadBalancers
<1>3. IsList(d) /\ Range(d) = {PingPort(w, k - 1) : k \in 1..NPods}
  <2>1. /\ d = [k \in 1..NPods |-> d[k]]
        /\ \A k \in 1..NPods : d[k] = PingPort(w, k - 1)
    BY DEF PingPorts
  <2> HIDE DEF d
  <2>2. IsList(d) /\ Range(d) = {d[k] : k \in 1..NPods}
    BY <2>1, ListFunction, BringupAssumption
  <2>3. {d[k] : k \in 1..NPods} = {PingPort(w, k - 1) : k \in 1..NPods}
    BY <2>1
  <2> QED  BY <2>2, <2>3
<1>4. BringUp(w) = a \o b \o c \o d
  BY DEF BringUp
<1> HIDE DEF a, b, c, d
<1>5. IsList(a \o b) /\ Range(a \o b) = Range(a) \cup Range(b)
  BY <1>1, ListConcat
<1>6. /\ IsList(a \o b \o c)
      /\ Range(a \o b \o c) = Range(a) \cup Range(b) \cup Range(c)
  BY <1>2, <1>5, ListConcat
<1>7. /\ IsList(a \o b \o c \o d)
      /\ Range(a \o b \o c \o d) =
           Range(a) \cup Range(b) \cup Range(c) \cup Range(d)
  BY <1>3, <1>6, ListConcat
<1> QED  BY <1>3, <1>4, <1>7 DEF a, b, c

(* The ports of a test.                                                    *)
LEMMA ClusterPortsCommands ==
  ASSUME NEW az, NEW n \in Nat, NEW passive
  PROVE  /\ IsList(ClusterPorts(az, n, passive))
         /\ Range(ClusterPorts(az, n, passive)) =
              UNION {Range(ProvisionPort(Target(az, k), NextIndex(az, k)))
                       \cup Range(Bind(Target(az, k), NextIndex(az, k), passive)) :
                         k \in 1..n}
<1> DEFINE Two(k) == ProvisionPort(Target(az, k), NextIndex(az, k))
                       \o Bind(Target(az, k), NextIndex(az, k), passive)
           Of2(k) == Range(ProvisionPort(Target(az, k), NextIndex(az, k)))
                       \cup Range(Bind(Target(az, k), NextIndex(az, k), passive))
           f == [k \in 1..n |-> Two(k)]
<1>1. \A k : IsList(Two(k)) /\ Range(Two(k)) = Of2(k)
  <2> TAKE k
  <2> DEFINE w == Target(az, k)
             j == NextIndex(az, k)
  <2>1. IsList(ProvisionPort(w, j)) /\ IsList(Bind(w, j, passive))
    BY BindCommands
  <2> QED  BY <2>1, ListConcat
<1>2. ClusterPorts(az, n, passive) = FlattenSeq(f)
  BY DEF ClusterPorts
<1> HIDE DEF Two, Of2
<1>3. /\ f = [k \in 1..n |-> f[k]]
      /\ \A k \in 1..n : f[k] = Two(k) /\ IsList(f[k]) /\ Range(f[k]) = Of2(k)
  BY <1>1
<1> HIDE DEF f
<1>4. /\ IsList(FlattenSeq(f))
      /\ Range(FlattenSeq(f)) = UNION {Range(f[k]) : k \in 1..n}
  BY <1>3, ListFlatten
<1>5. {Range(f[k]) : k \in 1..n} = {Of2(k) : k \in 1..n}
  BY <1>3
<1> QED  BY <1>2, <1>4, <1>5 DEF Of2

-----------------------------------------------------------------------------
(***************************************************************************)
(* Where the run is: the stage of which context, with how many iterations. *)
(***************************************************************************)
StageInv ==
  /\ ZonesInv
  /\ at \in 1..(Density + 1)
  /\ stage \in {"enter", "top", "advance", "leave"}
  /\ stage # "enter" => at <= Density
  /\ stage \in {"top", "advance"} => at # 1 /\ context.max = Iterations(at)
  /\ context = [name |-> context.name, max |-> context.max,
                iteration |-> context.iteration,
                started |-> context.started, failed |-> context.failed]
  /\ context.iteration \in Int /\ context.iteration >= Before
  /\ lports \in [AllWorkers -> Seq(BOOLEAN)]
  /\ selected \in [Zones -> 0..(AzWorkers(n_az) - 1)]
  /\ IsList(todo) /\ IsList(db)

LEMMA TargetIsWorker ==
  ASSUME StageInv, NEW az \in Zones, NEW k \in Nat
  PROVE  Target(az, k) \in AllWorkers /\ ZoneOf(Target(az, k)) = az
<1>1. AzWorkers(n_az) \in Nat \ {0} /\ selected[az] \in Nat /\ ZonesInv
  BY PlanFacts DEF StageInv
<1> DEFINE a == selected[az] + k
           b == AzWorkers(n_az)
<1>2. a % b \in 0..(b - 1)
  <2>1. a \in Nat /\ b \in Nat \ {0}
    BY <1>1
  <2> HIDE DEF a, b
  <2> QED  BY <2>1, Division
<1> QED  BY <1>1, <1>2, WorkersOfZone DEF Target

(* The ports of a worker that gets some of n.                              *)
Share(az, n, w) == Cardinality({k \in 1..n : Target(az, k) = w})

LEMMA SharesAreFinite ==
  ASSUME NEW az, NEW n \in Nat, NEW w
  PROVE  Share(az, n, w) \in Nat
<1>1. IsFiniteSet(1..n)
  BY FS_Interval
<1>2. IsFiniteSet({k \in 1..n : Target(az, k) = w})
  BY <1>1, FS_Subset
<1> QED  BY <1>2, FS_CardinalityType DEF Share

(* The index of a new port of a worker is beyond those of its old ones and *)
(* below the number of ports it will have.                                 *)
LEMMA IndexFits ==
  ASSUME StageInv, NEW az \in Zones, NEW n \in Nat, NEW k \in 1..n
  PROVE  /\ NextIndex(az, k) \in Nat
         /\ Len(lports[Target(az, k)]) <= NextIndex(az, k)
         /\ NextIndex(az, k)
              < Len(lports[Target(az, k)]) + Share(az, n, Target(az, k))
<1> DEFINE w == Target(az, k)
           before == SameWorker(az, k, k - 1)
           all == {j \in 1..n : Target(az, j) = w}
<1>1. w \in AllWorkers /\ Len(lports[w]) \in Nat
  BY TargetIsWorker DEF StageInv
<1>2. IsFiniteSet(1..n) /\ IsFiniteSet(all)
  <2>1. IsFiniteSet(1..n) /\ all \subseteq 1..n
    BY FS_Interval
  <2> HIDE DEF all
  <2> QED  BY <2>1, FS_Subset
<1>3. before \cup {k} \subseteq all /\ k \notin before
  BY DEF SameWorker
<1> HIDE DEF before, all
<1>4. IsFiniteSet(before) /\ Cardinality(before \cup {k}) <= Cardinality(all)
  BY <1>2, <1>3, FS_Subset
<1>5. Cardinality(before \cup {k}) = Cardinality(before) + 1
  BY <1>3, <1>4, FS_AddElement
<1>6. Cardinality(before) \in Nat /\ Cardinality(all) \in Nat
  BY <1>2, <1>4, FS_CardinalityType
<1>7. Cardinality(before) < Cardinality(all)
  BY <1>4, <1>5, <1>6
<1> QED  BY <1>1, <1>6, <1>7 DEF NextIndex, Share, before, all

LEMMA PortsGrow ==
  ASSUME StageInv, NEW az \in Zones, NEW n \in Nat, NEW passive \in BOOLEAN,
         AddPorts(az, n, passive)
  PROVE  /\ lports' \in [AllWorkers -> Seq(BOOLEAN)]
         /\ selected' \in [Zones -> 0..(AzWorkers(n_az) - 1)]
         /\ \A w \in AllWorkers :
              /\ Len(lports'[w]) = Len(lports[w]) + Share(az, n, w)
              /\ \A i \in 1..Len(lports[w]) : lports'[w][i] = lports[w][i]
              /\ \A i \in (Len(lports[w]) + 1)..Len(lports'[w]) :
                   lports'[w][i] = passive
<1> DEFINE New(w) == [j \in 1..Share(az, n, w) |-> passive]
<1>0. AzWorkers(n_az) \in Nat \ {0}
  BY PlanFacts DEF StageInv
<1>1. ASSUME NEW w \in AllWorkers
      PROVE  /\ lports'[w] = lports[w] \o New(w)
             /\ lports[w] \in Seq(BOOLEAN)
             /\ New(w) \in Seq(BOOLEAN) /\ Len(New(w)) = Share(az, n, w)
             /\ Share(az, n, w) \in Nat
             /\ \A j \in 1..Share(az, n, w) : New(w)[j] = passive
  <2>1. Share(az, n, w) \in Nat
    BY SharesAreFinite
  <2>2. lports'[w] = lports[w] \o New(w)
    BY <1>1 DEF AddPorts, Share
  <2>3. lports[w] \in Seq(BOOLEAN)
    BY DEF StageInv
  <2> QED  BY <2>1, <2>2, <2>3, SMTT(20)
<1>2. ASSUME NEW w \in AllWorkers
      PROVE  /\ lports'[w] \in Seq(BOOLEAN)
             /\ Len(lports'[w]) = Len(lports[w]) + Share(az, n, w)
             /\ \A i \in 1..Len(lports[w]) : lports'[w][i] = lports[w][i]
             /\ \A i \in (Len(lports[w]) + 1)..Len(lports'[w]) :
                  lports'[w][i] = passive
  <2> DEFINE s == lports[w]
             t == New(w)
             k == Share(az, n, w)
  <2>1. /\ s \in Seq(BOOLEAN) /\ t \in Seq(BOOLEAN) /\ Len(t) = k /\ k \in Nat
        /\ \A j \in 1..k : t[j] = passive
        /\ lports'[w] = s \o t
    BY <1>1
  <2> HIDE DEF s, t, k
  <2>2. /\ s \o t \in Seq(BOOLEAN)
        /\ Len(s \o t) = Len(s) + Len(t) /\ Len(s) \in Nat
        /\ \A i \in 1..(Len(s) + Len(t)) :
             (s \o t)[i] = IF i <= Len(s) THEN s[i] ELSE t[i - Len(s)]
    <3> DEFINE B == BOOLEAN
    <3>1. s \in Seq(B) /\ t \in Seq(B)
      BY <2>1
    <3> HIDE DEF B
    <3>2. /\ s \o t \in Seq(B)
          /\ Len(s \o t) = Len(s) + Len(t) /\ Len(s) \in Nat
          /\ \A i \in 1..(Len(s) + Len(t)) :
               (s \o t)[i] = IF i <= Len(s) THEN s[i] ELSE t[i - Len(s)]
      BY <3>1, ConcatProperties
    <3> QED  BY <3>2 DEF B
  <2>3. \A i \in 1..Len(s) : (s \o t)[i] = s[i]
    BY <2>1, <2>2
  <2>4. \A i \in (Len(s) + 1)..Len(s \o t) : (s \o t)[i] = passive
    <3> TAKE i \in (Len(s) + 1)..Len(s \o t)
    <3>1. /\ i \in 1..(Len(s) + Len(t)) /\ ~(i <= Len(s))
          /\ i - Len(s) \in 1..k
      BY <2>1, <2>2
    <3> QED  BY <2>1, <2>2, <3>1
  <2> QED  BY <2>1, <2>2, <2>3, <2>4 DEF s, k
<1>3. lports' \in [AllWorkers -> Seq(BOOLEAN)]
  <2>1. lports' = [w \in AllWorkers |-> lports'[w]]
    BY DEF AddPorts
  <2> QED  BY <1>2, <2>1
<1>4. selected' \in [Zones -> 0..(AzWorkers(n_az) - 1)]
  <2>1. /\ selected \in [Zones -> 0..(AzWorkers(n_az) - 1)]
        /\ selected' = [selected EXCEPT
                          ![az] = (selected[az] + n) % AzWorkers(n_az)]
    BY DEF AddPorts, StageInv
  <2> DEFINE a == selected[az] + n
             b == AzWorkers(n_az)
  <2>2. a % b \in 0..(b - 1)
    <3>1. a \in Nat /\ b \in Nat \ {0}
      BY <1>0, <2>1
    <3> HIDE DEF a, b
    <3> QED  BY <3>1, Division
  <2> QED  BY <2>1, <2>2
<1> QED  BY <1>2, <1>3, <1>4

(* The number of a test's ports in a zone is a number.                     *)
LEMMA DistributeIsNat ==
  ASSUME ZonesInv, NEW i
  PROVE  Distribute(NStartup, n_az, i) \in Nat
<1>1. NStartup \in Nat /\ n_az \in Nat \ {0}
  BY PlanFacts, BringupAssumption
<1>2. NStartup \div n_az \in Nat
  BY <1>1, Division
<1> QED  BY <1>2 DEF Distribute

LEMMA NamespaceCommands ==
  ASSUME ZonesInv, NEW pods
  PROVE  /\ IsList(AddToNamespace(pods))
         /\ \A c \in Range(AddToNamespace(pods)) :
              \E i \in 1..n_az : c = AddressSetAddAddrs(Of("as", i - 1), pods)
<1>1. n_az \in Nat
  BY PlanFacts
<1>2. CASE pods = {}
  BY <1>2, ListFew DEF AddToNamespace
<1>3. CASE pods # {}
  <2> DEFINE s == AddToNamespace(pods)
  <2>1. /\ s = [i \in 1..n_az |-> s[i]]
        /\ \A i \in 1..n_az : s[i] = AddressSetAddAddrs(Of("as", i - 1), pods)
    BY <1>3 DEF AddToNamespace
  <2> HIDE DEF s
  <2>2. IsList(s) /\ Range(s) = {s[i] : i \in 1..n_az}
    BY <1>1, <2>1, ListFunction
  <2>3. \A c \in Range(s) :
          \E i \in 1..n_az : c = AddressSetAddAddrs(Of("as", i - 1), pods)
    BY <2>1, <2>2
  <2> QED  BY <2>2, <2>3 DEF s
<1> QED  BY <1>2, <1>3

(***************************************************************************)
(* What the body of an iteration is: of density_light_startup, which       *)
(* provisions the ports of a zone, of density_light, which provisions one  *)
(* and pings it, or of a bring-up.                                         *)
(***************************************************************************)
StartupBody(az, n) ==
  /\ at = Startup /\ az \in Zones /\ n = Distribute(NStartup, n_az, az)
  /\ todo' = ClusterPorts(az, n, TRUE) \o AddToNamespace(ClusterPods(az, n))
  /\ AddPorts(az, n, TRUE)

DensityBody(az) ==
  /\ at = Density /\ az \in Zones
  /\ todo' = ClusterPorts(az, 1, FALSE) \o AddToNamespace(ClusterPods(az, 1))
               \o <<PingPort(Target(az, 1), NextIndex(az, 1))>>
  /\ AddPorts(az, 1, FALSE)

BringUpBody(az, i) ==
  /\ at = az + 2 /\ az \in Zones /\ i \in 0..(AzWorkers(n_az) - 1)
  /\ todo' = BringUp(FirstWorker(az) + i)
  /\ lports' = [lports EXCEPT ![FirstWorker(az) + i] =
                  lports[FirstWorker(az) + i] \o [k \in 1..NPods |-> FALSE]]
  /\ selected' = selected

LEMMA BodyCases ==
  ASSUME StageInv, Iterate
  PROVE  LET i == context.iteration + 1 IN
           /\ i \in Nat /\ i < context.max /\ context.max = Iterations(at)
           /\ \/ StartupBody(i, Distribute(NStartup, n_az, i))
              \/ DensityBody(i % n_az)
              \/ BringUpBody(Zone(at), i)
<1> DEFINE i == context.iteration + 1
<1>1. /\ context.iteration \in Int /\ context.iteration >= -1
      /\ at \in 1..Density /\ at # 1 /\ context.max = Iterations(at)
      /\ context.iteration < context.max - 1 /\ Body(at, i)
      /\ n_az \in Nat \ {0} /\ AzWorkers(n_az) \in Nat
  BY PlanFacts DEF StageInv, Iterate, NextIteration, MoreIterations, Before,
                   Density
<1>2. CASE at = Startup
  <2>1. Iterations(at) = n_az
    BY <1>1, <1>2 DEF Iterations, Startup, Density
  <2>2. i \in Zones /\ i \in Nat /\ i < context.max
    BY <1>1, <2>1 DEF Zones
  <2>3. at # Density
    BY <1>1, <1>2 DEF Startup, Density
  <2>4. StartupBody(i, Distribute(NStartup, n_az, i))
    <3> HIDE DEF i
    <3> QED  BY <1>1, <1>2, <2>2, <2>3 DEF Body, StartupBody, Begin
  <2> QED  BY <1>1, <2>2, <2>4
<1>3. CASE at = Density
  <2>1. at # Startup /\ at # 1
    BY <1>1, <1>3 DEF Startup, Density
  <2>2. Iterations(at) \in Int
    BY <1>3, <2>1, BringupAssumption DEF Iterations
  <2>3. i \in Nat /\ i < context.max
    BY <1>1, <2>2
  <2>4. i % n_az \in Zones
    BY <1>1, <2>3, Division DEF Zones
  <2>5. DensityBody(i % n_az)
    <3> HIDE DEF i
    <3> QED  BY <1>1, <1>3, <2>1, <2>4 DEF Body, DensityBody, Begin
  <2> QED  BY <1>1, <2>3, <2>5
<1>4. CASE at # Startup /\ at # Density
  <2>1. Iterations(at) = AzWorkers(n_az)
    BY <1>1, <1>4 DEF Iterations
  <2>2. i \in 0..(AzWorkers(n_az) - 1) /\ i < context.max
    BY <1>1, <2>1
  <2>3. Zone(at) \in Zones /\ at = Zone(at) + 2
    BY <1>1, <1>4 DEF Zone, Zones, Startup, Density
  <2>4. BringUpBody(Zone(at), i)
    <3> HIDE DEF i
    <3> QED  BY <1>1, <1>4, <2>2, <2>3 DEF Body, BringUpBody, Begin, BringUp
  <2> QED  BY <1>1, <2>2, <2>4
<1> QED  BY <1>2, <1>3, <1>4

-----------------------------------------------------------------------------
(***************************************************************************)
(* The plan of addresses: which object may have which.  Ports are numbered *)
(* from 0 to one less than the number of ports their worker has.           *)
(***************************************************************************)
Planned(L, x, a) ==
  \/ \E az \in Zones : \/ x = JoinRp(az) /\ a = Gateway(GwNet(az))
                       \/ x = TsRp(az) /\ a = Forward(TsNet, az)
  \/ \E w \in AllWorkers :
       \/ x = NodeRp(w) /\ a = Gateway(IntNet(w))
       \/ x = GwRp(w) /\ a = JoinIp(w)
       \/ x = ExtRp(w) /\ a = Gateway(ExtNet(w))
       \/ x = ExtNs(w) /\ a = ExtHostIp(w)
       \/ \E k \in 0..(Len(L[w]) - 1) :
            x = Pod(w, k) /\ a = Forward(IntNet(w), k + 1)

NoInterface(r) ==
  \/ r[1] # "in"
  \/ r[2][1] \in {"netns", "ping"}
  \/ r[4] = None /\ r[2][1] # "ext-ns"

AsPlanned(L, r) ==
  \/ NoInterface(r)
  \/ r[2][1] # "ext-ns" /\ Planned(L, r[2], r[4])
  \/ r[2][1] = "ext-ns" /\ Planned(L, r[2], r[4][1])

(* Scripts that make no interface, and scripts that do as planned.         *)
Bare(s)        == IsList(s) /\ \A c \in Range(s) : NoInterface(c.row)
Follows(L, s)  == IsList(s) /\ \A c \in Range(s) : AsPlanned(L, c.row)

LEMMA BareConcat ==
  ASSUME NEW s, NEW t, Bare(s), Bare(t)
  PROVE  Bare(s \o t)
BY ListConcat DEF Bare

LEMMA FollowsConcat ==
  ASSUME NEW L, NEW s, NEW t, Follows(L, s), Follows(L, t)
  PROVE  Follows(L, s \o t)
BY ListConcat DEF Follows

LEMMA BareFollows ==
  ASSUME NEW L, NEW s, Bare(s)
  PROVE  Follows(L, s)
BY DEF Bare, Follows, AsPlanned

LEMMA BareFew ==
  /\ Bare(<<>>)
  /\ \A a :
       NoInterface(a.row)
       => Bare(<<a>>)
  /\ \A a, b :
       NoInterface(a.row) /\ NoInterface(b.row)
       => Bare(<<a, b>>)
  /\ \A a, b, c :
       NoInterface(a.row) /\ NoInterface(b.row) /\ NoInterface(c.row)
       => Bare(<<a, b, c>>)
  /\ \A a, b, c, d :
       NoInterface(a.row) /\ NoInterface(b.row) /\ NoInterface(c.row)
         /\ NoInterface(d.row)
       => Bare(<<a, b, c, d>>)
  /\ \A a, b, c, d, e :
       NoInterface(a.row) /\ NoInterface(b.row) /\ NoInterface(c.row)
         /\ NoInterface(d.row) /\ NoInterface(e.row)
       => Bare(<<a, b, c, d, e>>)
  /\ \A a, b, c, d, e, f :
       NoInterface(a.row) /\ NoInterface(b.row) /\ NoInterface(c.row)
         /\ NoInterface(d.row) /\ NoInterface(e.row) /\ NoInterface(f.row)
       => Bare(<<a, b, c, d, e, f>>)
BY ListFew DEF Bare

LEMMA FollowsFew ==
  ASSUME NEW L
  PROVE  /\ Follows(L, <<>>)
         /\ \A a :
              AsPlanned(L, a.row)
              => Follows(L, <<a>>)
         /\ \A a, b :
              AsPlanned(L, a.row) /\ AsPlanned(L, b.row)
              => Follows(L, <<a, b>>)
         /\ \A a, b, c :
              AsPlanned(L, a.row) /\ AsPlanned(L, b.row) /\ AsPlanned(L, c.row)
              => Follows(L, <<a, b, c>>)
         /\ \A a, b, c, d :
              AsPlanned(L, a.row) /\ AsPlanned(L, b.row) /\ AsPlanned(L, c.row)
                /\ AsPlanned(L, d.row)
              => Follows(L, <<a, b, c, d>>)
         /\ \A a, b, c, d, e :
              AsPlanned(L, a.row) /\ AsPlanned(L, b.row) /\ AsPlanned(L, c.row)
                /\ AsPlanned(L, d.row) /\ AsPlanned(L, e.row)
              => Follows(L, <<a, b, c, d, e>>)
         /\ \A a, b, c, d, e, f :
              AsPlanned(L, a.row) /\ AsPlanned(L, b.row) /\ AsPlanned(L, c.row)
                /\ AsPlanned(L, d.row) /\ AsPlanned(L, e.row) /\ AsPlanned(L, f.row)
              => Follows(L, <<a, b, c, d, e, f>>)
BY ListFew DEF Follows

LEMMA BareFunction ==
  ASSUME NEW k \in Int, NEW s, s = [i \in 1..k |-> s[i]],
         \A i \in 1..k : NoInterface(s[i].row)
  PROVE  Bare(s)
BY ListFunction DEF Bare

(* Commands that make no interface.                                        *)
LEMMA BareCommands ==
  ASSUME NEW x, NEW y, NEW on, NEW fails, x[1] # "ext-ns"
  PROVE  /\ NoInterface(Insert(x, on, None, fails).row)
         /\ NoInterface(SetGlobal(x).row)
         /\ NoInterface(SetGlobalExternalId(x).row)
         /\ NoInterface(LsAdd(x).row) /\ NoInterface(LrAdd(x).row)
         /\ NoInterface(CreateLb(x).row)
         /\ NoInterface(PortGroupCreate(x).row)
         /\ NoInterface(AddressSetCreate(x).row)
         /\ NoInterface(LsPortAdd(x, y, None).row)
BY DEF Insert, Command, NoInterface, SetGlobal, SetGlobalExternalId, LsAdd,
       LrAdd, CreateLb, PortGroupCreate, AddressSetCreate, LsPortAdd

LEMMA ColumnCommands ==
  ASSUME NEW x, NEW y, NEW val
  PROVE  /\ NoInterface(LrSetOptions(x, val).row)
         /\ NoInterface(LrPortSetGwChassis(x, val).row)
         /\ NoInterface(LsPortSetType(x).row)
         /\ NoInterface(LsPortSetOptions(x, val).row)
         /\ NoInterface(LbSetVips(x, val).row)
         /\ NoInterface(LbAddTo(x, y).row)
         /\ NoInterface(AddLbg(x, y).row)
         /\ NoInterface(AddressSetAddAddrs(x, val).row)
         /\ NoInterface(NatAdd(x, val).row)
         /\ NoInterface(AddPort(x, val).row)
         /\ NoInterface(RouteAdd(x, "cluster_net", val).row)
         /\ NoInterface(RouteAdd(x, "default", val).row)
         /\ NoInterface(RouteAdd(x, "src-ip", val).row)
         /\ NoInterface(BindVmPort(x, val).row)
BY DEF LrSetOptions, LrPortSetGwChassis, LsPortSetType, LsPortSetOptions,
       LbSetVips, LbAddTo, AddLbg, AddressSetAddAddrs, NatAdd, AddPort,
       RouteAdd, BindVmPort, Netns, Insert, Set, Change, Refer, Command,
       NoInterface

LEMMA BareParts ==
  ASSUME NEW az, NEW w, NEW k, NEW gw, NEW lb
  PROVE  /\ Bare(ConnectAndWait(w)) /\ Bare(NodeRoutes(w))
         /\ Bare(ProvisionLoadBalancers(w))
         /\ Bare(BindPort(Pod(w, k), Bound(w), gw))
         /\ Bare(<<PingPort(w, k)>>)
         /\ Bare(CreateTransitSwitch) /\ Bare(CreateClusterRouter(az))
         /\ Bare(CreateClusterLoadBalancer(az))
<1>1. Bare(ConnectAndWait(w))
  <2> DEFINE a == SetGlobalExternalId(Of("ovn-remote", w))
             b == Insert(Bound(w), Of("ovn-remote", w), None, {"measure"})
  <2>1. /\ NoInterface(a.row) /\ NoInterface(b.row)
    BY BareCommands DEF Of, Bound
  <2>2. ConnectAndWait(w) = <<a, b>>
    BY DEF ConnectAndWait
  <2> HIDE DEF a, b
  <2> QED  BY <2>1, <2>2, BareFew
<1>2. Bare(NodeRoutes(w))
  <2> DEFINE a == RouteAdd(GwRouter(w), "cluster_net", Gateway(GwNet(ZoneOf(w))))
             b == RouteAdd(GwRouter(w), "default", ExtHostIp(w))
             c == RouteAdd(Router(ZoneOf(w)), "src-ip", <<IntNet(w), JoinIp(w)>>)
             d == NatAdd(GwRouter(w), JoinIp(w))
  <2>1. /\ NoInterface(a.row) /\ NoInterface(b.row) /\ NoInterface(c.row)
        /\ NoInterface(d.row)
    BY ColumnCommands
  <2>2. NodeRoutes(w) = <<a, b, c, d>>
    BY DEF NodeRoutes
  <2> HIDE DEF a, b, c, d
  <2> QED  BY <2>1, <2>2, BareFew
<1>3. Bare(ProvisionLoadBalancers(w))
  <2> DEFINE a == LbSetVips(ClusterLb(ZoneOf(w)), Switch(w))
             b == LbAddTo(ClusterLb(ZoneOf(w)), Switch(w))
             c == LbAddTo(ClusterLb(ZoneOf(w)), GwRouter(w))
             d == CreateLb(GwLb(w))
             e == LbAddTo(GwLb(w), GwRouter(w))
  <2>1. /\ NoInterface(a.row) /\ NoInterface(b.row) /\ NoInterface(c.row)
        /\ NoInterface(d.row) /\ NoInterface(e.row)
    BY BareCommands, ColumnCommands DEF GwLb, Of
  <2>2. ProvisionLoadBalancers(w) = <<a, b, c, d, e>>
    BY DEF ProvisionLoadBalancers
  <2> HIDE DEF a, b, c, d, e
  <2> QED  BY <2>1, <2>2, BareFew
<1>4. Bare(BindPort(Pod(w, k), Bound(w), gw))
  <2> DEFINE a == AddPort(Pod(w, k), Bound(w))
             b == BindVmPort(Pod(w, k), gw)
  <2>1. /\ NoInterface(a.row) /\ NoInterface(b.row)
    BY ColumnCommands
  <2>2. BindPort(Pod(w, k), Bound(w), gw) = <<a, b>>
    BY DEF BindPort
  <2> HIDE DEF a, b
  <2> QED  BY <2>1, <2>2, BareFew
<1>5. Bare(<<PingPort(w, k)>>)
  <2>1. NoInterface(PingPort(w, k).row)
    BY DEF PingPort, Ping, Insert, Command, NoInterface
  <2> QED  BY <2>1, BareFew
<1>6. Bare(CreateTransitSwitch)
  <2>1. NoInterface(LsAdd(Ts).row)
    BY BareCommands DEF Ts, Of
  <2> QED  BY <2>1, BareFew DEF CreateTransitSwitch
<1>7. Bare(CreateClusterRouter(az))
  <2> DEFINE a == LrAdd(Router(az))
             b == LrSetOptions(Router(az), None)
  <2>1. /\ NoInterface(a.row) /\ NoInterface(b.row)
    BY BareCommands, ColumnCommands DEF Router, Of
  <2>2. CreateClusterRouter(az) = <<a, b>>
    BY DEF CreateClusterRouter
  <2> HIDE DEF a, b
  <2> QED  BY <2>1, <2>2, BareFew
<1>8. Bare(CreateClusterLoadBalancer(az))
  <2> DEFINE a == CreateLb(ClusterLb(az))
             b == LbSetVips(ClusterLb(az), None)
  <2>1. /\ NoInterface(a.row) /\ NoInterface(b.row)
    BY BareCommands, ColumnCommands DEF ClusterLb, Of
  <2>2. CreateClusterLoadBalancer(az) = <<a, b>>
    BY DEF CreateClusterLoadBalancer
  <2> HIDE DEF a, b
  <2> QED  BY <2>1, <2>2, BareFew
<1> QED  BY <1>1, <1>2, <1>3, <1>4, <1>5, <1>6, <1>7, <1>8

LEMMA BareFunctions ==
  ASSUME ZonesInv, NEW az, NEW c, NEW pods
  PROVE  /\ Bare(SetRaftElectionTimeout(az)) /\ Bare(StartCentral(az))
         /\ Bare(StartRelay(az)) /\ Bare(ProvisionLbGroup(az))
         /\ Bare(CheckIcConnectivity) /\ Bare(NewNamespace) /\ Bare(Sync(c))
         /\ Bare(AddToNamespace(pods))
<1>0. /\ n_az \in Nat \ {0} /\ AzWorkers(n_az) \in Nat
      /\ NCentral \in Nat /\ NRelays \in Nat /\ RaftElectionTo \in Nat
  BY PlanFacts, PlanAssumption, BringupAssumption
<1>1. Bare(SetRaftElectionTimeout(az))
  <2> DEFINE s == SetRaftElectionTimeout(az)
             k == (RaftElectionTo - 1) * NCentral
  <2>1. CASE NCentral = 1
    BY <2>1, ListFew DEF SetRaftElectionTimeout, Bare
  <2>2. CASE NCentral # 1
    <3>1. s = [i \in 1..k |-> s[i]] /\ k \in Int
      BY <1>0, <2>2 DEF SetRaftElectionTimeout
    <3>2. \A i \in 1..k : NoInterface(s[i].row)
      BY <2>2 DEF SetRaftElectionTimeout, Shell, Insert, Command, NoInterface
    <3> HIDE DEF s, k
    <3> QED  BY <3>1, <3>2, BareFunction DEF s
  <2> QED  BY <2>1, <2>2
<1>2. Bare(StartCentral(az))
  <2> DEFINE s == StartCentral(az)
  <2>1. /\ s = [i \in 1..NCentral |-> s[i]]
        /\ \A i \in 1..NCentral : NoInterface(s[i].row)
    BY DEF StartCentral, Shell, Insert, Command, NoInterface
  <2> HIDE DEF s
  <2> QED  BY <1>0, <2>1, BareFunction DEF s
<1>3. Bare(StartRelay(az))
  <2> DEFINE s == StartRelay(az)
  <2>1. /\ s = [i \in 1..NRelays |-> s[i]]
        /\ \A i \in 1..NRelays : NoInterface(s[i].row)
    BY DEF StartRelay, Shell, Insert, Command, NoInterface
  <2> HIDE DEF s
  <2> QED  BY <1>0, <2>1, BareFunction DEF s
<1>4. Bare(ProvisionLbGroup(az))
  <2> DEFINE k == 2 * AzWorkers(n_az)
             Cmd(j) ==
               LET w == FirstWorker(az) + ((j - 1) \div 2) IN
                 AddLbg(Lbg(az), IF j % 2 = 1 THEN Switch(w) ELSE GwRouter(w))
             s == [j \in 1..k |-> Cmd(j)]
             t == <<CreateLb(Lbg(az))>>
  <2>1. \A j : NoInterface(Cmd(j).row)
    BY ColumnCommands
  <2>2. ProvisionLbGroup(az) = t \o s
    BY DEF ProvisionLbGroup
  <2>3. k \in Int
    BY <1>0
  <2>4. Bare(t)
    BY ListFew, BareCommands DEF Lbg, Of, Bare
  <2> HIDE DEF Cmd, k, t
  <2>5. /\ s = [j \in 1..k |-> s[j]]
        /\ \A j \in 1..k : NoInterface(s[j].row)
    BY <2>1
  <2> HIDE DEF s
  <2>6. Bare(s)
    BY <2>3, <2>5, BareFunction
  <2> QED  BY <2>2, <2>4, <2>6, BareConcat
<1>5. Bare(CheckIcConnectivity)
  <2> DEFINE s == CheckIcConnectivity
             k == (n_az - 1) * AzWorkers(n_az)
  <2>1. /\ s = [i \in 1..k |-> s[i]] /\ k \in Int
        /\ \A i \in 1..k : NoInterface(s[i].row)
    BY <1>0 DEF CheckIcConnectivity, Command, IcPing, Of, NoInterface
  <2> HIDE DEF s, k
  <2> QED  BY <2>1, BareFunction DEF s
<1>6. ASSUME NEW what, what # "ext-ns"
      PROVE  Bare(PortGroups(what))
  <2> DEFINE s == PortGroups(what)
  <2>1. /\ s = [i \in 1..n_az |-> s[i]]
        /\ \A i \in 1..n_az : NoInterface(s[i].row)
    BY <1>6, BareCommands DEF PortGroups, Of
  <2> HIDE DEF s
  <2> QED  BY <1>0, <2>1, BareFunction DEF s
<1>7. Bare(NewNamespace)
  <2> DEFINE s == [i \in 1..n_az |-> AddressSetCreate(Of("as", i - 1))]
             a == PortGroups("pg_deny_igr")
             b == PortGroups("pg_deny_egr")
             d == PortGroups("pg")
  <2>1. /\ s = [i \in 1..n_az |-> s[i]]
        /\ \A i \in 1..n_az : NoInterface(s[i].row)
    BY BareCommands DEF Of
  <2>2. NewNamespace = a \o b \o d \o s
    BY DEF NewNamespace
  <2> HIDE DEF s
  <2>3. Bare(s)
    BY <1>0, <2>1, BareFunction
  <2>4. Bare(a) /\ Bare(b) /\ Bare(d)
    BY <1>6
  <2> HIDE DEF a, b, d
  <2>5. Bare(a \o b)
    BY <2>4, BareConcat
  <2>6. Bare(a \o b \o d)
    BY <2>4, <2>5, BareConcat
  <2>7. Bare(a \o b \o d \o s)
    BY <2>3, <2>6, BareConcat
  <2> QED  BY <2>2, <2>7
<1>8. Bare(Sync(c))
  <2> DEFINE s == Sync(c)
  <2>1. /\ s = [i \in 1..n_az |-> s[i]]
        /\ \A i \in 1..n_az : NoInterface(s[i].row)
    BY DEF Sync, Insert, Command, NoInterface
  <2> HIDE DEF s
  <2> QED  BY <1>0, <2>1, BareFunction DEF s
<1>9. Bare(AddToNamespace(pods))
  BY NamespaceCommands, ColumnCommands DEF Bare
<1> QED  BY <1>1, <1>2, <1>3, <1>4, <1>5, <1>7, <1>8, <1>9

(* The scripts of the stages outside of an iteration's body.               *)
LEMMA BareStages ==
  ASSUME ZonesInv, NEW c, NEW i
  PROVE  Bare(External(c, i)) /\ Bare(Closing(c)) /\ Bare(Sync(c) \o Following(c))
<1>1. Bare(External(c, i))
  <2>1. NoInterface(Insert(Of("ext-cmd", i), None, None, {"log", "raise"}).row)
    BY BareCommands DEF Of
  <2> QED  BY <2>1, BareFew DEF External
<1>2. Bare(Closing(c))
  BY BareFew, BareFunctions DEF Closing
<1>3. Bare(CheckIcConnectivity \o NewNamespace)
  BY BareFunctions, BareConcat
<1>4. Bare(Following(c))
  <2>1. Bare(<<>>)
    BY BareFew
  <2> QED  BY <1>3, <2>1, BareParts DEF Following
<1> QED  BY <1>1, <1>2, <1>4, BareFunctions, BareConcat

(* Commands that give an object an address.                                *)
LEMMA AddressCommands ==
  ASSUME NEW L, NEW x, NEW on, NEW ip,
         x[1] # "ext-ns", ip = None \/ Planned(L, x, ip)
  PROVE  /\ AsPlanned(L, LrPortAdd(x, on, ip).row)
         /\ AsPlanned(L, LsPortAdd(x, on, ip).row)
BY DEF LrPortAdd, LsPortAdd, Insert, Command, AsPlanned, NoInterface

LEMMA PlannedParts ==
  ASSUME ZonesInv, NEW L, NEW az \in Zones, NEW w \in AllWorkers
  PROVE  /\ Follows(L, Configure(w)) /\ Follows(L, NodeSwitch(w))
         /\ Follows(L, NodeGateway(w)) /\ Follows(L, NodeExternal(w))
         /\ Follows(L, CreateClusterJoinSwitch(az))
         /\ Follows(L, ConnectTransitSwitch(az))
         /\ \A k \in 0..(Len(L[w]) - 1) : Follows(L, ProvisionPort(w, k))
<1>0. \A x, y, on, val :
        /\ x[1] # "ext-ns" =>
             /\ AsPlanned(L, SetGlobalExternalId(x).row)
             /\ AsPlanned(L, LsAdd(x).row) /\ AsPlanned(L, LrAdd(x).row)
             /\ AsPlanned(L, LsPortAdd(x, y, None).row)
             /\ \A fails : AsPlanned(L, Insert(x, on, None, fails).row)
        /\ AsPlanned(L, LrSetOptions(x, val).row)
        /\ AsPlanned(L, LrPortSetGwChassis(x, val).row)
        /\ AsPlanned(L, LsPortSetType(x).row)
        /\ AsPlanned(L, LsPortSetOptions(x, val).row)
  BY BareCommands, ColumnCommands DEF AsPlanned
<1>1. Follows(L, Configure(w))
  <2> DEFINE a == SetGlobalExternalId(Of("bridge-mappings", w))
             b == Insert(ExtNs(w), None, <<ExtHostIp(w), Gateway(ExtNet(w))>>,
                         {"log", "raise"})
  <2>1. AsPlanned(L, a.row)
    BY <1>0 DEF Of
  <2>2. AsPlanned(L, b.row)
    <3>1. b.row[2] = ExtNs(w) /\ b.row[4][1] = ExtHostIp(w)
      BY DEF Insert, Command
    <3>2. ExtNs(w)[1] = "ext-ns"
      BY DEF ExtNs, Of
    <3>3. Planned(L, ExtNs(w), ExtHostIp(w))
      BY DEF Planned
    <3> QED  BY <3>1, <3>2, <3>3 DEF AsPlanned
  <2>3. Configure(w) = <<a, b>>
    BY DEF Configure
  <2> HIDE DEF a, b
  <2> QED  BY <2>1, <2>2, <2>3, FollowsFew
<1>2. Follows(L, NodeSwitch(w))
  <2> DEFINE a == LsAdd(Switch(w))
             b == LrPortAdd(NodeRp(w), Router(ZoneOf(w)), Gateway(IntNet(w)))
             c == LsPortAdd(Lsp(NodeRp(w)), Switch(w), None)
             d == LrPortSetGwChassis(NodeRp(w), Bound(w))
  <2>1. AsPlanned(L, b.row)
    <3>1. NodeRp(w)[1] # "ext-ns" /\ Planned(L, NodeRp(w), Gateway(IntNet(w)))
      BY DEF NodeRp, Of, Planned
    <3> QED  BY <3>1, AddressCommands
  <2>2. AsPlanned(L, a.row) /\ AsPlanned(L, c.row) /\ AsPlanned(L, d.row)
    BY <1>0 DEF Switch, Lsp, Of
  <2>3. NodeSwitch(w) = <<a, b, c, d>>
    BY DEF NodeSwitch
  <2> HIDE DEF a, b, c, d
  <2> QED  BY <2>1, <2>2, <2>3, FollowsFew
<1>3. Follows(L, NodeGateway(w))
  <2> DEFINE a == LrAdd(GwRouter(w))
             b == LrSetOptions(GwRouter(w), Bound(w))
             c == LrPortAdd(GwRp(w), GwRouter(w), JoinIp(w))
             d == LsPortAdd(Lsp(GwRp(w)), Join(ZoneOf(w)), None)
  <2>1. AsPlanned(L, c.row)
    <3>1. GwRp(w)[1] # "ext-ns" /\ Planned(L, GwRp(w), JoinIp(w))
      BY DEF GwRp, Of, Planned
    <3> QED  BY <3>1, AddressCommands
  <2>2. AsPlanned(L, a.row) /\ AsPlanned(L, b.row) /\ AsPlanned(L, d.row)
    BY <1>0 DEF GwRouter, Lsp, Of
  <2>3. NodeGateway(w) = <<a, b, c, d>>
    BY DEF NodeGateway
  <2> HIDE DEF a, b, c, d
  <2> QED  BY <2>1, <2>2, <2>3, FollowsFew
<1>4. Follows(L, NodeExternal(w))
  <2> DEFINE a == LsAdd(ExtSwitch(w))
             b == LrPortAdd(ExtRp(w), GwRouter(w), Gateway(ExtNet(w)))
             c == LsPortAdd(Lsp(ExtRp(w)), ExtSwitch(w), None)
             d == LsPortAdd(Physnet(w), ExtSwitch(w), None)
             e == LsPortSetType(Physnet(w))
             f == LsPortSetOptions(Physnet(w), None)
  <2>1. AsPlanned(L, b.row)
    <3>1. ExtRp(w)[1] # "ext-ns" /\ Planned(L, ExtRp(w), Gateway(ExtNet(w)))
      BY DEF ExtRp, Of, Planned
    <3> QED  BY <3>1, AddressCommands
  <2>2. AsPlanned(L, a.row) /\ AsPlanned(L, c.row) /\ AsPlanned(L, d.row)
    BY <1>0 DEF ExtSwitch, Physnet, Lsp, Of
  <2>3. AsPlanned(L, e.row) /\ AsPlanned(L, f.row)
    BY <1>0
  <2>4. NodeExternal(w) = <<a, b, c, d, e, f>>
    BY DEF NodeExternal
  <2> HIDE DEF a, b, c, d, e, f
  <2> QED  BY <2>1, <2>2, <2>3, <2>4, FollowsFew
<1>5. Follows(L, CreateClusterJoinSwitch(az))
  <2> DEFINE a == LsAdd(Join(az))
             b == LrPortAdd(JoinRp(az), Router(az), Gateway(GwNet(az)))
             c == LsPortAdd(Lsp(JoinRp(az)), Join(az), None)
  <2>1. AsPlanned(L, b.row)
    <3>1. JoinRp(az)[1] # "ext-ns" /\ Planned(L, JoinRp(az), Gateway(GwNet(az)))
      BY DEF JoinRp, Of, Planned
    <3> QED  BY <3>1, AddressCommands
  <2>2. AsPlanned(L, a.row) /\ AsPlanned(L, c.row)
    BY <1>0 DEF Join, Lsp, Of
  <2>3. CreateClusterJoinSwitch(az) = <<a, b, c>>
    BY DEF CreateClusterJoinSwitch
  <2> HIDE DEF a, b, c
  <2> QED  BY <2>1, <2>2, <2>3, FollowsFew
<1>6. Follows(L, ConnectTransitSwitch(az))
  <2> DEFINE a == Insert(TsFound(az), Ts, None, {"log"})
             b == LrPortAdd(TsRp(az), Router(az), Forward(TsNet, az))
             c == LsPortAdd(Lsp(TsRp(az)), TsFound(az), None)
             d == LrPortSetGwChassis(TsRp(az), Bound(FirstWorker(az)))
             e == SetGlobalExternalId(Of("is-interconn", FirstWorker(az)))
  <2>1. AsPlanned(L, b.row)
    <3>1. TsRp(az)[1] # "ext-ns" /\ Planned(L, TsRp(az), Forward(TsNet, az))
      BY DEF TsRp, Of, Planned
    <3> QED  BY <3>1, AddressCommands
  <2>2. AsPlanned(L, a.row) /\ AsPlanned(L, c.row)
    BY <1>0 DEF TsFound, Lsp, Of
  <2>3. AsPlanned(L, d.row) /\ AsPlanned(L, e.row)
    BY <1>0 DEF Of
  <2>4. ConnectTransitSwitch(az) \in {<<>>, <<a, b, c, d, e>>}
    BY DEF ConnectTransitSwitch
  <2> HIDE DEF a, b, c, d, e
  <2> QED  BY <2>1, <2>2, <2>3, <2>4, FollowsFew
<1>7. ASSUME NEW k \in 0..(Len(L[w]) - 1)
      PROVE  Follows(L, ProvisionPort(w, k))
  <2> DEFINE a == LsPortAdd(Pod(w, k), Switch(w), Forward(IntNet(w), k + 1))
  <2>1. AsPlanned(L, a.row)
    <3>1. Pod(w, k)[1] # "ext-ns"
          /\ Planned(L, Pod(w, k), Forward(IntNet(w), k + 1))
      BY DEF Pod, Planned
    <3> QED  BY <3>1, AddressCommands
  <2>2. ProvisionPort(w, k) = <<a>>
    BY DEF ProvisionPort
  <2> HIDE DEF a
  <2> QED  BY <2>1, <2>2, FollowsFew
<1> QED  BY <1>1, <1>2, <1>3, <1>4, <1>5, <1>6, <1>7

(* The opening of a context.                                               *)
LEMMA OpeningFollows ==
  ASSUME ZonesInv, NEW L, NEW c \in 1..Density
  PROVE  Follows(L, Opening(c))
<1>0. n_az \in Nat \ {0} /\ AzWorkers(n_az) \in Nat \ {0}
  BY PlanFacts
<1>1. CASE c = 1
  <2> DEFINE f == [i \in 1..n_az |-> PrepareTest(i - 1)]
  <2>1. ASSUME NEW i \in 1..n_az
        PROVE  Follows(L, f[i])
    <3>1. i - 1 \in Zones
      BY <1>0 DEF Zones
    <3> DEFINE az == i - 1
    <3>2. ASSUME NEW j \in 1..AzWorkers(n_az)
          PROVE  Follows(L, Configure(FirstWorker(az) + j - 1))
      <4>1. FirstWorker(az) + (j - 1) \in AllWorkers
        BY <1>0, <3>1, WorkersOfZone
      <4>2. FirstWorker(az) \in Int
        BY <1>0 DEF FirstWorker
      <4>3. FirstWorker(az) + (j - 1) = FirstWorker(az) + j - 1
        BY <4>2
      <4> QED  BY <3>1, <4>1, <4>3, PlannedParts
    <3>3. \A x \in Range(SetRaftElectionTimeout(az)) \cup Range(StartCentral(az))
                     \cup Range(StartRelay(az)) : NoInterface(x.row)
      BY BareFunctions DEF Bare
    <3>4. \A x \in {SetGlobal(Of("ic-route-learn", az)),
                    SetGlobal(Of("ic-route-adv", az)),
                    SetGlobal(Of("options", az)), SetGlobal(Of("name", az)),
                    SetGlobal(Of("inactivity_probe", az))} : NoInterface(x.row)
      BY BareCommands DEF Of
    <3>5. \A x \in UNION {Range(Configure(FirstWorker(az) + j - 1)) :
                            j \in 1..AzWorkers(n_az)} : AsPlanned(L, x.row)
      BY <3>2 DEF Follows
    <3>6. Follows(L, PrepareTest(az))
      BY <3>3, <3>4, <3>5, PrepareCommands DEF Follows, AsPlanned
    <3> QED  BY <3>6
  <2>2. f = [i \in 1..n_az |-> f[i]] /\ Opening(c) = FlattenSeq(f)
    <3>1. c # Startup /\ c # Density
      BY <1>0, <1>1 DEF Startup, Density
    <3> QED  BY <1>1, <3>1 DEF Opening
  <2> HIDE DEF f
  <2>3. /\ IsList(FlattenSeq(f))
        /\ Range(FlattenSeq(f)) = UNION {Range(f[i]) : i \in 1..n_az}
    BY <1>0, <2>1, <2>2, ListFlatten DEF Follows
  <2> QED  BY <2>1, <2>2, <2>3 DEF Follows
<1>2. CASE c \in {Startup, Density}
  <2>1. Opening(c) = <<>>
    BY <1>0, <1>2 DEF Opening, Startup, Density
  <2> QED  BY <2>1, FollowsFew
<1>3. CASE c # 1 /\ c \notin {Startup, Density}
  <2> DEFINE az == Zone(c)
  <2>1. az \in Zones
    BY <1>0, <1>3 DEF Zone, Zones, Startup, Density
  <2>2. Opening(c) = CreateClusterRouter(az) \o CreateClusterJoinSwitch(az)
                       \o CreateClusterLoadBalancer(az)
                       \o ConnectTransitSwitch(az)
    BY <1>3 DEF Opening
  <2> HIDE DEF az
  <2>3. /\ Follows(L, CreateClusterRouter(az))
        /\ Follows(L, CreateClusterLoadBalancer(az))
    BY BareParts, BareFollows
  <2>4. 0 \in AllWorkers
    BY PlanFacts, PlanAssumption, BringupAssumption DEF AllWorkers
  <2>5. /\ Follows(L, CreateClusterJoinSwitch(az))
        /\ Follows(L, ConnectTransitSwitch(az))
    BY <2>1, <2>4, PlannedParts
  <2>6. Follows(L, CreateClusterRouter(az) \o CreateClusterJoinSwitch(az))
    BY <2>3, <2>5, FollowsConcat
  <2>7. Follows(L, CreateClusterRouter(az) \o CreateClusterJoinSwitch(az)
                       \o CreateClusterLoadBalancer(az))
    BY <2>3, <2>6, FollowsConcat
  <2>8. Follows(L, CreateClusterRouter(az) \o CreateClusterJoinSwitch(az)
                       \o CreateClusterLoadBalancer(az)
                       \o ConnectTransitSwitch(az))
    BY <2>5, <2>7, FollowsConcat
  <2> QED  BY <2>2, <2>8
<1> QED  BY <1>1, <1>2, <1>3

LEMMA BringUpFollows ==
  ASSUME ZonesInv, NEW L, NEW w \in AllWorkers, NPods <= Len(L[w]),
         Len(L[w]) \in Nat
  PROVE  Follows(L, BringUp(w))
<1>0. 0 \in Zones /\ NPods \in Nat
  BY PlanFacts, BringupAssumption DEF Zones
<1>1. /\ Follows(L, NodeSwitch(w)) /\ Follows(L, NodeGateway(w))
      /\ Follows(L, NodeExternal(w))
      /\ Follows(L, ConnectAndWait(w)) /\ Follows(L, NodeRoutes(w))
      /\ Follows(L, ProvisionLoadBalancers(w))
  BY <1>0, PlannedParts, BareParts, BareFollows
<1>2. \A c \in Range(Provision(w)) : AsPlanned(L, c.row)
  BY <1>1, ProvisionCommands DEF Follows
<1>3. ASSUME NEW k \in 1..NPods
      PROVE  /\ Follows(L, ProvisionPort(w, k - 1))
             /\ Follows(L, Bind(w, k - 1, FALSE))
             /\ AsPlanned(L, PingPort(w, k - 1).row)
  <2>1. k - 1 \in 0..(Len(L[w]) - 1)
    BY <1>0
  <2>2. Follows(L, ProvisionPort(w, k - 1))
    BY <1>0, <2>1, PlannedParts
  <2>3. Bind(w, k - 1, FALSE)
          = BindPort(Pod(w, k - 1), Bound(w), Gateway(IntNet(w)))
    BY DEF Bind
  <2>4. Follows(L, Bind(w, k - 1, FALSE))
    BY <2>3, BareParts, BareFollows
  <2>5. AsPlanned(L, PingPort(w, k - 1).row)
    BY DEF PingPort, Ping, Insert, Command, NoInterface, AsPlanned
  <2> QED  BY <2>2, <2>4, <2>5
<1>4. \A c \in Range(ProvisionPorts(w)) : AsPlanned(L, c.row)
  <2> TAKE c \in Range(ProvisionPorts(w))
  <2>1. PICK k \in 1..NPods : \/ c \in Range(ProvisionPort(w, k - 1))
                             \/ c \in Range(Bind(w, k - 1, FALSE))
    <3> DEFINE P == {Range(ProvisionPort(w, k - 1)) : k \in 1..NPods}
               B == {Range(Bind(w, k - 1, FALSE)) : k \in 1..NPods}
    <3>1. c \in (UNION P) \cup (UNION B)
      BY PortsCommands, Zenon
    <3> QED  BY <3>1
  <2> QED  BY <1>3, <2>1 DEF Follows
<1>5. \A c \in Range(ProvisionLoadBalancers(w)) : AsPlanned(L, c.row)
  BY <1>1 DEF Follows
<1>6. \A c \in Range(BringUp(w)) : AsPlanned(L, c.row)
  <2> TAKE c \in Range(BringUp(w))
  <2>1. \/ c \in Range(Provision(w)) \/ c \in Range(ProvisionPorts(w))
        \/ c \in Range(ProvisionLoadBalancers(w))
        \/ \E k \in 1..NPods : c = PingPort(w, k - 1)
    BY BringUpCommands
  <2> QED  BY <1>2, <1>3, <1>4, <1>5, <2>1
<1> QED  BY <1>6, BringUpCommands DEF Follows

LEMMA ClusterPortsFollow ==
  ASSUME ZonesInv, NEW L, NEW az, NEW n \in Nat, NEW passive,
         \A k \in 1..n : /\ Target(az, k) \in AllWorkers
                         /\ NextIndex(az, k) \in 0..(Len(L[Target(az, k)]) - 1)
  PROVE  Follows(L, ClusterPorts(az, n, passive))
<1>0. 0 \in Zones
  BY PlanFacts DEF Zones
<1>1. ASSUME NEW k \in 1..n
      PROVE  \A c \in Range(ProvisionPort(Target(az, k), NextIndex(az, k)))
                        \cup Range(Bind(Target(az, k), NextIndex(az, k), passive)) :
               AsPlanned(L, c.row)
  <2> DEFINE w == Target(az, k)
             j == NextIndex(az, k)
  <2>1. w \in AllWorkers /\ j \in 0..(Len(L[w]) - 1)
    OBVIOUS
  <2> HIDE DEF w, j
  <2>2. Follows(L, ProvisionPort(w, j))
    BY <1>0, <2>1, PlannedParts
  <2>3. Bare(BindPort(Pod(w, j), Bound(w), Gateway(IntNet(w))))
    BY BareParts
  <2>4. \A c \in Range(Bind(w, j, passive)) : AsPlanned(L, c.row)
    BY <2>3, BindCommands DEF Bare, AsPlanned
  <2> QED  BY <2>2, <2>4 DEF w, j, Follows
<1> QED  BY <1>1, ClusterPortsCommands DEF Follows

-----------------------------------------------------------------------------
(* What executing a command leaves of the script and adds to the rows.     *)
LEMMA WorkMoves ==
  ASSUME Work, IsList(todo), IsList(db)
  PROVE  /\ todo # <<>> /\ Head(todo) \in Range(todo)
         /\ IsList(todo') /\ Range(todo') \subseteq Range(todo)
         /\ IsList(db')
         /\ Rows \subseteq Rows' /\ Rows' \subseteq Rows \cup {Head(todo).row}
         /\ UNCHANGED where
<1>1. /\ todo # <<>> /\ (todo' = todo \/ todo' = Tail(todo))
      /\ UNCHANGED where
  BY WorkLeaves DEF Work
<1>2. db' = db \/ db' = Append(db, Head(todo).row)
  <2>1. CASE Execute
    BY <2>1 DEF Execute, Succeeds, Fails, Effect
  <2>2. CASE PingTimesOut
    BY <2>2 DEF PingTimesOut
  <2> QED  BY <2>1, <2>2 DEF Work
<1>3. /\ IsList(todo') /\ Range(todo') \subseteq Range(todo)
      /\ Head(todo) \in Range(todo)
  BY <1>1, ListTail
<1>4. CASE db' = db
  BY <1>1, <1>3, <1>4 DEF Rows
<1>5. CASE db' = Append(db, Head(todo).row)
  <2> DEFINE r == Head(todo).row
  <2>1. IsList(Append(db, r)) /\ Range(Append(db, r)) = Range(db) \cup {r}
    BY ListAppend
  <2> QED  BY <1>1, <1>3, <1>5, <2>1 DEF Rows
<1> QED  BY <1>2, <1>4, <1>5

LEMMA StageInit == Init => StageInv
<1> SUFFICES ASSUME Init PROVE StageInv
  OBVIOUS
<1>1. ZonesInv /\ at = 1 /\ stage = "enter" /\ todo = <<>> /\ db = <<>>
      /\ context = NewContext("none", 0)
      /\ lports = [w \in AllWorkers |-> <<>>]
      /\ selected = [az \in Zones |-> 0]
  BY DEF Init, ScriptInit, ContextInit, ZonesInv
<1>2. IsList(todo) /\ IsList(db)
  BY <1>1, ListFew
<1>3. n_az \in Nat \ {0} /\ AzWorkers(n_az) \in Nat \ {0}
  BY <1>1, PlanFacts
<1>4. lports \in [AllWorkers -> Seq(BOOLEAN)]
  BY <1>1
<1>5. selected \in [Zones -> 0..(AzWorkers(n_az) - 1)]
  BY <1>1, <1>3
<1>6. at \in 1..(Density + 1)
  BY <1>1, <1>3 DEF Density
<1>7. /\ context = [name |-> context.name, max |-> context.max,
                    iteration |-> context.iteration,
                    started |-> context.started, failed |-> context.failed]
      /\ context.iteration = -1
  BY <1>1 DEF NewContext, Before
<1> QED  BY <1>1, <1>2, <1>4, <1>5, <1>6, <1>7 DEF StageInv, Before

(* The parts of the configuration do not change.                           *)
LEMMA PlanStays ==
  ASSUME n_az' = n_az
  PROVE  /\ Zones' = Zones /\ Density' = Density
         /\ \A c : Iterations(c)' = Iterations(c)
         /\ ZonesInv <=> ZonesInv'
BY DEF Zones, Density, Startup, Iterations, ZonesInv

LEMMA IterateLists ==
  ASSUME StageInv, Iterate
  PROVE  /\ IsList(todo')
         /\ lports' \in [AllWorkers -> Seq(BOOLEAN)]
         /\ selected' \in [Zones -> 0..(AzWorkers(n_az) - 1)]
         /\ \A w \in AllWorkers : Len(lports[w]) <= Len(lports'[w])
         /\ \A c \in Range(todo') : AsPlanned(lports', c.row)
<1>0. /\ ZonesInv /\ lports \in [AllWorkers -> Seq(BOOLEAN)]
      /\ selected \in [Zones -> 0..(AzWorkers(n_az) - 1)]
      /\ NPods \in Nat
  BY BringupAssumption DEF StageInv
<1> SUFFICES /\ Follows(lports', todo')
             /\ lports' \in [AllWorkers -> Seq(BOOLEAN)]
             /\ selected' \in [Zones -> 0..(AzWorkers(n_az) - 1)]
             /\ \A w \in AllWorkers : Len(lports[w]) <= Len(lports'[w])
  BY DEF Follows
<1>1. ASSUME NEW az \in Zones, NEW n \in Nat, NEW passive \in BOOLEAN,
             AddPorts(az, n, passive)
      PROVE  /\ lports' \in [AllWorkers -> Seq(BOOLEAN)]
             /\ selected' \in [Zones -> 0..(AzWorkers(n_az) - 1)]
             /\ \A w \in AllWorkers : Len(lports[w]) <= Len(lports'[w])
             /\ Follows(lports', ClusterPorts(az, n, passive)
                                   \o AddToNamespace(ClusterPods(az, n)))
  <2>1. /\ lports' \in [AllWorkers -> Seq(BOOLEAN)]
        /\ selected' \in [Zones -> 0..(AzWorkers(n_az) - 1)]
        /\ \A w \in AllWorkers :
             Len(lports'[w]) = Len(lports[w]) + Share(az, n, w)
    <3>1. /\ lports' \in [AllWorkers -> Seq(BOOLEAN)]
          /\ selected' \in [Zones -> 0..(AzWorkers(n_az) - 1)]
          /\ \A w \in AllWorkers :
               /\ Len(lports'[w]) = Len(lports[w]) + Share(az, n, w)
               /\ \A i \in 1..Len(lports[w]) : lports'[w][i] = lports[w][i]
               /\ \A i \in (Len(lports[w]) + 1)..Len(lports'[w]) :
                    lports'[w][i] = passive
      BY <1>1, PortsGrow, Zenon
    <3> QED  BY <3>1
  <2>2. \A w \in AllWorkers : Len(lports[w]) \in Nat /\ Share(az, n, w) \in Nat
    BY <1>0, SharesAreFinite
  <2>3. ASSUME NEW k \in 1..n
        PROVE  /\ Target(az, k) \in AllWorkers
               /\ NextIndex(az, k) \in 0..(Len(lports'[Target(az, k)]) - 1)
    <3>1. Target(az, k) \in AllWorkers
      BY TargetIsWorker
    <3>2. /\ NextIndex(az, k) \in Nat
          /\ NextIndex(az, k)
               < Len(lports[Target(az, k)]) + Share(az, n, Target(az, k))
      BY IndexFits
    <3> QED  BY <2>1, <2>2, <3>1, <3>2
  <2>4. Follows(lports', ClusterPorts(az, n, passive))
    BY <1>0, <2>3, ClusterPortsFollow
  <2>5. Follows(lports', AddToNamespace(ClusterPods(az, n)))
    BY <1>0, BareFunctions, BareFollows
  <2>6. Follows(lports', ClusterPorts(az, n, passive)
                           \o AddToNamespace(ClusterPods(az, n)))
    BY <2>4, <2>5, FollowsConcat
  <2> QED  BY <2>1, <2>2, <2>6
<1>2. ASSUME NEW az \in Zones, NEW n, StartupBody(az, n)
      PROVE  /\ Follows(lports', todo')
             /\ lports' \in [AllWorkers -> Seq(BOOLEAN)]
             /\ selected' \in [Zones -> 0..(AzWorkers(n_az) - 1)]
             /\ \A w \in AllWorkers : Len(lports[w]) <= Len(lports'[w])
  <2>1. n \in Nat
    BY <1>0, <1>2, DistributeIsNat DEF StartupBody
  <2> QED  BY <1>1, <1>2, <2>1 DEF StartupBody
<1>3. ASSUME NEW az \in Zones, DensityBody(az)
      PROVE  /\ Follows(lports', todo')
             /\ lports' \in [AllWorkers -> Seq(BOOLEAN)]
             /\ selected' \in [Zones -> 0..(AzWorkers(n_az) - 1)]
             /\ \A w \in AllWorkers : Len(lports[w]) <= Len(lports'[w])
  <2> DEFINE s == ClusterPorts(az, 1, FALSE) \o AddToNamespace(ClusterPods(az, 1))
             t == <<PingPort(Target(az, 1), NextIndex(az, 1))>>
  <2>1. AddPorts(az, 1, FALSE) /\ todo' = s \o t
    BY <1>3 DEF DensityBody
  <2>2. Follows(lports', t)
    BY BareParts, BareFollows
  <2>3. /\ lports' \in [AllWorkers -> Seq(BOOLEAN)]
        /\ selected' \in [Zones -> 0..(AzWorkers(n_az) - 1)]
        /\ \A w \in AllWorkers : Len(lports[w]) <= Len(lports'[w])
        /\ Follows(lports', s)
    BY <1>1, <2>1
  <2> HIDE DEF s, t
  <2> QED  BY <2>1, <2>2, <2>3, FollowsConcat
<1>4. ASSUME NEW az \in Zones, NEW i, BringUpBody(az, i)
      PROVE  /\ Follows(lports', todo')
             /\ lports' \in [AllWorkers -> Seq(BOOLEAN)]
             /\ selected' \in [Zones -> 0..(AzWorkers(n_az) - 1)]
             /\ \A w \in AllWorkers : Len(lports[w]) <= Len(lports'[w])
  <2> DEFINE w == FirstWorker(az) + i
             new == [k \in 1..NPods |-> FALSE]
  <2>1. w \in AllWorkers
    BY <1>0, <1>4, WorkersOfZone DEF BringUpBody
  <2>2. /\ lports' = [lports EXCEPT ![w] = lports[w] \o new]
        /\ selected' = selected /\ todo' = BringUp(w)
    BY <1>4 DEF BringUpBody
  <2>3. new \in Seq(BOOLEAN) /\ Len(new) = NPods
    BY <1>0
  <2> HIDE DEF w, new
  <2>4. /\ lports[w] \o new \in Seq(BOOLEAN)
        /\ Len(lports[w] \o new) = Len(lports[w]) + NPods
        /\ Len(lports[w]) \in Nat
    <3> DEFINE B == BOOLEAN
               s == lports[w]
    <3>1. s \in Seq(B) /\ new \in Seq(B) /\ Len(s) \in Nat
      BY <1>0, <2>1, <2>3
    <3> HIDE DEF B, s
    <3>2. s \o new \in Seq(B) /\ Len(s \o new) = Len(s) + Len(new)
      BY <3>1, ConcatProperties
    <3> QED  BY <2>3, <3>1, <3>2 DEF B, s
  <2>5. /\ lports' \in [AllWorkers -> Seq(BOOLEAN)]
        /\ Len(lports'[w]) = Len(lports[w]) + NPods
        /\ \A v \in AllWorkers \ {w} : lports'[v] = lports[v]
    BY <1>0, <2>1, <2>2, <2>4
  <2>6. \A v \in AllWorkers : Len(lports[v]) <= Len(lports'[v])
    <3> TAKE v \in AllWorkers
    <3>1. Len(lports[v]) \in Nat
      BY <1>0
    <3>2. CASE v = w
      BY <1>0, <2>4, <2>5, <3>2
    <3>3. CASE v # w
      BY <2>5, <3>1, <3>3
    <3> QED  BY <3>2, <3>3
  <2>7. Follows(lports', BringUp(w))
    BY <1>0, <2>1, <2>4, <2>5, BringUpFollows
  <2> QED  BY <1>0, <2>2, <2>5, <2>6, <2>7
<1>5. Zone(at) \in Zones \/ ~BringUpBody(Zone(at), context.iteration + 1)
  BY DEF BringUpBody
<1> QED  BY <1>2, <1>3, <1>4, <1>5, BodyCases
         DEF StartupBody, DensityBody, BringUpBody

LEMMA StageStep == StageInv /\ [Next]_vars => StageInv'
<1> SUFFICES ASSUME StageInv, [Next]_vars PROVE StageInv'
  OBVIOUS
<1>0. n_az' = n_az
  BY DEF Next, vars, where, Enter, Top, Iterate, StopIteration,
         Leave, Finish, Work, EndOfScript
<1>1. /\ ZonesInv /\ n_az \in Nat \ {0} /\ AzWorkers(n_az) \in Nat
      /\ at \in 1..(Density + 1) /\ Density \in Nat
  BY PlanFacts DEF StageInv, Density
<1>2. /\ ZonesInv' /\ Density' = Density /\ Zones' = Zones
      /\ AzWorkers(n_az)' = AzWorkers(n_az)
      /\ \A c : Iterations(c)' = Iterations(c)
  BY <1>0, <1>1, PlanStays
<1>3. CASE Enter
  <2>1. /\ context' = NewContext(Name(at), Iterations(at))
        /\ stage = "enter" /\ at <= Density /\ todo' = Opening(at)
        /\ stage' = IF at = 1 THEN "leave" ELSE "top"
        /\ UNCHANGED <<n_az, at, lports, selected, db>>
    BY <1>3 DEF Enter, EnterContext, Begin
  <2>2. IsList(todo')
    <3>1. at \in 1..Density
      BY <1>1, <2>1
    <3>2. Follows(lports, Opening(at))
      BY <1>1, <3>1, OpeningFollows
    <3> QED  BY <2>1, <3>2 DEF Follows
  <2>3. /\ context' = [name |-> context'.name, max |-> context'.max,
                       iteration |-> context'.iteration,
                       started |-> context'.started, failed |-> context'.failed]
        /\ context'.iteration = -1 /\ context'.max = Iterations(at)
    BY <2>1 DEF NewContext, Before
  <2>4. Iterations(at)' = Iterations(at)
    BY <1>0, <2>1 DEF Iterations, Startup, Density
  <2> QED  BY <1>1, <1>2, <2>1, <2>2, <2>3, <2>4 DEF StageInv, Before
<1>4. CASE Top
  <2>1. /\ context' = [context EXCEPT !.started = TRUE, !.failed = FALSE]
        /\ stage = "top" /\ stage' = "advance"
        /\ todo' = External(at, context.iteration)
        /\ UNCHANGED <<n_az, at, lports, selected, db>>
    BY <1>4 DEF Top, Conclude, Begin
  <2>2. IsList(todo')
    BY <1>1, <2>1, BareStages DEF Bare
  <2>3. /\ context' = [name |-> context'.name, max |-> context'.max,
                       iteration |-> context'.iteration,
                       started |-> context'.started, failed |-> context'.failed]
        /\ context'.iteration = context.iteration /\ context'.max = context.max
    BY <2>1 DEF StageInv
  <2>4. Iterations(at)' = Iterations(at)
    BY <1>0, <2>1 DEF Iterations, Startup, Density
  <2> QED  BY <1>2, <2>1, <2>2, <2>3, <2>4 DEF StageInv
<1>5. CASE Iterate
  <2>1. /\ context' = [context EXCEPT !.iteration = context.iteration + 1]
        /\ stage = "advance" /\ stage' = "top"
        /\ UNCHANGED <<n_az, at>>
    BY <1>5 DEF Iterate, NextIteration
  <2>2. UNCHANGED db
    BY <1>5 DEF Iterate, Body, Begin
  <2>3. /\ IsList(todo')
        /\ lports' \in [AllWorkers -> Seq(BOOLEAN)]
        /\ selected' \in [Zones -> 0..(AzWorkers(n_az) - 1)]
    BY <1>5, IterateLists
  <2>4. /\ context' = [name |-> context'.name, max |-> context'.max,
                       iteration |-> context'.iteration,
                       started |-> context'.started, failed |-> context'.failed]
        /\ context'.iteration = context.iteration + 1
        /\ context'.max = context.max
        /\ context.iteration \in Int /\ context.iteration >= -1
    BY <2>1 DEF StageInv, Before
  <2>5. Iterations(at)' = Iterations(at)
    BY <1>0, <2>1 DEF Iterations, Startup, Density
  <2> QED  BY <1>2, <2>1, <2>2, <2>3, <2>4, <2>5 DEF StageInv, Before
<1>6. CASE StopIteration
  <2>1. /\ stage = "advance" /\ stage' = "leave" /\ todo' = Closing(at)
        /\ UNCHANGED <<stats, n_az, at, lports, selected, db>>
    BY <1>6 DEF StopIteration, Begin
  <2>2. IsList(todo')
    BY <1>1, <2>1, BareStages DEF Bare
  <2> QED  BY <1>2, <2>1, <2>2 DEF StageInv, stats
<1>7. CASE Leave
  <2>1. /\ stage = "leave" /\ stage' = "enter" /\ at' = at + 1
        /\ todo' = Sync(at) \o Following(at)
        /\ UNCHANGED <<stats, n_az, lports, selected, db>>
    BY <1>7 DEF Leave, Begin
  <2>2. IsList(todo')
    BY <1>1, <2>1, BareStages DEF Bare
  <2>3. at' \in 1..(Density' + 1)
    BY <1>1, <1>2, <2>1 DEF StageInv
  <2> QED  BY <1>2, <2>1, <2>2, <2>3 DEF StageInv, stats
<1>8. CASE Work
  <2>1. IsList(todo') /\ IsList(db') /\ UNCHANGED where
    BY <1>8, WorkMoves DEF StageInv
  <2>2. UNCHANGED stats \/ AddFailure
    BY <1>8, WorkLeaves
  <2>3. /\ context' = [name |-> context'.name, max |-> context'.max,
                       iteration |-> context'.iteration,
                       started |-> context'.started, failed |-> context'.failed]
        /\ context'.iteration = context.iteration
        /\ context'.max = context.max
    BY <2>2 DEF StageInv, stats, AddFailure
  <2>4. Iterations(at)' = Iterations(at)
    BY <2>1 DEF where, Iterations, Startup, Density
  <2> QED  BY <1>2, <2>1, <2>3, <2>4 DEF StageInv, where
<1>9. ASSUME UNCHANGED <<stats, where, todo, db>>
      PROVE  StageInv'
  <2>1. Iterations(at)' = Iterations(at)
    BY <1>9 DEF where, Iterations, Startup, Density
  <2> QED  BY <1>2, <1>9, <2>1 DEF StageInv, where, stats
<1> QED
  BY <1>3, <1>4, <1>5, <1>6, <1>7, <1>8, <1>9
     DEF Next, Finish, EndOfScript, End, vars, script

-----------------------------------------------------------------------------
(***************************************************************************)
(* No command gives an object an address that is not in the plan.          *)
(***************************************************************************)
AddressInv ==
  /\ StageInv
  /\ \A r \in Rows : AsPlanned(lports, r)
  /\ \A c \in Range(todo) : AsPlanned(lports, c.row)

LEMMA PlannedGrows ==
  ASSUME NEW L \in [AllWorkers -> Seq(BOOLEAN)],
         NEW M \in [AllWorkers -> Seq(BOOLEAN)],
         \A w \in AllWorkers : Len(L[w]) <= Len(M[w]),
         NEW r, AsPlanned(L, r)
  PROVE  AsPlanned(M, r)
<1>1. \A w \in AllWorkers : Len(L[w]) \in Nat /\ Len(M[w]) \in Nat
  OBVIOUS
<1>2. \A w \in AllWorkers : 0..(Len(L[w]) - 1) \subseteq 0..(Len(M[w]) - 1)
  BY <1>1
<1>3. \A x, a : Planned(L, x, a) => Planned(M, x, a)
  BY <1>2 DEF Planned
<1> QED  BY <1>3 DEF AsPlanned

LEMMA PlanIsThePlan ==
  ASSUME n_az' = n_az, NEW r, AsPlanned(lports', r)
  PROVE  AsPlanned(lports, r)'
BY DEF AsPlanned, Planned, NoInterface, Zones, GwNet, JoinIp, ZoneOf

LEMMA AddressInit == Init => AddressInv
<1> SUFFICES ASSUME Init PROVE AddressInv
  OBVIOUS
<1>1. db = <<>> /\ todo = <<>>
  BY DEF Init, ScriptInit
<1>2. Rows = {} /\ Range(todo) = {}
  BY <1>1, ListFew DEF Rows
<1> QED  BY <1>2, StageInit DEF AddressInv

LEMMA AddressStep == AddressInv /\ [Next]_vars => AddressInv'
<1> SUFFICES ASSUME AddressInv, [Next]_vars PROVE AddressInv'
  OBVIOUS
<1>0. n_az' = n_az
  BY DEF Next, vars, where, Enter, Top, Iterate, StopIteration,
         Leave, Finish, Work, EndOfScript
<1>1. /\ StageInv /\ StageInv' /\ ZonesInv
      /\ lports \in [AllWorkers -> Seq(BOOLEAN)]
      /\ lports' \in [AllWorkers -> Seq(BOOLEAN)]
      /\ \A r \in Rows : AsPlanned(lports, r)
      /\ \A c \in Range(todo) : AsPlanned(lports, c.row)
  BY StageStep DEF AddressInv, StageInv
<1> SUFFICES /\ \A r \in Rows' : AsPlanned(lports', r)
             /\ \A c \in Range(todo') : AsPlanned(lports', c.row)
  BY <1>0, <1>1, PlanIsThePlan DEF AddressInv
<1>2. ASSUME UNCHANGED <<db, lports>>, Follows(lports, todo')
      PROVE  /\ \A r \in Rows' : AsPlanned(lports', r)
             /\ \A c \in Range(todo') : AsPlanned(lports', c.row)
  BY <1>1, <1>2 DEF Rows, Follows
<1>3. CASE Enter
  <2>1. /\ at \in 1..Density /\ todo' = Opening(at) /\ UNCHANGED <<db, lports>>
    BY <1>1, <1>3 DEF Enter, Begin, StageInv
  <2>2. Follows(lports, Opening(at))
    BY <1>1, <2>1, OpeningFollows
  <2> QED  BY <1>2, <2>1, <2>2
<1>4. CASE Top \/ StopIteration \/ Leave
  <2>1. /\ UNCHANGED <<db, lports>>
        /\ todo' \in {External(at, context.iteration), Closing(at),
                      Sync(at) \o Following(at)}
    BY <1>4 DEF Top, StopIteration, Leave, Begin
  <2>2. Bare(todo')
    BY <1>1, <2>1, BareStages
  <2> QED  BY <1>2, <2>1, <2>2, BareFollows
<1>5. CASE Iterate
  <2>1. db' = db
    BY <1>5 DEF Iterate, Body, Begin
  <2>2. /\ \A w \in AllWorkers : Len(lports[w]) <= Len(lports'[w])
        /\ \A c \in Range(todo') : AsPlanned(lports', c.row)
    BY <1>1, <1>5, IterateLists
  <2>3. \A r \in Rows : AsPlanned(lports', r)
    BY <1>1, <2>2, PlannedGrows
  <2> QED  BY <2>1, <2>2, <2>3 DEF Rows
<1>6. CASE Work
  <2>1. /\ Head(todo) \in Range(todo) /\ Range(todo') \subseteq Range(todo)
        /\ Rows' \subseteq Rows \cup {Head(todo).row} /\ lports' = lports
    BY <1>1, <1>6, WorkMoves DEF StageInv, where
  <2> QED  BY <1>1, <2>1
<1>7. CASE UNCHANGED <<db, todo, lports>>
  BY <1>1, <1>7 DEF Rows
<1> QED
  BY <1>3, <1>4, <1>5, <1>6, <1>7
     DEF Next, Finish, EndOfScript, End, vars, script, where

(***************************************************************************)
(* An address tells whose it is, as long as no worker has more ports than  *)
(* its network has addresses besides that of the router.                   *)
(***************************************************************************)
PodsFit == \A w \in AllWorkers : Len(lports[w]) + 2 < NetSize

Holder(a) ==
  CASE a[1] = "ts"  -> TsRp(a[3])
    [] a[1] = "int" -> IF a[3] = NetSize - 2 THEN NodeRp(a[2])
                       ELSE Pod(a[2], a[3] - 1)
    [] a[1] = "ext" -> IF a[3] = NetSize - 2 THEN ExtRp(a[2])
                       ELSE ExtNs(a[2])
    [] a[1] = "gw"  -> IF a[3] = NetSize - 2
                       THEN JoinRp(a[2] \div AzWorkers(n_az))
                       ELSE GwRp(NetSize - 3 - a[3])

LEMMA PlannedHolder ==
  ASSUME StageInv, PodsFit, NEW x, NEW a, Planned(lports, x, a)
  PROVE  x = Holder(a)
<1>0. /\ NetSize \in Nat /\ AzWorkers(n_az) \in Nat \ {0} /\ NWorkers \in Nat
      /\ n_az \in Nat \ {0}
      /\ \A w \in AllWorkers : w \in Nat /\ Len(lports[w]) \in Nat
  BY PlanFacts, PlanAssumption DEF StageInv, AllWorkers
<1>1. ASSUME NEW az \in Zones, x = JoinRp(az), a = Gateway(GwNet(az))
      PROVE  x = Holder(a)
  <2>1. /\ a[1] = "gw" /\ a[2] = az * AzWorkers(n_az) /\ a[3] = NetSize - 1 - 1
    BY <1>1 DEF Gateway, FromEnd, GwNet
  <2>2. (az * AzWorkers(n_az) + 0) \div AzWorkers(n_az) = az
    <3> DEFINE k == AzWorkers(n_az)
    <3>1. k \in Nat \ {0} /\ az \in Nat /\ 0 \in 0..(k - 1)
      BY <1>0 DEF Zones
    <3> HIDE DEF k
    <3>2. \A j \in 0..(k - 1) : (az * k + j) \div k = az
      BY <3>1, BlockOf
    <3>3. (az * k + 0) \div k = az
      BY <3>1, <3>2, Zenon
    <3> QED  BY <3>3, Zenon DEF k
  <2>3. az * AzWorkers(n_az) + 0 = az * AzWorkers(n_az)
    BY <1>0 DEF Zones
  <2>4. a[3] = NetSize - 2
    BY <1>0, <2>1
  <2> QED  BY <1>1, <2>1, <2>2, <2>3, <2>4 DEF Holder
<1>2. ASSUME NEW az \in Zones, x = TsRp(az), a = Forward(TsNet, az)
      PROVE  x = Holder(a)
  BY <1>2 DEF Forward, TsNet, Holder
<1>3. ASSUME NEW w \in AllWorkers, x = NodeRp(w), a = Gateway(IntNet(w))
      PROVE  x = Holder(a)
  <2>1. a[1] = "int" /\ a[2] = w /\ a[3] = NetSize - 2
    BY <1>0, <1>3 DEF Gateway, FromEnd, IntNet
  <2> QED  BY <1>3, <2>1 DEF Holder
<1>4. ASSUME NEW w \in AllWorkers, x = GwRp(w), a = JoinIp(w)
      PROVE  x = Holder(a)
  <2>1. a[1] = "gw" /\ a[3] = NetSize - 1 - (w + 2)
    BY <1>4 DEF JoinIp, FromEnd, GwNet
  <2>2. a[3] # NetSize - 2 /\ NetSize - 3 - a[3] = w
    BY <1>0, <2>1
  <2> QED  BY <1>4, <2>1, <2>2 DEF Holder
<1>5. ASSUME NEW w \in AllWorkers, x = ExtRp(w), a = Gateway(ExtNet(w))
      PROVE  x = Holder(a)
  <2>1. a[1] = "ext" /\ a[2] = w /\ a[3] = NetSize - 2
    BY <1>0, <1>5 DEF Gateway, FromEnd, ExtNet
  <2> QED  BY <1>5, <2>1 DEF Holder
<1>6. ASSUME NEW w \in AllWorkers, x = ExtNs(w), a = ExtHostIp(w)
      PROVE  x = Holder(a)
  <2>1. a[1] = "ext" /\ a[2] = w /\ a[3] = NetSize - 1 - 2
    BY <1>6 DEF ExtHostIp, FromEnd, ExtNet
  <2>2. a[3] # NetSize - 2
    BY <1>0, <2>1
  <2> QED  BY <1>6, <2>1, <2>2 DEF Holder
<1>7. ASSUME NEW w \in AllWorkers, NEW k \in 0..(Len(lports[w]) - 1),
             x = Pod(w, k), a = Forward(IntNet(w), k + 1)
      PROVE  x = Holder(a)
  <2>1. a[1] = "int" /\ a[2] = w /\ a[3] = k + 1
    BY <1>7 DEF Forward, IntNet
  <2>2. a[3] # NetSize - 2 /\ a[3] - 1 = k
    BY <1>0, <2>1 DEF PodsFit
  <2> QED  BY <1>7, <2>1, <2>2 DEF Holder
<1> QED  BY <1>1, <1>2, <1>3, <1>4, <1>5, <1>6, <1>7 DEF Planned

(***************************************************************************)
(* For any number of zones, workers and ports, and whatever commands fail: *)
(* as long as the ports of each worker fit its network, no two interfaces  *)
(* have the same address.                                                  *)
(***************************************************************************)
THEOREM AddressesUniqueWhilePodsFit == Spec => [](PodsFit => AddressesAreUnique)
<1>1. AddressInv => (PodsFit => AddressesAreUnique)
  <2> SUFFICES ASSUME AddressInv, PodsFit,
                      NEW i \in Interfaces, NEW j \in Interfaces, i[2] = j[2]
               PROVE  i[1] = j[1]
    BY DEF AddressesAreUnique
  <2>1. \A e \in Interfaces : Planned(lports, e[1], e[2])
    <3> TAKE e \in Interfaces
    <3>1. CASE \E r \in Rows : /\ r[1] = "in" /\ r[4] # None
                               /\ r[2][1] \notin {"netns", "ping", "ext-ns"}
                               /\ e = <<r[2], r[4]>>
      BY <3>1 DEF AddressInv, AsPlanned, NoInterface
    <3>2. CASE \E r \in Rows : /\ r[1] = "in" /\ r[2][1] = "ext-ns"
                               /\ e = <<r[2], r[4][1]>>
      BY <3>2 DEF AddressInv, AsPlanned, NoInterface
    <3> QED  BY <3>1, <3>2 DEF Interfaces
  <2>2. StageInv
    BY DEF AddressInv
  <2>3. i[1] = Holder(i[2]) /\ j[1] = Holder(j[2])
    BY <2>1, <2>2, PlannedHolder
  <2> QED  BY <2>3
<1> QED  BY <1>1, AddressInit, AddressStep, PTL DEF Spec

-----------------------------------------------------------------------------
(***************************************************************************)
(* How far the bring-up is: the workers whose iterations have begun.       *)
(***************************************************************************)
BroughtUp(az, i) ==
  \/ az < Zone(at)
  \/ az = Zone(at) /\ stage # "enter" /\ i <= context.iteration

(* The iterations of a bring-up are those of all workers of the zone, the  *)
(* context is the one entered last, and a worker has no ports before.      *)
PlaceInv ==
  /\ at \in 2..(n_az + 1) /\ stage # "enter" =>
       context.iteration < AzWorkers(n_az)
  /\ at \in 2..(n_az + 1) /\ stage = "leave" =>
       context.iteration = AzWorkers(n_az) - 1
  /\ pc \in {"idle", "done"} => todo = <<>>
  /\ Entered > 0 => context.name = Name(Entered)
  /\ Entered = 0 => context.name = "none"
  /\ at <= n_az + 1 =>
       \A az \in Zones, i \in 0..(AzWorkers(n_az) - 1) :
         ~BroughtUp(az, i) => lports[FirstWorker(az) + i] = <<>>

LEMMA PlanIsFixed == [Next]_vars => n_az' = n_az
BY DEF Next, vars, where, Enter, Top, Iterate, StopIteration, Leave, Finish,
       Work, EndOfScript

LEMMA BroughtUpMoves ==
  ASSUME StageInv, PlaceInv, [Next]_vars,
         NEW az \in Zones, NEW i \in 0..(AzWorkers(n_az) - 1)
  PROVE  BroughtUp(az, i)' <=>
           \/ BroughtUp(az, i)
           \/ Iterate /\ az = Zone(at) /\ i = context.iteration + 1
<1>1. /\ n_az \in Nat \ {0} /\ AzWorkers(n_az) \in Nat \ {0}
      /\ az \in 0..(n_az - 1) /\ at \in 1..(n_az + 4)
      /\ context.iteration \in Int /\ context.iteration >= -1
  BY PlanFacts DEF StageInv, Zones, Density, Before
<1>2. CASE Enter
  <2>1. /\ stage = "enter" /\ at' = at /\ context'.iteration = -1
        /\ ~Iterate
    BY <1>2 DEF Enter, EnterContext, NewContext, Before, Iterate
  <2> QED  BY <1>1, <2>1 DEF BroughtUp, Zone
<1>3. CASE Top
  <2>1. /\ stage = "top" /\ stage' = "advance" /\ at' = at /\ ~Iterate
        /\ context' = [context EXCEPT !.started = TRUE, !.failed = FALSE]
    BY <1>3 DEF Top, Conclude, Iterate
  <2>2. context'.iteration = context.iteration
    BY <2>1 DEF StageInv
  <2> QED  BY <2>1, <2>2 DEF BroughtUp, Zone
<1>4. CASE Iterate
  <2>1. /\ stage = "advance" /\ stage' = "top" /\ at' = at
        /\ context' = [context EXCEPT !.iteration = @ + 1]
    BY <1>4 DEF Iterate, NextIteration
  <2>2. context'.iteration = context.iteration + 1
    BY <2>1 DEF StageInv
  <2> QED  BY <1>1, <1>4, <2>1, <2>2 DEF BroughtUp, Zone
<1>5. CASE StopIteration
  <2>1. /\ stage = "advance" /\ stage' = "leave" /\ at' = at /\ ~Iterate
        /\ context' = context
    BY <1>5 DEF StopIteration, Iterate, NextIteration, stats
  <2> QED  BY <2>1 DEF BroughtUp, Zone
<1>6. CASE Leave
  <2>1. /\ stage = "leave" /\ stage' = "enter" /\ at' = at + 1 /\ ~Iterate
    BY <1>6 DEF Leave, Iterate
  <2>2. at \in 2..(n_az + 1) => context.iteration = AzWorkers(n_az) - 1
    BY <2>1 DEF PlaceInv
  <2> QED  BY <1>1, <2>1, <2>2 DEF BroughtUp, Zone
<1>7. CASE Work
  <2>1. /\ UNCHANGED where /\ pc = "busy" /\ (UNCHANGED stats \/ AddFailure)
    BY <1>7, WorkLeaves DEF Work, Execute, PingTimesOut
  <2>2. context'.iteration = context.iteration
    BY <2>1 DEF StageInv, stats, AddFailure
  <2>3. ~Iterate
    BY <2>1 DEF Iterate, Body, Begin
  <2> QED  BY <2>1, <2>2, <2>3 DEF BroughtUp, Zone, where
<1>8. CASE Finish \/ EndOfScript \/ UNCHANGED vars
  <2>1. UNCHANGED where /\ UNCHANGED stats
    BY <1>8 DEF Finish, EndOfScript, End, vars
  <2>2. ~Iterate
    BY <2>1 DEF where, Iterate
  <2> QED  BY <2>1, <2>2 DEF BroughtUp, Zone, where, stats
<1> QED
  BY <1>2, <1>3, <1>4, <1>5, <1>6, <1>7, <1>8 DEF Next

LEMMA PlaceInit == Init => PlaceInv
<1> SUFFICES ASSUME Init PROVE PlaceInv
  OBVIOUS
<1>1. /\ at = 1 /\ stage = "enter" /\ todo = <<>> /\ context.name = "none"
      /\ lports = [w \in AllWorkers |-> <<>>] /\ ZonesInv
  BY DEF Init, ScriptInit, ContextInit, NewContext, ZonesInv
<1>2. \A az \in Zones, i \in 0..(AzWorkers(n_az) - 1) :
        FirstWorker(az) + i \in AllWorkers
  BY <1>1, WorkersOfZone
<1> QED  BY <1>1, <1>2 DEF PlaceInv, Entered

(* An iteration of a bring-up is that of one worker.                       *)
LEMMA WorkersDiffer ==
  ASSUME ZonesInv, NEW az \in Zones, NEW i \in 0..(AzWorkers(n_az) - 1),
         NEW bz \in Zones, NEW j \in 0..(AzWorkers(n_az) - 1),
         FirstWorker(az) + i = FirstWorker(bz) + j
  PROVE  az = bz /\ i = j
<1>1. az = bz
  BY WorkersOfZone
<1>2. FirstWorker(az) \in Int /\ i \in Int /\ j \in Int
  BY PlanFacts DEF FirstWorker, Zones
<1> QED  BY <1>1, <1>2

LEMMA PlaceStep == StageInv /\ PlaceInv /\ [Next]_vars => PlaceInv'
<1> SUFFICES ASSUME StageInv, PlaceInv, [Next]_vars PROVE PlaceInv'
  OBVIOUS
<1>0. /\ n_az' = n_az /\ AzWorkers(n_az)' = AzWorkers(n_az) /\ Zones' = Zones
      /\ \A az : FirstWorker(az)' = FirstWorker(az)
      /\ \A c : Name(c)' = Name(c)
  BY PlanIsFixed DEF Zones, FirstWorker, Name, Startup, Density
<1>1. /\ n_az \in Nat \ {0} /\ AzWorkers(n_az) \in Nat \ {0}
      /\ at \in 1..(n_az + 4) /\ ZonesInv
      /\ context.iteration \in Int /\ context.iteration >= -1
      /\ stage \in {"enter", "top", "advance", "leave"}
  BY PlanFacts DEF StageInv, Zones, Density, Before
<1>2. ASSUME NEW c \in 2..(n_az + 1)
      PROVE  Iterations(c) = AzWorkers(n_az)
  BY <1>1 DEF Iterations, Startup, Density
<1>3. ASSUME NEW az \in Zones, NEW i \in 0..(AzWorkers(n_az) - 1),
             at' <= n_az + 1, ~BroughtUp(az, i)'
      PROVE  lports'[FirstWorker(az) + i] = <<>>
  <2>1. ~BroughtUp(az, i)
    BY <1>3, BroughtUpMoves
  <2>2. at' = at \/ at' = at + 1
    BY DEF Next, vars, where, Enter, Top, Iterate, StopIteration, Leave,
           Finish, Work, EndOfScript
  <2>3. lports[FirstWorker(az) + i] = <<>>
    BY <1>1, <1>3, <2>1, <2>2 DEF PlaceInv
  <2>4. CASE Iterate
    <3> DEFINE n == context.iteration + 1
    <3>1. at' = at
      BY <2>4 DEF Iterate
    <3>2. BringUpBody(Zone(at), n)
      <4>1. \/ StartupBody(n, Distribute(NStartup, n_az, n))
            \/ DensityBody(n % n_az)
            \/ BringUpBody(Zone(at), n)
        BY <2>4, BodyCases
      <4>2. at # Startup /\ at # Density
        BY <1>1, <1>3, <3>1 DEF Startup, Density
      <4> QED  BY <4>1, <4>2 DEF StartupBody, DensityBody
    <3>3. FirstWorker(az) + i # FirstWorker(Zone(at)) + n
      <4>1. az # Zone(at) \/ i # n
        BY <1>3, <2>4, BroughtUpMoves
      <4> QED  BY <1>1, <3>2, <4>1, WorkersDiffer DEF BringUpBody
    <3>4. FirstWorker(az) + i \in AllWorkers
      BY <1>1, WorkersOfZone
    <3> QED
      BY <2>3, <3>2, <3>3, <3>4 DEF BringUpBody, StageInv
  <2>5. CASE ~Iterate
    <3>1. lports' = lports
      BY <2>5 DEF Next, vars, where, Enter, Top, StopIteration, Leave,
                  Finish, Work, EndOfScript
    <3> QED  BY <2>3, <3>1
  <2> QED  BY <2>4, <2>5
<1>4. at' <= n_az' + 1 =>
        (\A az \in Zones, i \in 0..(AzWorkers(n_az) - 1) :
           ~BroughtUp(az, i) => lports[FirstWorker(az) + i] = <<>>)'
  BY <1>0, <1>3
<1>5. CASE Enter
  <2>1. /\ context' = NewContext(Name(at), Iterations(at)) /\ at' = at
        /\ stage' \in {"leave", "top"} /\ (stage' = "leave" => at = 1)
        /\ pc' = "busy"
    BY <1>5 DEF Enter, EnterContext, Begin
  <2>2. context'.name = Name(at) /\ context'.iteration = -1
    BY <2>1 DEF NewContext, Before
  <2> QED  BY <1>0, <1>1, <1>4, <2>1, <2>2 DEF PlaceInv, Entered
<1>6. CASE Top
  <2>1. /\ context' = [context EXCEPT !.started = TRUE, !.failed = FALSE]
        /\ stage = "top" /\ stage' = "advance" /\ pc' = "busy" /\ at' = at
    BY <1>6 DEF Top, Conclude, Begin
  <2>2. context'.name = context.name /\ context'.iteration = context.iteration
    BY <2>1 DEF StageInv
  <2> QED  BY <1>0, <1>1, <1>4, <2>1, <2>2 DEF PlaceInv, Entered
<1>7. CASE Iterate
  <2>1. /\ context' = [context EXCEPT !.iteration = @ + 1]
        /\ stage = "advance" /\ stage' = "top" /\ at' = at
        /\ context.iteration < context.max - 1
    BY <1>7 DEF Iterate, NextIteration, MoreIterations
  <2>2. /\ context'.name = context.name
        /\ context'.iteration = context.iteration + 1
        /\ context.max = Iterations(at)
    BY <2>1 DEF StageInv
  <2>3. pc' = "busy"
    BY <1>7 DEF Iterate, Body, Begin
  <2> QED  BY <1>0, <1>1, <1>2, <1>4, <2>1, <2>2, <2>3 DEF PlaceInv, Entered
<1>8. CASE StopIteration
  <2>1. /\ context' = context /\ stage = "advance" /\ stage' = "leave"
        /\ ~(context.iteration < context.max - 1) /\ at' = at /\ pc' = "busy"
        /\ context.max = Iterations(at)
    BY <1>8 DEF StopIteration, stats, MoreIterations, Begin, StageInv
  <2> QED  BY <1>0, <1>1, <1>2, <1>4, <2>1 DEF PlaceInv, Entered
<1>9. CASE Leave
  <2>1. /\ context' = context /\ stage = "leave" /\ stage' = "enter"
        /\ at' = at + 1 /\ pc' = "busy"
    BY <1>9 DEF Leave, stats, Begin
  <2> QED  BY <1>0, <1>1, <1>4, <2>1 DEF PlaceInv, Entered
<1>10. CASE Work
  <2>1. /\ UNCHANGED where /\ (UNCHANGED stats \/ AddFailure)
        /\ pc = "busy" /\ pc' \in {"busy", "dead"}
    BY <1>10, WorkLeaves DEF Work, Execute, PingTimesOut, Advance, Stop
  <2>2. context'.iteration = context.iteration /\ context'.name = context.name
    BY <2>1 DEF StageInv, stats, AddFailure
  <2> QED  BY <1>0, <1>1, <1>4, <2>1, <2>2 DEF PlaceInv, Entered, where
<1>11. CASE Finish \/ EndOfScript \/ UNCHANGED vars
  <2>1. /\ UNCHANGED <<at, stage, context, todo>>
        /\ pc' \in {"idle", "done"} => todo = <<>>
    BY <1>11 DEF Finish, EndOfScript, End, vars, where, stats, script, PlaceInv
  <2> QED  BY <1>0, <1>1, <1>4, <2>1 DEF PlaceInv, Entered
<1> QED
  BY <1>5, <1>6, <1>7, <1>8, <1>9, <1>10, <1>11 DEF Next

-----------------------------------------------------------------------------
(***************************************************************************)
(* Commands that are executed leave something behind: what they make, or a *)
(* line in the log, or a failed measurement; or the end of the run.        *)
(***************************************************************************)
Ensured(c) ==
  \/ c.row \in Rows \cup logged \cup measured
  \/ "retry" \in c.fails /\ Exists(c.row[2])

Tracked(s) == \A c \in Range(s) : c \in Range(todo) \/ Ensured(c)

(* Without its UUID a row is lost: the log says of which object only.      *)
Keeps(s) == \A c \in Range(s) : "lose" \notin c.fails

LEMMA ListHead ==
  ASSUME NEW s, IsList(s), s # <<>>
  PROVE  Range(s) \subseteq {Head(s)} \cup Range(Tail(s))
<1>1. /\ s \in Seq(Range(s)) /\ Len(s) \in Nat
      /\ Tail(s) \in Seq(Range(s)) /\ Len(Tail(s)) = Len(s) - 1
      /\ \A j \in 1..Len(Tail(s)) : Tail(s)[j] = s[j + 1]
      /\ Head(s) = s[1] /\ DOMAIN s = 1..Len(s)
      /\ DOMAIN Tail(s) = 1..Len(Tail(s))
  BY HeadTailProperties DEF IsList
<1> SUFFICES ASSUME NEW k \in 1..Len(s)
             PROVE  s[k] \in {Head(s)} \cup Range(Tail(s))
  BY <1>1 DEF Range
<1>2. CASE k = 1
  BY <1>1, <1>2
<1>3. CASE k # 1
  <2>1. k - 1 \in 1..Len(Tail(s)) /\ (k - 1) + 1 = k
    BY <1>1, <1>3
  <2>2. Tail(s)[k - 1] = s[k]
    BY <1>1, <2>1
  <2> QED  BY <1>1, <2>1, <2>2 DEF Range
<1> QED  BY <1>2, <1>3

LEMMA EnsuredStays ==
  ASSUME Rows \subseteq Rows', logged \subseteq logged',
         measured \subseteq measured', NEW c, Ensured(c)
  PROVE  Ensured(c)'
BY DEF Ensured, Exists

LEMMA WorkEnsures ==
  ASSUME StageInv, Work, NEW c, c \in Range(todo) \/ Ensured(c),
         "lose" \notin c.fails
  PROVE  (c \in Range(todo) \/ Ensured(c))'
<1>1. /\ todo # <<>> /\ IsList(todo) /\ IsList(db) /\ Rows \subseteq Rows'
  BY WorkMoves DEF StageInv
<1>2. logged \subseteq logged' /\ measured \subseteq measured'
  <2>1. CASE Execute
    BY <2>1 DEF Execute
  <2>2. CASE PingTimesOut
    BY <2>2 DEF PingTimesOut
  <2> QED  BY <2>1, <2>2 DEF Work
<1>3. CASE Ensured(c)
  BY <1>1, <1>2, <1>3, EnsuredStays
<1>4. CASE c \in Range(todo) /\ todo' = todo
  BY <1>4
<1>5. CASE c \in Range(Tail(todo)) /\ todo' = Tail(todo)
  BY <1>5
<1>6. CASE c = Head(todo) /\ todo' = Tail(todo) /\ todo' # todo
  <2>1. CASE PingTimesOut
    <3>1. c.row \in measured'
      BY <1>6, <2>1 DEF PingTimesOut, Stop
    <3> QED  BY <3>1 DEF Ensured
  <2>2. CASE Execute /\ db' = Append(db, c.row)
    <3>1. c.row \in Rows'
      <4> DEFINE r == c.row
      <4>1. Range(Append(db, r)) = Range(db) \cup {r}
        BY <1>1, ListAppend
      <4> QED  BY <2>2, <4>1 DEF Rows
    <3> QED  BY <3>1 DEF Ensured
  <2>3. CASE Execute /\ db' # Append(db, c.row)
    <3>1. \/ /\ Succeeds(c)
          \/ c.row \in logged' \cup measured'
      BY <1>6, <2>3 DEF Execute, Stop
    <3>2. Succeeds(c) => "retry" \in c.fails /\ Exists(c.row[2]) /\ db' = db
      BY <2>3 DEF Succeeds, Effect
    <3> QED  BY <3>1, <3>2 DEF Ensured, Exists, Rows
  <2> QED  BY <2>1, <2>2, <2>3 DEF Work
<1>7. todo' = todo \/ todo' = Tail(todo)
  BY WorkLeaves
<1>8. c \in Range(todo) => c = Head(todo) \/ c \in Range(Tail(todo))
  BY <1>1, ListHead
<1> QED  BY <1>3, <1>4, <1>5, <1>6, <1>7, <1>8

(* A script is begun when the one before it has been executed.             *)
LEMMA TrackedStays ==
  ASSUME StageInv, PlaceInv, [Next]_vars, NEW s, Tracked(s), Keeps(s)
  PROVE  \A c \in Range(s) : (c \in Range(todo) \/ Ensured(c))'
<1> SUFFICES ASSUME NEW c \in Range(s)
             PROVE  (c \in Range(todo) \/ Ensured(c))'
  OBVIOUS
<1>1. (c \in Range(todo) \/ Ensured(c)) /\ "lose" \notin c.fails
  BY DEF Tracked, Keeps
<1>2. CASE Enter \/ Top \/ Iterate \/ StopIteration \/ Leave
  <2>1. UNCHANGED <<db, logged, measured>> /\ pc = "idle"
    BY <1>2 DEF Enter, Top, Iterate, StopIteration, Leave, Body, Begin
  <2>2. Range(todo) = {}
    BY <2>1, ListFew DEF PlaceInv
  <2> QED  BY <1>1, <2>1, <2>2, EnsuredStays DEF Rows
<1>3. CASE Work
  BY <1>1, <1>3, WorkEnsures
<1>4. CASE Finish \/ EndOfScript \/ UNCHANGED vars
  <2>1. UNCHANGED <<db, logged, measured, todo>>
    BY <1>4 DEF Finish, EndOfScript, End, vars, script
  <2> QED  BY <1>1, <2>1, EnsuredStays DEF Rows
<1> QED  BY <1>2, <1>3, <1>4 DEF Next

-----------------------------------------------------------------------------
(***************************************************************************)
(* What the scripts are made of that a path consists of, and which of      *)
(* their commands fail as measurements.                                    *)
(***************************************************************************)
LEMMA OpeningOfTest ==
  ASSUME ZonesInv
  PROVE  Range(Opening(1)) = UNION {Range(PrepareTest(i - 1)) : i \in 1..n_az}
<1>0. n_az \in Nat \ {0}
  BY PlanFacts
<1> DEFINE f == [i \in 1..n_az |-> PrepareTest(i - 1)]
<1>1. /\ f = [i \in 1..n_az |-> f[i]]
      /\ \A i \in 1..n_az : IsList(f[i]) /\ f[i] = PrepareTest(i - 1)
  BY PrepareCommands
<1>2. Opening(1) = FlattenSeq(f)
  BY <1>0 DEF Opening, Startup, Density
<1> HIDE DEF f
<1>3. Range(FlattenSeq(f)) = UNION {Range(f[i]) : i \in 1..n_az}
  BY <1>0, <1>1, ListFlatten
<1>4. {Range(f[i]) : i \in 1..n_az} = {Range(PrepareTest(i - 1)) : i \in 1..n_az}
  BY <1>1
<1> QED  BY <1>2, <1>3, <1>4

LEMMA OpeningOfZone ==
  ASSUME ZonesInv, NEW az \in Zones
  PROVE  Range(Opening(az + 2)) =
           Range(CreateClusterRouter(az)) \cup Range(CreateClusterJoinSwitch(az))
             \cup Range(CreateClusterLoadBalancer(az))
             \cup Range(ConnectTransitSwitch(az))
<1> DEFINE a == CreateClusterRouter(az)
           b == CreateClusterJoinSwitch(az)
           c == CreateClusterLoadBalancer(az)
           d == ConnectTransitSwitch(az)
<1>1. IsList(a) /\ IsList(b) /\ IsList(c) /\ IsList(d)
  <2>1. IsList(a) /\ IsList(b) /\ IsList(c)
    BY ListFew DEF CreateClusterRouter, CreateClusterJoinSwitch,
                   CreateClusterLoadBalancer
  <2>2. IsList(d)
    <3>1. CASE n_az = 1
      BY <3>1, ListFew DEF ConnectTransitSwitch
    <3>2. CASE n_az # 1
      BY <3>2, ListFew DEF ConnectTransitSwitch
    <3> QED  BY <3>1, <3>2
  <2> QED  BY <2>1, <2>2
<1>2. Opening(az + 2) = a \o b \o c \o d
  <2>1. /\ az + 2 # 1 /\ az + 2 # Startup /\ az + 2 # Density
        /\ Zone(az + 2) = az
    BY PlanFacts DEF Zones, Startup, Density, Zone
  <2> QED  BY <2>1 DEF Opening
<1> HIDE DEF a, b, c, d
<1>3. IsList(a \o b) /\ Range(a \o b) = Range(a) \cup Range(b)
  BY <1>1, ListConcat
<1>4. /\ IsList(a \o b \o c)
      /\ Range(a \o b \o c) = Range(a) \cup Range(b) \cup Range(c)
  BY <1>1, <1>3, ListConcat
<1>5. Range(a \o b \o c \o d) = Range(a) \cup Range(b) \cup Range(c) \cup Range(d)
  BY <1>1, <1>4, ListConcat
<1> QED  BY <1>2, <1>5 DEF a, b, c, d

(* The opening of a zone makes its join switch, that of the test the       *)
(* external hosts.                                                         *)
LEMMA OpeningMakes ==
  ASSUME ZonesInv, NEW az \in Zones
  PROVE  /\ Range(CreateClusterJoinSwitch(az)) \subseteq Range(Opening(az + 2))
         /\ \A i \in 0..(AzWorkers(n_az) - 1) :
              Range(Configure(FirstWorker(az) + i)) \subseteq Range(Opening(1))
<1>1. Range(CreateClusterJoinSwitch(az)) \subseteq Range(Opening(az + 2))
  BY OpeningOfZone
<1>2. ASSUME NEW i \in 0..(AzWorkers(n_az) - 1)
      PROVE  Range(Configure(FirstWorker(az) + i)) \subseteq Range(Opening(1))
  <2>1. /\ az + 1 \in 1..n_az /\ (az + 1) - 1 = az
        /\ i + 1 \in 1..AzWorkers(n_az)
        /\ FirstWorker(az) + (i + 1) - 1 = FirstWorker(az) + i
    BY PlanFacts DEF Zones, FirstWorker
  <2>2. Range(PrepareTest(az)) \subseteq Range(Opening(1))
    BY <2>1, OpeningOfTest
  <2> DEFINE C == UNION {Range(Configure(FirstWorker(az) + j - 1)) :
                           j \in 1..AzWorkers(n_az)}
  <2>3. Range(Configure(FirstWorker(az) + i)) \subseteq C
    BY <2>1
  <2>4. C \subseteq Range(PrepareTest(az))
    BY PrepareCommands
  <2> QED  BY <2>2, <2>3, <2>4
<1> QED  BY <1>1, <1>2

Silent(s) == \A c \in Range(s) : "measure" \notin c.fails

LEMMA QuietIsSilent ==
  ASSUME NEW s, Quiet(s)
  PROVE  Silent(s)
<1>1. PICK S : s \in Seq(S) /\ \A c \in S : "measure" \notin c.fails
  BY DEF Quiet
<1>2. Range(s) \subseteq S
  BY <1>1, ListOf
<1> QED  BY <1>1, <1>2 DEF Silent

LEMMA SilentFunction ==
  ASSUME NEW k \in Int, NEW s, s = [i \in 1..k |-> s[i]],
         \A i \in 1..k : "measure" \notin s[i].fails
  PROVE  Silent(s)
BY ListFunction DEF Silent

LEMMA OpeningIsSilent ==
  ASSUME ZonesInv, NEW c \in 1..Density
  PROVE  Silent(Opening(c))
<1>0. /\ n_az \in Nat \ {0} /\ AzWorkers(n_az) \in Nat /\ NCentral \in Nat
      /\ NRelays \in Nat /\ RaftElectionTo \in Nat
  BY PlanFacts, PlanAssumption, BringupAssumption
<1>1. \A x : "measure" \notin Shell(x).fails
  BY DEF Shell, Insert, Command
<1>2. ASSUME NEW w PROVE Silent(Configure(w))
  BY ListFew DEF Configure, Silent, SetGlobalExternalId, Insert, Command
<1>3. ASSUME NEW az \in Zones PROVE Silent(PrepareTest(az))
  <2>1. Silent(SetRaftElectionTimeout(az))
    <3>1. CASE NCentral = 1
      BY <3>1, ListFew DEF SetRaftElectionTimeout, Silent
    <3>2. CASE NCentral # 1
      <4> DEFINE k == (RaftElectionTo - 1) * NCentral
                 s == [i \in 1..k |-> Shell(<<"election-timer", az, i>>)]
      <4>1. k \in Int /\ SetRaftElectionTimeout(az) = s
        BY <1>0, <3>2 DEF SetRaftElectionTimeout
      <4>2. /\ s = [i \in 1..k |-> s[i]]
            /\ \A i \in 1..k : "measure" \notin s[i].fails
        BY <1>1
      <4> HIDE DEF k, s
      <4> QED  BY <4>1, <4>2, SilentFunction
    <3> QED  BY <3>1, <3>2
  <2>2. Silent(StartCentral(az))
    <3> DEFINE s == StartCentral(az)
    <3>1. /\ s = [i \in 1..NCentral |-> s[i]]
          /\ \A i \in 1..NCentral : "measure" \notin s[i].fails
      BY <1>1 DEF StartCentral
    <3> HIDE DEF s
    <3>2. Silent(s)
      BY <1>0, <3>1, SilentFunction
    <3> QED  BY <3>2 DEF s
  <2>3. Silent(StartRelay(az))
    <3> DEFINE s == StartRelay(az)
    <3>1. /\ s = [i \in 1..NRelays |-> s[i]]
          /\ \A i \in 1..NRelays : "measure" \notin s[i].fails
      BY <1>1 DEF StartRelay
    <3> HIDE DEF s
    <3>2. Silent(s)
      BY <1>0, <3>1, SilentFunction
    <3> QED  BY <3>2 DEF s
  <2>4. \A x : "measure" \notin SetGlobal(x).fails
    BY DEF SetGlobal, Insert, Command
  <2>5. \A x \in UNION {Range(Configure(FirstWorker(az) + j - 1)) :
                          j \in 1..AzWorkers(n_az)} : "measure" \notin x.fails
    BY <1>2 DEF Silent
  <2> QED
    BY <2>1, <2>2, <2>3, <2>4, <2>5, PrepareCommands DEF Silent
<1>4. CASE c = 1
  <2>1. \A i \in 1..n_az : i - 1 \in Zones
    BY <1>0 DEF Zones
  <2> QED  BY <1>3, <1>4, <2>1, OpeningOfTest DEF Silent
<1>5. CASE c \in {Startup, Density}
  <2>1. Opening(c) = <<>>
    BY <1>0, <1>5 DEF Opening, Startup, Density
  <2> QED  BY <2>1, ListFew DEF Silent
<1>6. CASE c # 1 /\ c \notin {Startup, Density}
  <2> DEFINE az == c - 2
  <2>1. az \in Zones /\ c = az + 2
    BY <1>0, <1>6 DEF Zones, Startup, Density
  <2> HIDE DEF az
  <2>2. /\ Silent(CreateClusterRouter(az))
        /\ Silent(CreateClusterJoinSwitch(az))
        /\ Silent(CreateClusterLoadBalancer(az))
    BY ListFew
       DEF Silent, CreateClusterRouter, CreateClusterJoinSwitch,
           CreateClusterLoadBalancer, LrAdd, LrSetOptions, LsAdd, LrPortAdd,
           LsPortAdd, CreateLb, LbSetVips, Insert, Set, Change, Command
  <2>3. Silent(ConnectTransitSwitch(az))
    <3>1. CASE n_az = 1
      BY <3>1, ListFew DEF ConnectTransitSwitch, Silent
    <3>2. CASE n_az # 1
      BY <3>2, ListFew
         DEF ConnectTransitSwitch, Silent, LrPortAdd, LsPortAdd,
             LrPortSetGwChassis, SetGlobalExternalId, Insert, Set, Change,
             Command
    <3> QED  BY <3>1, <3>2
  <2> QED  BY <2>1, <2>2, <2>3, OpeningOfZone DEF Silent
<1> QED  BY <1>4, <1>5, <1>6

(* The scripts that make a path lose no row.                               *)
LEMMA PathsKeep ==
  ASSUME NEW az, NEW w, NEW k, NEW passive
  PROVE  /\ Keeps(CreateClusterJoinSwitch(az)) /\ Keeps(Configure(w))
         /\ Keeps(Provision(w)) /\ Keeps(ProvisionPort(w, k))
         /\ Keeps(Bind(w, k, passive))
<1>1. Keeps(CreateClusterJoinSwitch(az)) /\ Keeps(Configure(w))
      /\ Keeps(ProvisionPort(w, k))
  BY ListFew DEF Keeps, CreateClusterJoinSwitch, Configure, ProvisionPort,
                 LsAdd, LrPortAdd, LsPortAdd, SetGlobalExternalId, Insert,
                 Command
<1>2. /\ Keeps(ConnectAndWait(w)) /\ Keeps(NodeSwitch(w))
      /\ Keeps(NodeGateway(w))
  BY ListFew DEF Keeps, ConnectAndWait, NodeSwitch, NodeGateway, LsAdd, LrAdd,
                 LrSetOptions, LrPortAdd, LsPortAdd, LrPortSetGwChassis,
                 SetGlobalExternalId, Insert, Set, Change, Command
<1>3. Keeps(NodeExternal(w)) /\ Keeps(NodeRoutes(w))
  BY ListFew DEF Keeps, NodeExternal, NodeRoutes, LsAdd, LrPortAdd, LsPortAdd,
                 LsPortSetType, LsPortSetOptions, RouteAdd, NatAdd, Insert,
                 Set, Change, Command
<1>4. Keeps(Provision(w))
  BY <1>2, <1>3, ProvisionCommands DEF Keeps
<1>5. Keeps(BindPort(Pod(w, k), Bound(w), Gateway(IntNet(w))))
  BY ListFew DEF Keeps, BindPort, AddPort, BindVmPort, Insert, Change, Command
<1>6. Keeps(Bind(w, k, passive))
  BY <1>5, BindCommands DEF Keeps
<1> QED  BY <1>1, <1>4, <1>6

(* The pings of an iteration are those of the pods of its worker.          *)
LEMMA PingsOfBringUp ==
  ASSUME NEW w
  PROVE  \A c \in Range(BringUp(w)) :
           "measure" \in c.fails /\ c.row[2][1] = "ping" =>
             \E k \in 1..NPods : c = PingPort(w, k - 1)
<1>1. \A c \in Range(ConnectAndWait(w)) : c.row[2][1] # "ping"
  BY ListFew DEF ConnectAndWait, SetGlobalExternalId, Bound, Of, Insert, Command
<1>2. \A c \in Range(NodeSwitch(w)) \cup Range(NodeGateway(w)) :
        "measure" \notin c.fails
  BY ListFew DEF NodeSwitch, NodeGateway, LsAdd, LrAdd, LrSetOptions, LrPortAdd,
                 LsPortAdd, LrPortSetGwChassis, Insert, Set, Change, Command
<1>3. /\ \A c \in Range(NodeExternal(w)) : "measure" \notin c.fails
      /\ \A c \in Range(NodeRoutes(w)) : "measure" \notin c.fails
  <2>1. \A c \in Range(NodeExternal(w)) : "measure" \notin c.fails
    BY ListFew DEF NodeExternal, LsAdd, LrPortAdd, LsPortAdd, LsPortSetType,
                   LsPortSetOptions, Insert, Set, Change, Command
  <2>2. \A c \in Range(NodeRoutes(w)) : "measure" \notin c.fails
    BY ListFew DEF NodeRoutes, RouteAdd, NatAdd, Set, Change, Command
  <2> QED  BY <2>1, <2>2
<1>4. \A c \in Range(ProvisionLoadBalancers(w)) : "measure" \notin c.fails
  BY ListFew DEF ProvisionLoadBalancers, LbSetVips, LbAddTo, CreateLb, Refer,
                 Insert, Set, Change, Command
<1>5. ASSUME NEW c \in Range(ProvisionPorts(w)), "measure" \in c.fails
      PROVE  c.row[2][1] # "ping"
  <2>1. PICK k \in 1..NPods : \/ c \in Range(ProvisionPort(w, k - 1))
                             \/ c \in Range(Bind(w, k - 1, FALSE))
    <3> DEFINE P == {Range(ProvisionPort(w, k - 1)) : k \in 1..NPods}
               B == {Range(Bind(w, k - 1, FALSE)) : k \in 1..NPods}
    <3>1. c \in (UNION P) \cup (UNION B)
      BY PortsCommands, Zenon
    <3> QED  BY <3>1
  <2>2. \A d \in Range(ProvisionPort(w, k - 1)) : "measure" \notin d.fails
    BY ListFew DEF ProvisionPort, LsPortAdd, Insert, Command
  <2>3. \A d \in Range(BindPort(Pod(w, k - 1), Bound(w), Gateway(IntNet(w)))) :
          "measure" \in d.fails => d.row[2][1] # "ping"
    BY ListFew DEF BindPort, AddPort, BindVmPort, Netns, Insert, Change, Command
  <2> QED  BY <1>5, <2>1, <2>2, <2>3, BindCommands
<1>6. \A c \in Range(Provision(w)) :
        "measure" \in c.fails => c.row[2][1] # "ping"
  BY <1>1, <1>2, <1>3, ProvisionCommands
<1> SUFFICES ASSUME NEW c \in Range(BringUp(w)), "measure" \in c.fails,
                    c.row[2][1] = "ping"
             PROVE  \E k \in 1..NPods : c = PingPort(w, k - 1)
  OBVIOUS
<1>7. \/ c \in Range(Provision(w)) \/ c \in Range(ProvisionPorts(w))
      \/ c \in Range(ProvisionLoadBalancers(w))
      \/ \E k \in 1..NPods : c = PingPort(w, k - 1)
  BY BringUpCommands
<1> QED  BY <1>4, <1>5, <1>6, <1>7

-----------------------------------------------------------------------------
(***************************************************************************)
(* Everything a path consists of has been executed or is still to be.      *)
(***************************************************************************)
TrackInv ==
  /\ at > 1 \/ stage = "leave" =>
       \A az \in Zones, i \in 0..(AzWorkers(n_az) - 1) :
         Tracked(Configure(FirstWorker(az) + i))
  /\ \A az \in Zones :
       az < Zone(at) \/ (az = Zone(at) /\ stage # "enter") =>
         Tracked(CreateClusterJoinSwitch(az))
  /\ \A az \in Zones, i \in 0..(AzWorkers(n_az) - 1) :
       BroughtUp(az, i) => Tracked(Provision(FirstWorker(az) + i))
  /\ \A v \in AllWorkers : \A k \in Active(v) :
       /\ \E az \in Zones, i \in 0..(AzWorkers(n_az) - 1) :
            v = FirstWorker(az) + i /\ BroughtUp(az, i)
       /\ Tracked(ProvisionPort(v, k - 1)) /\ Tracked(Bind(v, k - 1, FALSE))

(* The ports an iteration adds that are no passive ones.                   *)
LEMMA ActiveMoves ==
  ASSUME StageInv, PlaceInv, Iterate, NEW v \in AllWorkers, NEW k \in Active(v)'
  PROVE  \/ k \in Active(v)
         \/ \E az \in Zones : /\ DensityBody(az)
                              /\ v = Target(az, 1) /\ k = NextIndex(az, 1) + 1
         \/ /\ BringUpBody(Zone(at), context.iteration + 1)
            /\ v = FirstWorker(Zone(at)) + (context.iteration + 1)
            /\ k \in 1..NPods
<1> DEFINE n == context.iteration + 1
<1>0. /\ ZonesInv /\ lports \in [AllWorkers -> Seq(BOOLEAN)] /\ NPods \in Nat
      /\ n_az \in Nat \ {0}
  BY PlanFacts, BringupAssumption DEF StageInv
<1>1. /\ n \in Nat
      /\ \/ StartupBody(n, Distribute(NStartup, n_az, n))
         \/ DensityBody(n % n_az)
         \/ BringUpBody(Zone(at), n)
  BY BodyCases
<1>2. k \in DOMAIN lports'[v] /\ ~lports'[v][k]
  BY DEF Active
<1>3. ASSUME NEW az \in Zones, NEW m \in Nat, NEW passive \in BOOLEAN,
             AddPorts(az, m, passive), k \notin Active(v)
      PROVE  /\ ~passive
             /\ k \in (Len(lports[v]) + 1)..(Len(lports[v]) + Share(az, m, v))
  <2>1. /\ lports' \in [AllWorkers -> Seq(BOOLEAN)]
        /\ \A w \in AllWorkers :
             /\ Len(lports'[w]) = Len(lports[w]) + Share(az, m, w)
             /\ \A i \in 1..Len(lports[w]) : lports'[w][i] = lports[w][i]
             /\ \A i \in (Len(lports[w]) + 1)..Len(lports'[w]) :
                  lports'[w][i] = passive
    BY <1>3, PortsGrow, Zenon
  <2>2. /\ lports[v] \in Seq(BOOLEAN) /\ lports'[v] \in Seq(BOOLEAN)
        /\ Len(lports[v]) \in Nat /\ Len(lports'[v]) \in Nat
        /\ DOMAIN lports[v] = 1..Len(lports[v])
        /\ DOMAIN lports'[v] = 1..Len(lports'[v])
    BY <1>0, <2>1
  <2>3. k \notin 1..Len(lports[v])
    <3> SUFFICES ASSUME k \in 1..Len(lports[v]) PROVE FALSE
      OBVIOUS
    <3>1. lports'[v][k] = lports[v][k]
      BY <2>1
    <3> QED  BY <1>2, <1>3, <2>2, <3>1 DEF Active
  <2>4. k \in (Len(lports[v]) + 1)..Len(lports'[v])
    BY <1>2, <2>2, <2>3
  <2> QED  BY <1>2, <2>1, <2>4
<1>4. ASSUME NEW az \in Zones, NEW m, StartupBody(az, m)
      PROVE  k \in Active(v)
  <2>1. m \in Nat /\ AddPorts(az, m, TRUE)
    BY <1>0, <1>4, DistributeIsNat DEF StartupBody
  <2> QED  BY <1>3, <2>1
<1>5. ASSUME NEW az \in Zones, DensityBody(az), k \notin Active(v)
      PROVE  v = Target(az, 1) /\ k = NextIndex(az, 1) + 1
  <2>1. k \in (Len(lports[v]) + 1)..(Len(lports[v]) + Share(az, 1, v))
    BY <1>3, <1>5 DEF DensityBody
  <2>2. Len(lports[v]) \in Nat
    BY <1>0
  <2>3. v = Target(az, 1)
    <3> SUFFICES ASSUME v # Target(az, 1) PROVE FALSE
      OBVIOUS
    <3>1. {j \in 1..1 : Target(az, j) = v} = {}
      OBVIOUS
    <3>2. Share(az, 1, v) = 0
      BY <3>1, FS_EmptySet DEF Share
    <3> QED  BY <2>1, <2>2, <3>2
  <2>4. Share(az, 1, v) = 1
    <3>1. {j \in 1..1 : Target(az, j) = v} = {1}
      BY <2>3
    <3> QED  BY <3>1, FS_Singleton DEF Share
  <2>5. NextIndex(az, 1) = Len(lports[v])
    <3>1. SameWorker(az, 1, 1 - 1) = {}
      BY DEF SameWorker
    <3>2. Cardinality(SameWorker(az, 1, 1 - 1)) = 0
      BY <3>1, FS_EmptySet
    <3> QED  BY <2>2, <2>3, <3>2 DEF NextIndex
  <2> QED  BY <2>1, <2>2, <2>3, <2>4, <2>5
<1>6. ASSUME BringUpBody(Zone(at), n), k \notin Active(v)
      PROVE  v = FirstWorker(Zone(at)) + n /\ k \in 1..NPods
  <2> DEFINE w == FirstWorker(Zone(at)) + n
             new == [j \in 1..NPods |-> FALSE]
  <2>1. /\ Zone(at) \in Zones /\ n \in 0..(AzWorkers(n_az) - 1)
        /\ at = Zone(at) + 2
        /\ lports' = [lports EXCEPT ![w] = lports[w] \o new]
    BY <1>6 DEF BringUpBody
  <2>2. w \in AllWorkers
    BY <1>0, <2>1, WorkersOfZone
  <2>3. lports[w] = <<>>
    <3>1. ~BroughtUp(Zone(at), n)
      BY <2>1 DEF BroughtUp, StageInv, Zone
    <3>2. at <= n_az + 1
      BY <1>0, <2>1 DEF Zones
    <3> QED  BY <2>1, <3>1, <3>2 DEF PlaceInv
  <2>4. new \in Seq({FALSE}) /\ DOMAIN new = 1..NPods
    BY <1>0
  <2> HIDE DEF w, new
  <2>5. v = w
    BY <1>0, <1>2, <1>6, <2>1, <2>2 DEF Active
  <2>6. lports'[w] = <<>> \o new
    BY <1>0, <2>1, <2>2, <2>3
  <2>7. <<>> \o new = new
    BY <2>4, ConcatEmptySeq
  <2> QED  BY <1>2, <2>4, <2>5, <2>6, <2>7 DEF w
<1>7. n % n_az \in Zones
  BY <1>0, <1>1, Division DEF Zones
<1> QED  BY <1>1, <1>4, <1>5, <1>6, <1>7 DEF StartupBody

LEMMA ScriptsStay ==
  ASSUME n_az' = n_az
  PROVE  /\ Zones' = Zones /\ AzWorkers(n_az)' = AzWorkers(n_az)
         /\ \A az : FirstWorker(az)' = FirstWorker(az)
         /\ \A az : CreateClusterJoinSwitch(az)' = CreateClusterJoinSwitch(az)
         /\ \A w : Provision(w)' = Provision(w)
BY DEF Zones, FirstWorker, CreateClusterJoinSwitch, Provision, ConnectAndWait,
       NodeSwitch, NodeGateway, NodeExternal, NodeRoutes, GwNet, JoinIp, ZoneOf

LEMMA TrackInit == Init => TrackInv
<1> SUFFICES ASSUME Init PROVE TrackInv
  OBVIOUS
<1>1. /\ at = 1 /\ stage = "enter" /\ ZonesInv
      /\ lports = [w \in AllWorkers |-> <<>>]
  BY DEF Init, ZonesInv
<1>2. \A az \in Zones : ~(az < Zone(at)) /\ az # Zone(at)
  BY <1>1, PlanFacts DEF Zones, Zone
<1>3. \A v \in AllWorkers : Active(v) = {}
  BY <1>1 DEF Active
<1>4. \A az \in Zones, i \in 0..(AzWorkers(n_az) - 1) : ~BroughtUp(az, i)
  BY <1>2 DEF BroughtUp
<1>5. ~(at > 1 \/ stage = "leave")
  BY <1>1
<1> QED  BY <1>2, <1>3, <1>4, <1>5 DEF TrackInv

LEMMA TrackStep ==
  StageInv /\ PlaceInv /\ TrackInv /\ [Next]_vars => TrackInv'
<1> SUFFICES ASSUME StageInv, PlaceInv, TrackInv, [Next]_vars PROVE TrackInv'
  OBVIOUS
<1>0. /\ ZonesInv /\ n_az \in Nat \ {0} /\ at \in 1..(n_az + 4)
      /\ context.iteration \in Int
      /\ stage \in {"enter", "top", "advance", "leave"}
      /\ stage \in {"top", "advance"} => at # 1
  BY PlanFacts DEF StageInv, Density
<1>1. /\ n_az' = n_az /\ Zones' = Zones /\ AzWorkers(n_az)' = AzWorkers(n_az)
      /\ \A az : FirstWorker(az)' = FirstWorker(az)
      /\ \A az : CreateClusterJoinSwitch(az)' = CreateClusterJoinSwitch(az)
      /\ \A w : Provision(w)' = Provision(w)
  BY PlanIsFixed, ScriptsStay
<1> DEFINE Still(s) == \A c \in Range(s) : (c \in Range(todo) \/ Ensured(c))'
<1>2. \A s : Tracked(s) /\ Keeps(s) => Still(s)
  BY TrackedStays
<1>3. ASSUME NEW s, Range(s) \subseteq Range(todo') PROVE Still(s)
  BY <1>3
<1>4. \/ at' = at
      \/ Leave /\ at' = at + 1 /\ stage = "leave" /\ stage' = "enter"
  BY DEF Next, vars, where, Enter, Top, Iterate, StopIteration, Leave,
         Finish, Work, EndOfScript
<1>5. \/ stage' = stage
      \/ Enter /\ stage = "enter" /\ at' = at /\ todo' = Opening(at)
      \/ at' = at /\ stage \in {"top", "advance"}
      \/ stage = "leave" /\ stage' = "enter" /\ at' = at + 1
  BY DEF Next, vars, where, Enter, Top, Iterate, StopIteration, Leave,
         Finish, Work, EndOfScript, Begin
<1>6. ASSUME at' > 1 \/ stage' = "leave",
             NEW az \in Zones, NEW i \in 0..(AzWorkers(n_az) - 1)
      PROVE  Still(Configure(FirstWorker(az) + i))
  <2> DEFINE s == Configure(FirstWorker(az) + i)
  <2>1. CASE at > 1 \/ stage = "leave"
    <3>1. Tracked(s) /\ Keeps(s)
      BY <2>1, PathsKeep DEF TrackInv
    <3> QED  BY <1>2, <3>1
  <2>2. CASE ~(at > 1 \/ stage = "leave")
    <3>1. at = 1 /\ todo' = Opening(1)
      BY <1>0, <1>4, <1>5, <1>6, <2>2
    <3>2. Range(s) \subseteq Range(todo')
      BY <1>0, <3>1, OpeningMakes
    <3> QED  BY <1>3, <3>2
  <2> QED  BY <2>1, <2>2
<1>7. ASSUME NEW az \in Zones,
             az < Zone(at)' \/ (az = Zone(at)' /\ stage' # "enter")
      PROVE  Still(CreateClusterJoinSwitch(az))
  <2> DEFINE s == CreateClusterJoinSwitch(az)
  <2>1. CASE az < Zone(at) \/ (az = Zone(at) /\ stage # "enter")
    <3>1. Tracked(s) /\ Keeps(s)
      BY <2>1, PathsKeep DEF TrackInv
    <3> QED  BY <1>2, <3>1
  <2>2. CASE ~(az < Zone(at) \/ (az = Zone(at) /\ stage # "enter"))
    <3>1. az \in Nat
      BY <1>0 DEF Zones
    <3>2. at = az + 2 /\ todo' = Opening(az + 2)
      BY <1>0, <1>4, <1>5, <1>7, <2>2, <3>1 DEF Zone
    <3>3. Range(s) \subseteq Range(todo')
      BY <1>0, <3>2, OpeningMakes
    <3> QED  BY <1>3, <3>3
  <2> QED  BY <2>1, <2>2
<1>8. ASSUME NEW az \in Zones, NEW i \in 0..(AzWorkers(n_az) - 1),
             BroughtUp(az, i)'
      PROVE  Still(Provision(FirstWorker(az) + i))
  <2> DEFINE s == Provision(FirstWorker(az) + i)
  <2>1. CASE BroughtUp(az, i)
    <3>1. Tracked(s) /\ Keeps(s)
      BY <2>1, PathsKeep DEF TrackInv
    <3> QED  BY <1>2, <3>1
  <2>2. CASE Iterate /\ az = Zone(at) /\ i = context.iteration + 1
    <3>1. at # Startup /\ at # Density
      BY <1>0, <2>2 DEF Zones, Zone, Startup, Density
    <3>2. BringUpBody(az, i)
      BY <2>2, <3>1, BodyCases DEF StartupBody, DensityBody
    <3>3. Range(s) \subseteq Range(todo')
      BY <3>2, BringUpCommands DEF BringUpBody
    <3> QED  BY <1>3, <3>3
  <2> QED  BY <1>8, <2>1, <2>2, BroughtUpMoves
<1>9. ASSUME NEW v \in AllWorkers, NEW k \in Active(v)'
      PROVE  /\ \E az \in Zones, i \in 0..(AzWorkers(n_az) - 1) :
                  v = FirstWorker(az) + i /\ BroughtUp(az, i)'
             /\ Still(ProvisionPort(v, k - 1)) /\ Still(Bind(v, k - 1, FALSE))
  <2>1. CASE k \in Active(v)
    <3>1. PICK az \in Zones, i \in 0..(AzWorkers(n_az) - 1) :
            v = FirstWorker(az) + i /\ BroughtUp(az, i)
      BY <2>1 DEF TrackInv
    <3>2. BroughtUp(az, i)'
      BY <3>1, BroughtUpMoves
    <3>3. /\ Tracked(ProvisionPort(v, k - 1)) /\ Keeps(ProvisionPort(v, k - 1))
          /\ Tracked(Bind(v, k - 1, FALSE)) /\ Keeps(Bind(v, k - 1, FALSE))
      BY <2>1, PathsKeep DEF TrackInv
    <3> QED  BY <1>2, <3>1, <3>2, <3>3
  <2>2. CASE k \notin Active(v)
    <3>1. Iterate
      <4> SUFFICES ASSUME ~Iterate PROVE FALSE
        OBVIOUS
      <4>1. lports' = lports
        BY DEF Next, vars, where, Enter, Top, StopIteration, Leave,
               Finish, Work, EndOfScript
      <4> QED  BY <1>9, <2>2, <4>1 DEF Active
    <3>2. ASSUME NEW az \in Zones, DensityBody(az), v = Target(az, 1),
                 k = NextIndex(az, 1) + 1
          PROVE  /\ \E bz \in Zones, i \in 0..(AzWorkers(n_az) - 1) :
                      v = FirstWorker(bz) + i /\ BroughtUp(bz, i)'
                 /\ Still(ProvisionPort(v, k - 1))
                 /\ Still(Bind(v, k - 1, FALSE))
      <4>1. PICK i \in 0..(AzWorkers(n_az) - 1) : v = FirstWorker(az) + i
        <5> DEFINE j == (selected[az] + 1) % AzWorkers(n_az)
        <5>1. /\ selected[az] + 1 \in Nat
              /\ AzWorkers(n_az) \in Nat \ {0}
          BY <1>0, PlanFacts DEF StageInv
        <5>2. j \in 0..(AzWorkers(n_az) - 1)
          <6> HIDE DEF j
          <6> QED  BY <5>1, Division DEF j
        <5>3. v = FirstWorker(az) + j
          BY <3>2 DEF Target
        <5> QED  BY <5>2, <5>3
      <4>3. BroughtUp(az, i)
        BY <1>0, <3>2 DEF BroughtUp, DensityBody, Density, Zone, Zones
      <4>4. BroughtUp(az, i)'
        BY <4>3, BroughtUpMoves
      <4>5. NextIndex(az, 1) \in Nat
        BY IndexFits
      <4>6. /\ Range(ProvisionPort(v, NextIndex(az, 1))) \subseteq
                  Range(ClusterPorts(az, 1, FALSE))
            /\ Range(Bind(v, NextIndex(az, 1), FALSE)) \subseteq
                  Range(ClusterPorts(az, 1, FALSE))
        <5> DEFINE P(j) == Range(ProvisionPort(Target(az, j), NextIndex(az, j)))
                             \cup Range(Bind(Target(az, j), NextIndex(az, j), FALSE))
        <5>1. Range(ClusterPorts(az, 1, FALSE)) = UNION {P(j) : j \in 1..1}
          BY ClusterPortsCommands, Zenon
        <5>2. P(1) \subseteq UNION {P(j) : j \in 1..1}
          <6> HIDE DEF P
          <6> QED  OBVIOUS
        <5> QED  BY <3>2, <5>1, <5>2
      <4>7. Range(ClusterPorts(az, 1, FALSE)) \subseteq Range(todo')
        <5> DEFINE a == ClusterPorts(az, 1, FALSE)
                   b == AddToNamespace(ClusterPods(az, 1))
                   c == <<PingPort(Target(az, 1), NextIndex(az, 1))>>
        <5>1. IsList(a) /\ IsList(b) /\ IsList(c)
          BY <1>0, ClusterPortsCommands, NamespaceCommands, ListFew
        <5>2. todo' = a \o b \o c
          BY <3>2 DEF DensityBody
        <5> HIDE DEF a, b, c
        <5>3. IsList(a \o b) /\ Range(a) \subseteq Range(a \o b)
          BY <5>1, ListConcat
        <5>4. Range(a) \subseteq Range(a \o b \o c)
          BY <5>1, <5>3, ListConcat
        <5> QED  BY <5>2, <5>4 DEF a
      <4>8. k - 1 = NextIndex(az, 1)
        BY <3>2, <4>5
      <4> QED  BY <1>3, <4>1, <4>4, <4>6, <4>7, <4>8
    <3>3. ASSUME BringUpBody(Zone(at), context.iteration + 1),
                 v = FirstWorker(Zone(at)) + (context.iteration + 1),
                 k \in 1..NPods
          PROVE  /\ \E bz \in Zones, i \in 0..(AzWorkers(n_az) - 1) :
                      v = FirstWorker(bz) + i /\ BroughtUp(bz, i)'
                 /\ Still(ProvisionPort(v, k - 1))
                 /\ Still(Bind(v, k - 1, FALSE))
      <4>1. /\ Zone(at) \in Zones
            /\ context.iteration + 1 \in 0..(AzWorkers(n_az) - 1)
            /\ todo' = BringUp(v)
        BY <3>3 DEF BringUpBody
      <4>3. \E bz \in Zones, i \in 0..(AzWorkers(n_az) - 1) :
              v = FirstWorker(bz) + i /\ BroughtUp(bz, i)'
        <5>1. \A bz \in Zones, j \in 0..(AzWorkers(n_az) - 1) :
                bz = Zone(at) /\ j = context.iteration + 1 => BroughtUp(bz, j)'
          BY <3>1, BroughtUpMoves
        <5> QED  BY <3>3, <4>1, <5>1
      <4>4. /\ Range(ProvisionPort(v, k - 1)) \subseteq Range(ProvisionPorts(v))
            /\ Range(Bind(v, k - 1, FALSE)) \subseteq Range(ProvisionPorts(v))
        <5> DEFINE P == {Range(ProvisionPort(v, j - 1)) : j \in 1..NPods}
                   B == {Range(Bind(v, j - 1, FALSE)) : j \in 1..NPods}
        <5>1. Range(ProvisionPorts(v)) = (UNION P) \cup (UNION B)
          BY PortsCommands, Zenon
        <5>2. Range(ProvisionPort(v, k - 1)) \in P
              /\ Range(Bind(v, k - 1, FALSE)) \in B
          BY <3>3
        <5> HIDE DEF P, B
        <5> QED  BY <5>1, <5>2
      <4>5. Range(ProvisionPorts(v)) \subseteq Range(todo')
        BY <4>1, BringUpCommands
      <4> QED  BY <1>3, <4>3, <4>4, <4>5
    <3> QED  BY <2>2, <3>1, <3>2, <3>3, ActiveMoves
  <2> QED  BY <2>1, <2>2
<1>10. (\A v \in AllWorkers : \A k \in Active(v) :
          /\ \E az \in Zones, i \in 0..(AzWorkers(n_az) - 1) :
               v = FirstWorker(az) + i /\ BroughtUp(az, i)
          /\ Tracked(ProvisionPort(v, k - 1)) /\ Tracked(Bind(v, k - 1, FALSE)))'
  BY <1>1, <1>9 DEF Still, Tracked
<1>11. (\A az \in Zones, i \in 0..(AzWorkers(n_az) - 1) :
          BroughtUp(az, i) => Tracked(Provision(FirstWorker(az) + i)))'
  BY <1>1, <1>8 DEF Still, Tracked
<1>12. (\A az \in Zones :
          az < Zone(at) \/ (az = Zone(at) /\ stage # "enter") =>
            Tracked(CreateClusterJoinSwitch(az)))'
  BY <1>1, <1>7 DEF Still, Tracked
<1>13. (at > 1 \/ stage = "leave" =>
          \A az \in Zones, i \in 0..(AzWorkers(n_az) - 1) :
            Tracked(Configure(FirstWorker(az) + i)))'
  BY <1>1, <1>6 DEF Still, Tracked
<1> QED  BY <1>10, <1>11, <1>12, <1>13 DEF TrackInv

-----------------------------------------------------------------------------
(***************************************************************************)
(* Between scripts, what is tracked is there, or the log or a measurement  *)
(* says that it is not.                                                    *)
(***************************************************************************)
Known == Rows \cup logged \cup measured

LEMMA TrackedIsKnown ==
  ASSUME Range(todo) = {}, NEW s, Tracked(s), NEW c \in Range(s)
  PROVE  /\ "retry" \notin c.fails => c.row \in Known
         /\ c.row[1] = "in" => In(Known, {c.row[2]})
BY DEF Tracked, Ensured, Known, In, Exists

(* The rows and the objects that the scripts of a path make.               *)
LEMMA JoinSwitchMakes ==
  ASSUME Range(todo) = {}, NEW az, Tracked(CreateClusterJoinSwitch(az))
  PROVE  /\ <<"in", JoinRp(az), Router(az), Gateway(GwNet(az))>> \in Known
         /\ In(Known, {Lsp(JoinRp(az))})
<1> DEFINE c == LrPortAdd(JoinRp(az), Router(az), Gateway(GwNet(az)))
           d == LsPortAdd(Lsp(JoinRp(az)), Join(az), None)
<1>1. {c, d} \subseteq Range(CreateClusterJoinSwitch(az))
  BY ListFew DEF CreateClusterJoinSwitch
<1>2. /\ c.row = <<"in", JoinRp(az), Router(az), Gateway(GwNet(az))>>
      /\ "retry" \notin c.fails
      /\ d.row[1] = "in" /\ d.row[2] = Lsp(JoinRp(az))
  BY DEF LrPortAdd, LsPortAdd, Insert, Command
<1> HIDE DEF c, d
<1>3. ("retry" \notin c.fails => c.row \in Known)
      /\ (d.row[1] = "in" => In(Known, {d.row[2]}))
  BY <1>1, TrackedIsKnown
<1> QED  BY <1>2, <1>3

LEMMA ConfigureMakes ==
  ASSUME Range(todo) = {}, NEW w, Tracked(Configure(w))
  PROVE  /\ <<"in", ExtNs(w), None, <<ExtHostIp(w), Gateway(ExtNet(w))>>>>
              \in Known
         /\ In(Known, {Of("bridge-mappings", w)})
<1> DEFINE c == Insert(ExtNs(w), None, <<ExtHostIp(w), Gateway(ExtNet(w))>>,
                       {"log", "raise"})
           d == SetGlobalExternalId(Of("bridge-mappings", w))
<1>1. {c, d} \subseteq Range(Configure(w))
  BY ListFew DEF Configure
<1>2. /\ c.row = <<"in", ExtNs(w), None, <<ExtHostIp(w), Gateway(ExtNet(w))>>>>
      /\ "retry" \notin c.fails
      /\ d.row[1] = "in" /\ d.row[2] = Of("bridge-mappings", w)
  BY DEF SetGlobalExternalId, Insert, Command
<1> HIDE DEF c, d
<1>3. ("retry" \notin c.fails => c.row \in Known)
      /\ (d.row[1] = "in" => In(Known, {d.row[2]}))
  BY <1>1, TrackedIsKnown
<1> QED  BY <1>2, <1>3

LEMMA PodMakes ==
  ASSUME Range(todo) = {}, NEW w, NEW k, Tracked(ProvisionPort(w, k)),
         Tracked(Bind(w, k, FALSE))
  PROVE  /\ In(Known, {Pod(w, k)})
         /\ <<"iface", Pod(w, k), None, Bound(w)>> \in Known
         /\ <<"in", Netns(Pod(w, k)), None, Gateway(IntNet(w))>> \in Known
<1> DEFINE c == LsPortAdd(Pod(w, k), Switch(w), Forward(IntNet(w), k + 1))
           d == AddPort(Pod(w, k), Bound(w))
           e == BindVmPort(Pod(w, k), Gateway(IntNet(w)))
<1>1. c \in Range(ProvisionPort(w, k)) /\ {d, e} \subseteq Range(Bind(w, k, FALSE))
  <2>1. c \in Range(ProvisionPort(w, k))
    BY ListFew DEF ProvisionPort
  <2>2. Range(BindPort(Pod(w, k), Bound(w), Gateway(IntNet(w)))) = {d, e}
    BY ListFew DEF BindPort
  <2>3. Range(Bind(w, k, FALSE)) =
          Range(BindPort(Pod(w, k), Bound(w), Gateway(IntNet(w))))
    BY DEF Bind
  <2> QED  BY <2>1, <2>2, <2>3
<1>2. /\ c.row[1] = "in" /\ c.row[2] = Pod(w, k)
      /\ d.row = <<"iface", Pod(w, k), None, Bound(w)>> /\ "retry" \notin d.fails
      /\ e.row = <<"in", Netns(Pod(w, k)), None, Gateway(IntNet(w))>>
      /\ "retry" \notin e.fails
  BY DEF LsPortAdd, AddPort, BindVmPort, Insert, Change, Command
<1> HIDE DEF c, d, e
<1>3. /\ c.row[1] = "in" => In(Known, {c.row[2]})
      /\ "retry" \notin d.fails => d.row \in Known
      /\ "retry" \notin e.fails => e.row \in Known
  BY <1>1, TrackedIsKnown
<1> QED  BY <1>2, <1>3

LEMMA ProvisionMakes ==
  ASSUME Range(todo) = {}, NEW w, Tracked(Provision(w))
  PROVE  /\ In(Known, {Bound(w)}) /\ In(Known, {Lsp(NodeRp(w))})
         /\ In(Known, {Lsp(GwRp(w))}) /\ In(Known, {Lsp(ExtRp(w))})
         /\ In(Known, {Physnet(w)})
         /\ <<"in", NodeRp(w), Router(ZoneOf(w)), Gateway(IntNet(w))>> \in Known
         /\ <<"in", GwRp(w), GwRouter(w), JoinIp(w)>> \in Known
         /\ <<"in", ExtRp(w), GwRouter(w), Gateway(ExtNet(w))>> \in Known
         /\ <<"gateway", NodeRp(w), None, Bound(w)>> \in Known
         /\ <<"options", GwRouter(w), None, Bound(w)>> \in Known
         /\ <<"type", Physnet(w), None, None>> \in Known
         /\ <<"options", Physnet(w), None, None>> \in Known
         /\ <<"cluster_net", GwRouter(w), None, Gateway(GwNet(ZoneOf(w)))>>
              \in Known
         /\ <<"default", GwRouter(w), None, ExtHostIp(w)>> \in Known
         /\ <<"src-ip", Router(ZoneOf(w)), None, <<IntNet(w), JoinIp(w)>>>>
              \in Known
         /\ <<"snat", GwRouter(w), None, JoinIp(w)>> \in Known
<1> DEFINE P == Range(Provision(w))
<1>1. \A c \in P : /\ "retry" \notin c.fails => c.row \in Known
                   /\ c.row[1] = "in" => In(Known, {c.row[2]})
  BY TrackedIsKnown
<1>2. /\ Range(ConnectAndWait(w)) \subseteq P /\ Range(NodeSwitch(w)) \subseteq P
      /\ Range(NodeGateway(w)) \subseteq P /\ Range(NodeExternal(w)) \subseteq P
      /\ Range(NodeRoutes(w)) \subseteq P
  BY ProvisionCommands
<1> HIDE DEF P
<1>3. In(Known, {Bound(w)})
  <2> DEFINE c == Insert(Bound(w), Of("ovn-remote", w), None, {"measure"})
  <2>1. c \in P
    BY <1>2, ListFew DEF ConnectAndWait
  <2>2. c.row[1] = "in" /\ c.row[2] = Bound(w)
    BY DEF Insert, Command
  <2> HIDE DEF c
  <2> QED  BY <1>1, <2>1, <2>2
<1>4. /\ <<"in", NodeRp(w), Router(ZoneOf(w)), Gateway(IntNet(w))>> \in Known
      /\ In(Known, {Lsp(NodeRp(w))})
      /\ <<"gateway", NodeRp(w), None, Bound(w)>> \in Known
  <2> DEFINE c == LrPortAdd(NodeRp(w), Router(ZoneOf(w)), Gateway(IntNet(w)))
             d == LsPortAdd(Lsp(NodeRp(w)), Switch(w), None)
             e == LrPortSetGwChassis(NodeRp(w), Bound(w))
  <2>1. c \in P /\ d \in P /\ e \in P
    BY <1>2, ListFew DEF NodeSwitch
  <2>2. /\ c.row = <<"in", NodeRp(w), Router(ZoneOf(w)), Gateway(IntNet(w))>>
        /\ d.row[1] = "in" /\ d.row[2] = Lsp(NodeRp(w))
        /\ e.row = <<"gateway", NodeRp(w), None, Bound(w)>>
        /\ "retry" \notin c.fails /\ "retry" \notin e.fails
    BY DEF LrPortAdd, LsPortAdd, LrPortSetGwChassis, Insert, Set, Change, Command
  <2> HIDE DEF c, d, e
  <2> QED  BY <1>1, <2>1, <2>2
<1>5. /\ <<"options", GwRouter(w), None, Bound(w)>> \in Known
      /\ <<"in", GwRp(w), GwRouter(w), JoinIp(w)>> \in Known
      /\ In(Known, {Lsp(GwRp(w))})
  <2> DEFINE c == LrSetOptions(GwRouter(w), Bound(w))
             d == LrPortAdd(GwRp(w), GwRouter(w), JoinIp(w))
             e == LsPortAdd(Lsp(GwRp(w)), Join(ZoneOf(w)), None)
  <2>1. c \in P /\ d \in P /\ e \in P
    BY <1>2, ListFew DEF NodeGateway
  <2>2. /\ c.row = <<"options", GwRouter(w), None, Bound(w)>>
        /\ d.row = <<"in", GwRp(w), GwRouter(w), JoinIp(w)>>
        /\ e.row[1] = "in" /\ e.row[2] = Lsp(GwRp(w))
        /\ "retry" \notin c.fails /\ "retry" \notin d.fails
    BY DEF LrPortAdd, LsPortAdd, LrSetOptions, Insert, Set, Change, Command
  <2> HIDE DEF c, d, e
  <2> QED  BY <1>1, <2>1, <2>2
<1>6. /\ <<"in", ExtRp(w), GwRouter(w), Gateway(ExtNet(w))>> \in Known
      /\ In(Known, {Lsp(ExtRp(w))}) /\ In(Known, {Physnet(w)})
      /\ <<"type", Physnet(w), None, None>> \in Known
      /\ <<"options", Physnet(w), None, None>> \in Known
  <2> DEFINE c == LrPortAdd(ExtRp(w), GwRouter(w), Gateway(ExtNet(w)))
             d == LsPortAdd(Lsp(ExtRp(w)), ExtSwitch(w), None)
             e == LsPortAdd(Physnet(w), ExtSwitch(w), None)
             f == LsPortSetType(Physnet(w))
             g == LsPortSetOptions(Physnet(w), None)
  <2>1. c \in P /\ d \in P /\ e \in P /\ f \in P /\ g \in P
    BY <1>2, ListFew DEF NodeExternal
  <2>2. /\ c.row = <<"in", ExtRp(w), GwRouter(w), Gateway(ExtNet(w))>>
        /\ d.row[1] = "in" /\ d.row[2] = Lsp(ExtRp(w))
        /\ e.row[1] = "in" /\ e.row[2] = Physnet(w)
        /\ f.row = <<"type", Physnet(w), None, None>>
        /\ g.row = <<"options", Physnet(w), None, None>>
        /\ "retry" \notin c.fails /\ "retry" \notin f.fails
        /\ "retry" \notin g.fails
    BY DEF LrPortAdd, LsPortAdd, LsPortSetType, LsPortSetOptions, Insert, Set,
           Change, Command
  <2> HIDE DEF c, d, e, f, g
  <2> QED  BY <1>1, <2>1, <2>2
<1>7. /\ <<"cluster_net", GwRouter(w), None, Gateway(GwNet(ZoneOf(w)))>> \in Known
      /\ <<"default", GwRouter(w), None, ExtHostIp(w)>> \in Known
      /\ <<"src-ip", Router(ZoneOf(w)), None, <<IntNet(w), JoinIp(w)>>>> \in Known
      /\ <<"snat", GwRouter(w), None, JoinIp(w)>> \in Known
  <2> DEFINE c == RouteAdd(GwRouter(w), "cluster_net", Gateway(GwNet(ZoneOf(w))))
             d == RouteAdd(GwRouter(w), "default", ExtHostIp(w))
             e == RouteAdd(Router(ZoneOf(w)), "src-ip", <<IntNet(w), JoinIp(w)>>)
             f == NatAdd(GwRouter(w), JoinIp(w))
  <2>1. c \in P /\ d \in P /\ e \in P /\ f \in P
    BY <1>2, ListFew DEF NodeRoutes
  <2>2. /\ c.row = <<"cluster_net", GwRouter(w), None, Gateway(GwNet(ZoneOf(w)))>>
        /\ d.row = <<"default", GwRouter(w), None, ExtHostIp(w)>>
        /\ e.row = <<"src-ip", Router(ZoneOf(w)), None, <<IntNet(w), JoinIp(w)>>>>
        /\ f.row = <<"snat", GwRouter(w), None, JoinIp(w)>>
        /\ "retry" \notin c.fails /\ "retry" \notin d.fails
        /\ "retry" \notin e.fails /\ "retry" \notin f.fails
    BY DEF RouteAdd, NatAdd, Set, Change, Command
  <2> HIDE DEF c, d, e, f
  <2> QED  BY <1>1, <2>1, <2>2
<1> QED  BY <1>3, <1>4, <1>5, <1>6, <1>7

LEMMA TracksReachOutside == StageInv /\ PlaceInv /\ TrackInv => PodsReachOutside
<1> SUFFICES ASSUME StageInv, PlaceInv, TrackInv, pc \in {"idle", "done"},
                    NEW w \in AllWorkers, NEW k \in Active(w)
             PROVE  PathIn(Known, w, k - 1)
  BY DEF PodsReachOutside, Known
<1>1. PICK az \in Zones, i \in 0..(AzWorkers(n_az) - 1) :
        w = FirstWorker(az) + i /\ BroughtUp(az, i)
  BY DEF TrackInv
<1>2. ZoneOf(w) = az
  BY <1>1, WorkersOfZone DEF StageInv
<1>3. Range(todo) = {}
  BY ListFew DEF PlaceInv
<1>4. at > 1 /\ (az < Zone(at) \/ (az = Zone(at) /\ stage # "enter"))
  <2>1. az \in Nat /\ at \in Int
    BY PlanFacts DEF Zones, StageInv
  <2> QED  BY <1>1, <2>1 DEF BroughtUp, Zone
<1>5. /\ Tracked(Configure(w)) /\ Tracked(CreateClusterJoinSwitch(az))
      /\ Tracked(Provision(w))
      /\ Tracked(ProvisionPort(w, k - 1)) /\ Tracked(Bind(w, k - 1, FALSE))
  BY <1>1, <1>4 DEF TrackInv
<1> DEFINE j == k - 1
<1>6. /\ <<"in", JoinRp(az), Router(az), Gateway(GwNet(az))>> \in Known
      /\ In(Known, {Lsp(JoinRp(az))})
      /\ <<"in", ExtNs(w), None, <<ExtHostIp(w), Gateway(ExtNet(w))>>>> \in Known
      /\ In(Known, {Of("bridge-mappings", w)})
      /\ In(Known, {Pod(w, j)})
      /\ <<"iface", Pod(w, j), None, Bound(w)>> \in Known
      /\ <<"in", Netns(Pod(w, j)), None, Gateway(IntNet(w))>> \in Known
  BY <1>3, <1>5, JoinSwitchMakes, ConfigureMakes, PodMakes
<1> HIDE DEF j
<1> DEFINE host == <<ExtHostIp(w), Gateway(ExtNet(w))>>
<1>7. /\ Gateway(IntNet(w)) \in AddressesOf(Known, NodeRp(w))
      /\ JoinIp(w) \in AddressesOf(Known, GwRp(w))
      /\ Gateway(GwNet(az)) \in AddressesOf(Known, JoinRp(az))
      /\ Gateway(ExtNet(w)) \in AddressesOf(Known, ExtRp(w))
      /\ host \in AddressesOf(Known, ExtNs(w))
  <2>1. ASSUME NEW x, NEW on, NEW a, <<"in", x, on, a>> \in Known
        PROVE  a \in AddressesOf(Known, x)
    <3> DEFINE r == <<"in", x, on, a>>
    <3>1. r[1] = "in" /\ r[2] = x /\ r[4] = a /\ r \in Known
      BY <2>1
    <3> QED  BY <3>1 DEF AddressesOf
  <2> QED  BY <1>2, <1>3, <1>5, <1>6, <2>1, ProvisionMakes
<1>8. In(Known, {Bound(w), Of("bridge-mappings", w), Pod(w, j), Lsp(NodeRp(w)),
                 Lsp(GwRp(w)), Lsp(JoinRp(az)), Lsp(ExtRp(w)), Physnet(w)})
  <2>1. /\ In(Known, {Bound(w)}) /\ In(Known, {Lsp(NodeRp(w))})
        /\ In(Known, {Lsp(GwRp(w))}) /\ In(Known, {Lsp(ExtRp(w))})
        /\ In(Known, {Physnet(w)})
    BY <1>3, <1>5, ProvisionMakes
  <2> QED  BY <1>6, <2>1 DEF In
<1>9. /\ <<"gateway", NodeRp(w), None, Bound(w)>> \in Known
      /\ <<"options", GwRouter(w), None, Bound(w)>> \in Known
      /\ <<"type", Physnet(w), None, None>> \in Known
      /\ <<"options", Physnet(w), None, None>> \in Known
      /\ <<"cluster_net", GwRouter(w), None, Gateway(GwNet(az))>> \in Known
      /\ <<"default", GwRouter(w), None, host[1]>> \in Known
      /\ host[2] = Gateway(ExtNet(w))
      /\ <<"src-ip", Router(az), None, <<IntNet(w), JoinIp(w)>>>> \in Known
      /\ <<"snat", GwRouter(w), None, JoinIp(w)>> \in Known
  BY <1>2, <1>3, <1>5, ProvisionMakes
<1> HIDE DEF host
<1>10. {<<"type", Physnet(w), None, None>>, <<"options", Physnet(w), None, None>>}
         \subseteq Known
  BY <1>9
<1> DEFINE gw   == Gateway(IntNet(w))
           join == JoinIp(w)
           back == Gateway(GwNet(az))
           ext  == Gateway(ExtNet(w))
<1>11. PathIn(Known, w, j)
  <2>1. /\ gw \in AddressesOf(Known, NodeRp(w))
        /\ join \in AddressesOf(Known, GwRp(w))
        /\ back \in AddressesOf(Known, JoinRp(az))
        /\ ext \in AddressesOf(Known, ExtRp(w))
        /\ host \in AddressesOf(Known, ExtNs(w))
    BY <1>7
  <2>2. /\ <<"in", Netns(Pod(w, j)), None, gw>> \in Known
        /\ <<"iface", Pod(w, j), None, Bound(w)>> \in Known
        /\ <<"src-ip", Router(az), None, <<IntNet(w), join>>>> \in Known
        /\ <<"snat", GwRouter(w), None, join>> \in Known
        /\ <<"cluster_net", GwRouter(w), None, back>> \in Known
        /\ <<"default", GwRouter(w), None, host[1]>> \in Known
        /\ host[2] = ext
    BY <1>6, <1>9
  <2> HIDE DEF gw, join, back, ext
  <2> QED  BY <1>2, <1>8, <1>9, <1>10, <2>1, <2>2, Zenon DEF PathIn
<1> QED  BY <1>11 DEF j

-----------------------------------------------------------------------------
(***************************************************************************)
(* The pings of an iteration: each is still to be executed, or has found a *)
(* path, or the iteration has failed.  Those of later iterations are not   *)
(* in the measurements.                                                    *)
(***************************************************************************)
Unmeasured(v, k) ==
  /\ PingPort(v, k).row \notin measured
  /\ \A c \in Range(todo) : "measure" \in c.fails => c.row # PingPort(v, k).row

Pinged(v, k) ==
  \/ context.failed
  \/ PathIn(Rows, v, k)
  \/ PingPort(v, k) \in Range(todo) /\ PingPort(v, k).row \notin measured

PingInv ==
  /\ at <= n_az + 1 =>
       \A az \in Zones, i \in 0..(AzWorkers(n_az) - 1), v \in AllWorkers :
         v = FirstWorker(az) + i /\ ~BroughtUp(az, i) =>
           \A k \in Nat : Unmeasured(v, k)
  /\ at \in 2..(n_az + 1) /\ stage = "top" /\ context.started =>
       \A v \in AllWorkers : v = FirstWorker(Zone(at)) + context.iteration =>
         \A k \in 1..NPods : Pinged(v, k - 1)
  /\ context.name = "base_cluster_bringup" =>
       \A v \in AllWorkers, i \in 0..(AzWorkers(n_az) - 1) :
         v = FirstWorker(Zone(Entered)) + i /\ Passed(i) =>
           \A k \in 1..NPods : PathIn(Rows, v, k - 1)

(* A path stays: no row is deleted.                                        *)
LEMMA PathGrows ==
  ASSUME NEW S, NEW T, S \subseteq T, NEW v, NEW k, PathIn(S, v, k)
  PROVE  PathIn(T, v, k)
<1> DEFINE az == ZoneOf(v)
           objects == {Bound(v), Of("bridge-mappings", v), Pod(v, k),
                       Lsp(NodeRp(v)), Lsp(GwRp(v)), Lsp(JoinRp(az)),
                       Lsp(ExtRp(v)), Physnet(v)}
           ports == {<<"type", Physnet(v), None, None>>,
                     <<"options", Physnet(v), None, None>>}
<1>1. PICK gw \in AddressesOf(S, NodeRp(v)), join \in AddressesOf(S, GwRp(v)),
           back \in AddressesOf(S, JoinRp(az)), ext \in AddressesOf(S, ExtRp(v)),
           host \in AddressesOf(S, ExtNs(v)) :
        /\ <<"in", Netns(Pod(v, k)), None, gw>> \in S
        /\ <<"iface", Pod(v, k), None, Bound(v)>> \in S
        /\ <<"src-ip", Router(az), None, <<IntNet(v), join>>>> \in S
        /\ <<"snat", GwRouter(v), None, join>> \in S
        /\ <<"cluster_net", GwRouter(v), None, back>> \in S
        /\ <<"default", GwRouter(v), None, host[1]>> \in S /\ host[2] = ext
        /\ <<"gateway", NodeRp(v), None, Bound(v)>> \in S
        /\ <<"options", GwRouter(v), None, Bound(v)>> \in S
        /\ ports \subseteq S
        /\ In(S, objects)
  BY Zenon DEF PathIn
<1>2. \A x : AddressesOf(S, x) \subseteq AddressesOf(T, x)
  BY DEF AddressesOf
<1>3. /\ gw \in AddressesOf(T, NodeRp(v)) /\ join \in AddressesOf(T, GwRp(v))
      /\ back \in AddressesOf(T, JoinRp(az)) /\ ext \in AddressesOf(T, ExtRp(v))
      /\ host \in AddressesOf(T, ExtNs(v))
  BY <1>2, Zenon
<1>4. In(T, objects)
  <2> HIDE DEF objects
  <2> QED  BY <1>1 DEF In
<1>5. /\ <<"in", Netns(Pod(v, k)), None, gw>> \in T
      /\ <<"iface", Pod(v, k), None, Bound(v)>> \in T
      /\ <<"src-ip", Router(az), None, <<IntNet(v), join>>>> \in T
      /\ <<"snat", GwRouter(v), None, join>> \in T
      /\ <<"cluster_net", GwRouter(v), None, back>> \in T
      /\ <<"default", GwRouter(v), None, host[1]>> \in T
      /\ <<"gateway", NodeRp(v), None, Bound(v)>> \in T
      /\ <<"options", GwRouter(v), None, Bound(v)>> \in T
      /\ ports \subseteq T
  <2> HIDE DEF ports
  <2> QED  BY <1>1, Zenon
<1> QED  BY <1>1, <1>3, <1>4, <1>5, Zenon DEF PathIn

LEMMA PathStays ==
  ASSUME n_az' = n_az, Rows \subseteq Rows', NEW v, NEW k, PathIn(Rows, v, k)
  PROVE  PathIn(Rows, v, k)'
<1> DEFINE T == Rows'
<1>1. PathIn(T, v, k)
  <2> HIDE DEF T
  <2>1. Rows \subseteq T
    BY DEF T
  <2> QED  BY <2>1, PathGrows
<1>2. ZoneOf(v)' = ZoneOf(v)
  BY DEF ZoneOf
<1> QED  BY <1>1, <1>2 DEF PathIn

LEMMA RowsStay ==
  ASSUME StageInv, [Next]_vars
  PROVE  Rows \subseteq Rows'
<1>1. CASE Work
  BY <1>1, WorkMoves DEF StageInv
<1>2. CASE ~Work
  <2>1. db' = db
    BY <1>2 DEF Next, Enter, Top, Iterate, StopIteration, Leave, Body, Begin,
                Finish, EndOfScript, End, vars, script
  <2> QED  BY <2>1 DEF Rows
<1> QED  BY <1>1, <1>2

LEMMA WorkMeasures ==
  ASSUME Work
  PROVE  /\ \/ UNCHANGED measured
            \/ /\ "measure" \in Head(todo).fails
               /\ measured' = measured \cup {Head(todo).row}
         /\ measured' # measured => AddFailure
         /\ measured' = measured => UNCHANGED stats
<1>1. CASE Execute
  BY <1>1 DEF Work, Execute
<1>2. CASE PingTimesOut
  BY <1>2 DEF Work, PingTimesOut
<1> QED  BY <1>1, <1>2 DEF Work

LEMMA PingInit == Init => PingInv
<1> SUFFICES ASSUME Init PROVE PingInv
  OBVIOUS
<1>1. /\ stage = "enter" /\ todo = <<>> /\ measured = {} /\ totals = {}
  BY DEF Init, ScriptInit, ContextInit
<1>2. \A v, k : Unmeasured(v, k)
  BY <1>1, ListFew DEF Unmeasured
<1> QED  BY <1>1, <1>2 DEF PingInv, Passed

(* The pings of workers whose iteration has not begun.                     *)
LEMMA LaterPings ==
  ASSUME StageInv, PlaceInv, PingInv, [Next]_vars, at' <= n_az + 1,
         NEW az \in Zones, NEW i \in 0..(AzWorkers(n_az) - 1),
         NEW v \in AllWorkers, v = FirstWorker(az) + i, ~BroughtUp(az, i)',
         NEW k \in Nat
  PROVE  Unmeasured(v, k)'
<1>0. /\ ZonesInv /\ n_az \in Nat \ {0} /\ at \in 1..(n_az + 4)
      /\ IsList(todo) /\ IsList(db)
  BY PlanFacts DEF StageInv, Density
<1>1. at' = at \/ at' = at + 1
  BY DEF Next, vars, where, Enter, Top, Iterate, StopIteration, Leave,
         Finish, Work, EndOfScript
<1>2. ~BroughtUp(az, i)
  BY BroughtUpMoves
<1>3. Unmeasured(v, k)
  BY <1>0, <1>1, <1>2 DEF PingInv
<1>4. ASSUME measured' = measured, Silent(todo')
      PROVE  Unmeasured(v, k)'
  BY <1>3, <1>4 DEF Unmeasured, Silent, PingPort
<1>5. CASE Enter
  <2>1. measured' = measured /\ todo' = Opening(at) /\ at \in 1..Density
    BY <1>0, <1>5 DEF Enter, Begin, StageInv
  <2>2. Silent(Opening(at))
    BY <1>0, <2>1, OpeningIsSilent
  <2> QED  BY <1>4, <2>1, <2>2
<1>6. CASE Top \/ StopIteration \/ Leave
  <2>1. /\ measured' = measured
        /\ todo' \in {External(at, context.iteration), Closing(at),
                      Sync(at) \o Following(at)}
    BY <1>6 DEF Top, StopIteration, Leave, Begin
  <2>2. Silent(todo')
    BY <1>0, <2>1, QuietScripts, QuietIsSilent
  <2> QED  BY <1>4, <2>1, <2>2
<1>7. CASE Iterate
  <2> DEFINE n == context.iteration + 1
             w == FirstWorker(Zone(at)) + n
  <2>1. measured' = measured /\ at' = at
    BY <1>7 DEF Iterate, Body, Begin
  <2>2. BringUpBody(Zone(at), n)
    <3>1. \/ StartupBody(n, Distribute(NStartup, n_az, n))
          \/ DensityBody(n % n_az)
          \/ BringUpBody(Zone(at), n)
      BY <1>7, BodyCases
    <3>2. at # Startup /\ at # Density
      BY <1>0, <2>1 DEF Startup, Density
    <3> QED  BY <3>1, <3>2 DEF StartupBody, DensityBody
  <2>3. v # w
    <3>1. az # Zone(at) \/ i # n
      BY <1>7, BroughtUpMoves
    <3> QED  BY <1>0, <2>2, <3>1, WorkersDiffer DEF BringUpBody
  <2>4. todo' = BringUp(w)
    BY <2>2 DEF BringUpBody
  <2> HIDE DEF w
  <2>5. ASSUME NEW c \in Range(BringUp(w)), "measure" \in c.fails
        PROVE  c.row # PingPort(v, k).row
    <3>1. PingPort(v, k).row[2] = <<"ping", v, k>>
      BY DEF PingPort, Ping, Insert, Command
    <3>2. CASE c.row[2][1] # "ping"
      BY <3>1, <3>2
    <3>3. ASSUME NEW j \in 1..NPods, c = PingPort(w, j - 1)
          PROVE  c.row # PingPort(v, k).row
      <4>1. c.row[2] = <<"ping", w, j - 1>>
        BY <3>3 DEF PingPort, Ping, Insert, Command
      <4> QED  BY <2>3, <3>1, <4>1
    <3> QED  BY <2>5, <3>2, <3>3, PingsOfBringUp
  <2> QED  BY <1>3, <2>1, <2>4, <2>5 DEF Unmeasured, PingPort
<1>8. CASE Work
  <2>1. /\ Range(todo') \subseteq Range(todo) /\ Head(todo) \in Range(todo)
    BY <1>0, <1>8, WorkMoves
  <2>2. \/ measured' = measured
        \/ /\ "measure" \in Head(todo).fails
           /\ measured' = measured \cup {Head(todo).row}
    BY <1>8, WorkMeasures
  <2> QED  BY <1>3, <2>1, <2>2 DEF Unmeasured, PingPort
<1>9. CASE Finish \/ EndOfScript \/ UNCHANGED vars
  <2>1. UNCHANGED <<measured, todo>>
    BY <1>9 DEF Finish, EndOfScript, End, vars, script
  <2> QED  BY <1>3, <2>1 DEF Unmeasured, PingPort
<1> QED  BY <1>5, <1>6, <1>7, <1>8, <1>9 DEF Next

(* The pings of the current iteration.                                     *)
LEMMA CurrentPings ==
  ASSUME StageInv, PlaceInv, PingInv, [Next]_vars,
         at' \in 2..(n_az + 1), stage' = "top", context'.started,
         NEW v \in AllWorkers, v = FirstWorker(Zone(at')) + context'.iteration,
         NEW k \in 1..NPods
  PROVE  Pinged(v, k - 1)'
<1>a. ZonesInv /\ n_az \in Nat \ {0} /\ at \in 1..(n_az + 4)
  BY PlanFacts DEF StageInv, Density
<1>b. NPods \in Nat
  BY BringupAssumption
<1>c. k - 1 \in Nat
  BY <1>b
<1>d. n_az' = n_az
  BY PlanIsFixed
<1>e. IsList(todo) /\ IsList(db)
  BY DEF StageInv
<1>0. /\ ZonesInv /\ n_az \in Nat \ {0} /\ at \in 1..(n_az + 4)
      /\ IsList(todo) /\ IsList(db) /\ n_az' = n_az
      /\ NPods \in Nat /\ k - 1 \in Nat
  BY <1>a, <1>b, <1>c, <1>d, <1>e
<1>1. CASE Iterate
  <2> DEFINE n == context.iteration + 1
  <2>1. /\ measured' = measured /\ at' = at
        /\ context'.iteration = n
    BY <1>1 DEF Iterate, Body, Begin, NextIteration, StageInv
  <2>2. BringUpBody(Zone(at), n)
    <3>1. \/ StartupBody(n, Distribute(NStartup, n_az, n))
          \/ DensityBody(n % n_az)
          \/ BringUpBody(Zone(at), n)
      BY <1>1, BodyCases
    <3>2. at # Startup /\ at # Density
      BY <1>0, <2>1 DEF Startup, Density
    <3> QED  BY <3>1, <3>2 DEF StartupBody, DensityBody
  <2>3. /\ Zone(at) \in Zones /\ n \in 0..(AzWorkers(n_az) - 1)
        /\ todo' = BringUp(v) /\ v = FirstWorker(Zone(at)) + n
    BY <2>1, <2>2 DEF BringUpBody
  <2>4. ~BroughtUp(Zone(at), n)
    BY <2>3 DEF BroughtUp, StageInv, Zone
  <2>5. Unmeasured(v, k - 1)
    BY <1>0, <2>1, <2>3, <2>4 DEF PingInv
  <2>6. PingPort(v, k - 1) \in Range(todo')
    BY <2>3, BringUpCommands
  <2> QED  BY <2>1, <2>5, <2>6 DEF Unmeasured, Pinged, PingPort
<1>2. CASE Work \/ Finish \/ EndOfScript \/ UNCHANGED vars
  <2>1. /\ UNCHANGED where
        /\ UNCHANGED stats \/ AddFailure
    BY <1>2, WorkLeaves DEF Work, Finish, EndOfScript, vars
  <2>2. /\ context'.iteration = context.iteration
        /\ context'.started = context.started
        /\ context.failed => context'.failed
        /\ AddFailure => context'.failed
    BY <2>1 DEF stats, AddFailure, StageInv
  <2>3. Pinged(v, k - 1)
    BY <2>1, <2>2 DEF PingInv, where
  <2>4. CASE context.failed
    BY <2>2, <2>4 DEF Pinged
  <2>5. CASE PathIn(Rows, v, k - 1)
    <3>1. PathIn(Rows, v, k - 1)'
      BY <1>0, <2>5, RowsStay, PathStays
    <3> QED  BY <3>1 DEF Pinged
  <2>6. CASE /\ PingPort(v, k - 1) \in Range(todo)
             /\ PingPort(v, k - 1).row \notin measured
    <3>1. CASE UNCHANGED <<todo, measured>>
      BY <2>6, <3>1 DEF Pinged, PingPort
    <3>2. CASE Work
      <4>1. CASE measured' # measured
        BY <2>2, <3>2, <4>1, WorkMeasures DEF Pinged
      <4>2. CASE measured' = measured /\ PingPort(v, k - 1) \in Range(todo')
        BY <2>6, <4>2 DEF Pinged, PingPort
      <4>3. CASE measured' = measured /\ PingPort(v, k - 1) \notin Range(todo')
        <5>1. todo # <<>> /\ todo' = Tail(todo) /\ Head(todo) = PingPort(v, k - 1)
          BY <1>0, <2>6, <3>2, <4>3, WorkLeaves, ListHead
        <5>2. /\ PingPort(v, k - 1).row[2] = <<"ping", v, k - 1>>
              /\ PingPort(v, k - 1).fails = {"measure"}
          BY DEF PingPort, Ping, Insert, Command
        <5>3. Answerable(Head(todo))
          <6> SUFFICES ASSUME ~Answerable(Head(todo)) PROVE FALSE
            OBVIOUS
          <6>1. PingTimesOut
            BY <3>2 DEF Work
          <6>2. Head(todo).row \in measured'
            BY <5>1, <5>2, <6>1 DEF PingTimesOut
          <6> QED  BY <2>6, <4>3, <5>1, <6>2
        <5>4. PathIn(Rows, v, k - 1)
          BY <5>1, <5>2, <5>3 DEF Answerable
        <5>5. PathIn(Rows, v, k - 1)'
          BY <1>0, <5>4, RowsStay, PathStays
        <5> QED  BY <5>5 DEF Pinged
      <4> QED  BY <4>1, <4>2, <4>3
    <3>3. CASE Finish \/ EndOfScript \/ UNCHANGED vars
      BY <3>1, <3>3 DEF Finish, EndOfScript, End, vars, script
    <3> QED  BY <1>2, <3>2, <3>3
  <2> QED  BY <2>3, <2>4, <2>5, <2>6 DEF Pinged
<1>3. CASE Enter
  <2>1. context' = NewContext(Name(at), Iterations(at))
    BY <1>3 DEF Enter, EnterContext
  <2> QED  BY <2>1 DEF NewContext
<1>4. CASE Top \/ StopIteration \/ Leave
  BY <1>4 DEF Top, StopIteration, Leave
<1> QED  BY <1>1, <1>2, <1>3, <1>4 DEF Next

(* A bring-up is the context of a zone.                                    *)
LEMMA BringUpContext ==
  ASSUME StageInv, PlaceInv, context.name = "base_cluster_bringup"
  PROVE  Entered \in 2..(n_az + 1) /\ Zone(Entered) \in Zones
<1>1. /\ n_az \in Nat \ {0} /\ at \in 1..(n_az + 4)
      /\ stage # "enter" => at <= n_az + 3
  BY PlanFacts DEF StageInv, Density
<1>2. Entered \in 0..(n_az + 3)
  BY <1>1 DEF Entered
<1>3. Entered > 0 /\ Name(Entered) = "base_cluster_bringup"
  BY <1>2 DEF PlaceInv
<1>4. Entered \in 2..(n_az + 1)
  BY <1>1, <1>2, <1>3 DEF Name, Startup, Density
<1> QED  BY <1>1, <1>4 DEF Zone, Zones

LEMMA PingStep ==
  StageInv /\ PlaceInv /\ PingInv /\ [Next]_vars => PingInv'
<1> SUFFICES ASSUME StageInv, PlaceInv, PingInv, [Next]_vars PROVE PingInv'
  OBVIOUS
<1>0. /\ ZonesInv /\ n_az \in Nat \ {0} /\ at \in 1..(n_az + 4)
      /\ IsList(todo) /\ IsList(db)
  BY PlanFacts DEF StageInv, Density
<1>1. /\ n_az' = n_az /\ Zones' = Zones /\ AzWorkers(n_az)' = AzWorkers(n_az)
      /\ \A az : FirstWorker(az)' = FirstWorker(az)
      /\ FirstWorker(Zone(at))' = FirstWorker(Zone(at'))
      /\ FirstWorker(Zone(Entered))' = FirstWorker(Zone(Entered'))
  BY PlanIsFixed DEF Zones, FirstWorker, Zone, Entered
<1>2. (at <= n_az + 1 =>
        \A az \in Zones, i \in 0..(AzWorkers(n_az) - 1), v \in AllWorkers :
          v = FirstWorker(az) + i /\ ~BroughtUp(az, i) =>
            \A k \in Nat : Unmeasured(v, k))'
  BY <1>1, LaterPings
<1>3. (at \in 2..(n_az + 1) /\ stage = "top" /\ context.started =>
        \A v \in AllWorkers : v = FirstWorker(Zone(at)) + context.iteration =>
          \A k \in 1..NPods : Pinged(v, k - 1))'
  BY <1>1, CurrentPings
<1>4. ASSUME context'.name = "base_cluster_bringup",
             NEW v \in AllWorkers, NEW i \in 0..(AzWorkers(n_az) - 1),
             v = FirstWorker(Zone(Entered')) + i, Passed(i)',
             NEW k \in 1..NPods
      PROVE  PathIn(Rows, v, k - 1)'
  <2> SUFFICES PathIn(Rows, v, k - 1)
    BY <1>1, RowsStay, PathStays
  <2>1. <<i, FALSE>> \in totals'
    BY <1>4 DEF Passed
  <2>2. CASE Enter
    BY <2>1, <2>2 DEF Enter, EnterContext
  <2>3. CASE Top
    <3>1. /\ context'.name = context.name /\ stage = "top" /\ at' = at
          /\ stage' = "advance" /\ pc = "idle"
          /\ totals' = IF context.started
                       THEN totals \cup {<<context.iteration, context.failed>>}
                       ELSE totals
      BY <2>3 DEF Top, Conclude, Begin, StageInv
    <3>2. Entered' = at /\ Entered = at
      BY <3>1 DEF Entered
    <3>3. CASE Passed(i)
      BY <1>4, <3>1, <3>2, <3>3 DEF PingInv
    <3>4. CASE ~Passed(i)
      <4>1. context.started /\ i = context.iteration /\ ~context.failed
        BY <2>1, <3>1, <3>4 DEF Passed
      <4>2. at \in 2..(n_az + 1)
        BY <1>4, <3>1, <3>2, BringUpContext
      <4>3. Pinged(v, k - 1)
        BY <1>4, <3>1, <3>2, <4>1, <4>2 DEF PingInv
      <4>4. Range(todo) = {}
        BY <3>1, ListFew DEF PlaceInv
      <4> QED  BY <4>1, <4>3, <4>4 DEF Pinged
    <3> QED  BY <3>3, <3>4
  <2>4. CASE ~Enter /\ ~Top
    <3>1. /\ totals' = totals /\ context'.name = context.name
          /\ Entered' = Entered
      <4>1. CASE Iterate
        <5>1. /\ totals' = totals /\ at' = at /\ stage' = "top"
              /\ stage = "advance" /\ context'.name = context.name
          BY <4>1 DEF Iterate, NextIteration, StageInv
        <5> QED  BY <5>1 DEF Entered
      <4>2. CASE StopIteration
        <5>1. UNCHANGED <<stats, at>> /\ stage' = "leave" /\ stage = "advance"
          BY <4>2 DEF StopIteration
        <5> QED  BY <5>1 DEF Entered, stats
      <4>3. CASE Leave
        <5>1. UNCHANGED stats /\ at' = at + 1 /\ stage' = "enter"
              /\ stage = "leave"
          BY <4>3 DEF Leave
        <5> QED  BY <1>0, <5>1 DEF Entered, stats
      <4>4. CASE Work
        <5>1. UNCHANGED where /\ (UNCHANGED stats \/ AddFailure)
          BY <4>4, WorkLeaves DEF Work
        <5>2. totals' = totals /\ context'.name = context.name
          BY <5>1 DEF stats, AddFailure, StageInv
        <5> QED  BY <5>1, <5>2 DEF Entered, where
      <4>5. CASE Finish \/ EndOfScript \/ UNCHANGED vars
        <5>1. UNCHANGED where /\ UNCHANGED stats
          BY <4>5 DEF Finish, EndOfScript, vars
        <5> QED  BY <5>1 DEF Entered, where, stats
      <4> QED  BY <2>4, <4>1, <4>2, <4>3, <4>4, <4>5 DEF Next
    <3>2. Passed(i)
      BY <2>1, <3>1 DEF Passed
    <3> QED  BY <1>4, <3>1, <3>2 DEF PingInv
  <2> QED  BY <2>2, <2>3, <2>4
<1>5. (context.name = "base_cluster_bringup" =>
        \A v \in AllWorkers, i \in 0..(AzWorkers(n_az) - 1) :
          v = FirstWorker(Zone(Entered)) + i /\ Passed(i) =>
            \A k \in 1..NPods : PathIn(Rows, v, k - 1))'
  BY <1>1, <1>4
<1> QED  BY <1>2, <1>3, <1>5 DEF PingInv

(***************************************************************************)
(* For any number of zones, workers and pods, and however many commands    *)
(* fail in whatever way: a pod that is not passive has a complete path to  *)
(* the external host of its worker, but for what the log or a measurement  *)
(* says is missing; and an iteration of the bring-up that is reported as a *)
(* success has such paths without exception.                               *)
(***************************************************************************)
THEOREM ReportsAreRight == Spec => []ReportsAreTrue
<1> DEFINE IInv == StageInv /\ PlaceInv /\ TrackInv /\ PingInv
<1>1. Init => IInv
  BY StageInit, PlaceInit, TrackInit, PingInit
<1>2. IInv /\ [Next]_vars => IInv'
  BY StageStep, PlaceStep, TrackStep, PingStep
<1>3. IInv => ReportsAreTrue
  <2> SUFFICES ASSUME IInv PROVE SuccessMeansReachable
    BY TracksReachOutside DEF ReportsAreTrue
  <2> SUFFICES ASSUME context.name = "base_cluster_bringup",
                      NEW i \in 0..(AzWorkers(n_az) - 1), Passed(i),
                      NEW k \in 1..NPods
               PROVE  PathIn(Rows, FirstWorker(Zone(Entered)) + i, k - 1)
    BY DEF SuccessMeansReachable
  <2>1. Zone(Entered) \in Zones
    BY BringUpContext
  <2>2. FirstWorker(Zone(Entered)) + i \in AllWorkers
    BY <2>1, WorkersOfZone DEF StageInv
  <2> QED  BY <2>2 DEF PingInv
<1> QED  BY <1>1, <1>2, <1>3, PTL DEF Spec

-----------------------------------------------------------------------------
(***************************************************************************)
(* The run as its configuration says: commands of the kinds that there     *)
(* are, loops of the length that is asked for, external commands at their  *)
(* iteration, and pods in the number that is asked for.                    *)
(***************************************************************************)
(* A test adds no fewer pods than it starts with, and an external command  *)
(* is not asked for before the first iteration and what comes before it.   *)
Feasible == /\ NStartup <= NDensity
            /\ \A i \in ExtIterations : i >= Before

Kinds == {"retry", "log", "measure", "raise", "lose"}

(* A command of the run, and the external command of an iteration.         *)
Proper(c)     == c.fails \subseteq Kinds /\ c.row[2][1] # "ext-cmd"
ExtCommand(i) == Insert(Of("ext-cmd", i), None, None, {"log", "raise"})

ScriptInv ==
  /\ attempts \in 0..(MaxRetry - 1) /\ faults \in 0..MaxFaults
  /\ pc \in {"idle", "busy", "dead", "done"}
  /\ pc = "done" => at = Density + 1 /\ stage = "enter"
  /\ \A c \in Range(todo) :
       Proper(c) \/ \E i \in ExtIterations : c = ExtCommand(i)

(* How far the loops are.  Verdicts are on iterations that there are.      *)
LoopInv ==
  /\ context.max \in Nat /\ context.iteration < context.max
  /\ context.started /\ stage = "top" => context.iteration >= 0
  /\ failures \subseteq Before..context.iteration
  /\ totals \subseteq (0..context.iteration) \X BOOLEAN
  /\ at # 1 /\ stage = "leave" => context.iteration = Iterations(at) - 1

(* An external command that has been executed or is about to be.           *)
ExtBegun(i) ==
  \/ Executed(i)
  \/ \E c \in Range(todo) : c.row[2] = Of("ext-cmd", i)

ExtInv ==
  /\ at < Density \/ (at = Density /\ stage = "enter") =>
       \A i \in ExtIterations : ~ExtBegun(i)
  /\ at = Density /\ stage # "enter" =>
       \A i \in ExtIterations :
         ExtBegun(i) <=> \/ i < context.iteration
                         \/ /\ i = context.iteration
                            /\ stage \in {"advance", "leave"}

(* The ports of all workers, each by its worker and its number.            *)
Ports(L) ==
  {p \in AllWorkers \X Nat : p[2] >= 1 /\ p[2] <= Len(L[p[1]])}

(* What Distribute gives to the first i zones.                             *)
Handed(i) ==
  i * (NStartup \div n_az) + (IF i <= NStartup % n_az THEN i
                              ELSE NStartup % n_az)

(* How many iterations of the current context have begun, the workers that *)
(* have been brought up, and the pods of the test.                         *)
Begun == IF stage = "enter" THEN 0 ELSE context.iteration + 1
UpSoFar ==
  IF at = 1 THEN 0
  ELSE IF at <= n_az + 1 THEN (at - 2) * AzWorkers(n_az) + Begun
  ELSE n_az * AzWorkers(n_az)
TestedSoFar ==
  IF at < Startup THEN 0
  ELSE IF at = Startup THEN Handed(Begun)
  ELSE IF at = Density THEN NStartup + Begun
  ELSE NDensity

CountInv ==
  /\ IsFiniteSet(Ports(lports))
  /\ Cardinality(Ports(lports)) = NPods * UpSoFar + TestedSoFar
  /\ \A w \in AllWorkers : Len(lports[w]) <= NPods + TestedSoFar

-----------------------------------------------------------------------------
(* Scripts of proper commands.                                             *)
Orderly(s) == IsList(s) /\ \A c \in Range(s) : Proper(c)

LEMMA OrderlyConcat ==
  ASSUME NEW s, NEW t, Orderly(s), Orderly(t)
  PROVE  Orderly(s \o t)
BY ListConcat DEF Orderly

LEMMA OrderlyFew ==
  /\ Orderly(<<>>)
  /\ \A a : Proper(a) => Orderly(<<a>>)
  /\ \A a, b : Proper(a) /\ Proper(b) => Orderly(<<a, b>>)
  /\ \A a, b, c : Proper(a) /\ Proper(b) /\ Proper(c) => Orderly(<<a, b, c>>)
  /\ \A a, b, c, d :
       Proper(a) /\ Proper(b) /\ Proper(c) /\ Proper(d) =>
         Orderly(<<a, b, c, d>>)
  /\ \A a, b, c, d, e :
       Proper(a) /\ Proper(b) /\ Proper(c) /\ Proper(d) /\ Proper(e) =>
         Orderly(<<a, b, c, d, e>>)
  /\ \A a, b, c, d, e, f :
       (\A x \in {a, b, c, d, e, f} : Proper(x)) =>
         Orderly(<<a, b, c, d, e, f>>)
<1>1. Orderly(<<>>)
  BY ListFew DEF Orderly
<1>2. ASSUME NEW a, Proper(a) PROVE Orderly(<<a>>)
  <2>1. IsList(<<a>>) /\ Range(<<a>>) = {a}
    BY ListFew, Zenon
  <2> QED  BY <1>2, <2>1 DEF Orderly
<1>3. \A a, b : Proper(a) /\ Proper(b) => Orderly(<<a, b>>)
  BY ListFew DEF Orderly
<1>4. \A a, b, c :
        Proper(a) /\ Proper(b) /\ Proper(c) => Orderly(<<a, b, c>>)
  BY ListFew DEF Orderly
<1>5. \A a, b, c, d :
        Proper(a) /\ Proper(b) /\ Proper(c) /\ Proper(d) =>
          Orderly(<<a, b, c, d>>)
  BY ListFew DEF Orderly
<1>6. \A a, b, c, d, e :
        Proper(a) /\ Proper(b) /\ Proper(c) /\ Proper(d) /\ Proper(e) =>
          Orderly(<<a, b, c, d, e>>)
  BY ListFew DEF Orderly
<1>7. ASSUME NEW a, NEW b, NEW c, NEW d, NEW e, NEW f,
             \A x \in {a, b, c, d, e, f} : Proper(x)
      PROVE  Orderly(<<a, b, c, d, e, f>>)
  BY <1>7, ListFew DEF Orderly
<1>8. \A a : Proper(a) => Orderly(<<a>>)
  BY <1>2, Zenon
<1>9. \A a, b, c, d, e, f :
        (\A x \in {a, b, c, d, e, f} : Proper(x)) =>
          Orderly(<<a, b, c, d, e, f>>)
  BY <1>7, Zenon
<1> QED  BY ONLY <1>1, <1>3, <1>4, <1>5, <1>6, <1>8, <1>9, Zenon

LEMMA OrderlyFunction ==
  ASSUME NEW k \in Int, NEW s, s = [i \in 1..k |-> s[i]],
         \A i \in 1..k : Proper(s[i])
  PROVE  Orderly(s)
BY ListFunction DEF Orderly

LEMMA OrderlyFlatten ==
  ASSUME NEW k \in Nat, NEW f, f = [i \in 1..k |-> f[i]],
         \A i \in 1..k : Orderly(f[i])
  PROVE  Orderly(FlattenSeq(f))
<1>1. /\ IsList(FlattenSeq(f))
      /\ Range(FlattenSeq(f)) = UNION {Range(f[i]) : i \in 1..k}
  BY ListFlatten DEF Orderly
<1> QED  BY <1>1 DEF Orderly

LEMMA ProperInserts ==
  ASSUME NEW x, x[1] # "ext-cmd", NEW on, NEW val
  PROVE  /\ \A fails :
              fails \subseteq Kinds => Proper(Insert(x, on, val, fails))
         /\ Proper(Shell(x)) /\ Proper(SetGlobal(x))
         /\ Proper(SetGlobalExternalId(x))
         /\ Proper(LsAdd(x)) /\ Proper(LrAdd(x)) /\ Proper(CreateLb(x))
         /\ Proper(PortGroupCreate(x)) /\ Proper(AddressSetCreate(x))
         /\ Proper(LrPortAdd(x, on, val)) /\ Proper(LsPortAdd(x, on, val))
BY DEF Proper, Kinds, Insert, Command, Shell, SetGlobal, SetGlobalExternalId,
       LsAdd, LrAdd, CreateLb, PortGroupCreate, AddressSetCreate, LrPortAdd,
       LsPortAdd

LEMMA ProperChanges ==
  ASSUME NEW x, x[1] # "ext-cmd", NEW y, NEW val
  PROVE  /\ Proper(LrSetOptions(x, val)) /\ Proper(LrPortSetGwChassis(x, val))
         /\ Proper(LsPortSetType(x)) /\ Proper(LsPortSetOptions(x, val))
         /\ Proper(LbSetVips(x, val)) /\ Proper(AddressSetAddAddrs(x, val))
         /\ Proper(NatAdd(x, val)) /\ Proper(AddPort(x, val))
         /\ \A col : Proper(RouteAdd(x, col, val))
         /\ Proper(LbAddTo(y, x)) /\ Proper(AddLbg(y, x))
BY DEF Proper, Kinds, Set, Change, Refer, Command, LrSetOptions,
       LrPortSetGwChassis, LsPortSetType, LsPortSetOptions, LbSetVips,
       AddressSetAddAddrs, NatAdd, AddPort, RouteAdd, LbAddTo, AddLbg

(* No object but an external command is of its kind.                       *)
LEMMA ProperObjects ==
  ASSUME NEW i, NEW k
  PROVE  /\ \A what : Of(what, i)[1] = what
         /\ Lsp(i)[1] # "ext-cmd" /\ Pod(i, k)[1] # "ext-cmd"
         /\ Ping(i, k)[1] # "ext-cmd" /\ Netns(i)[1] # "ext-cmd"
         /\ IcPing(i)[1] # "ext-cmd"
         /\ Router(i)[1] # "ext-cmd" /\ JoinRp(i)[1] # "ext-cmd"
         /\ Join(i)[1] # "ext-cmd" /\ ClusterLb(i)[1] # "ext-cmd"
         /\ Lbg(i)[1] # "ext-cmd" /\ Ts[1] # "ext-cmd"
         /\ TsFound(i)[1] # "ext-cmd" /\ TsRp(i)[1] # "ext-cmd"
         /\ Switch(i)[1] # "ext-cmd" /\ GwRouter(i)[1] # "ext-cmd"
         /\ ExtSwitch(i)[1] # "ext-cmd" /\ NodeRp(i)[1] # "ext-cmd"
         /\ GwRp(i)[1] # "ext-cmd" /\ ExtRp(i)[1] # "ext-cmd"
         /\ Physnet(i)[1] # "ext-cmd" /\ ExtNs(i)[1] # "ext-cmd"
         /\ Bound(i)[1] # "ext-cmd" /\ GwLb(i)[1] # "ext-cmd"
BY DEF Of, Lsp, Pod, Ping, Netns, IcPing, Router, JoinRp, Join, ClusterLb,
       Lbg, Ts, TsFound, TsRp, Switch, GwRouter, ExtSwitch, NodeRp, GwRp,
       ExtRp, Physnet, ExtNs, Bound, GwLb

LEMMA OrderlyWorker ==
  ASSUME NEW w
  PROVE  Orderly(Provision(w)) /\ Orderly(ProvisionLoadBalancers(w))
<1> USE ProperInserts, ProperChanges, ProperObjects, OrderlyFew
<1>1. Orderly(ConnectAndWait(w))
  BY DEF ConnectAndWait, Kinds
<1>2. Orderly(NodeSwitch(w))
  BY DEF NodeSwitch
<1>3. Orderly(NodeGateway(w))
  BY DEF NodeGateway
<1>4. Orderly(NodeExternal(w))
  BY DEF NodeExternal
<1>5. Orderly(NodeRoutes(w))
  BY DEF NodeRoutes
<1>6. Orderly(ProvisionLoadBalancers(w))
  BY DEF ProvisionLoadBalancers
<1> QED
  BY <1>1, <1>2, <1>3, <1>4, <1>5, <1>6, ProvisionCommands DEF Orderly

LEMMA OrderlyPorts ==
  ASSUME NEW w, NEW k, NEW passive
  PROVE  /\ Orderly(ProvisionPort(w, k)) /\ Orderly(Bind(w, k, passive))
         /\ Proper(PingPort(w, k))
<1> USE ProperInserts, ProperChanges, ProperObjects, OrderlyFew
<1>1. Orderly(ProvisionPort(w, k))
  BY DEF ProvisionPort
<1>2. Proper(BindVmPort(Pod(w, k), Gateway(IntNet(w))))
  BY DEF BindVmPort, Kinds
<1>3. Orderly(BindPort(Pod(w, k), Bound(w), Gateway(IntNet(w))))
  BY <1>2 DEF BindPort
<1>4. Orderly(Bind(w, k, passive))
  BY <1>3, BindCommands DEF Orderly
<1>5. Proper(PingPort(w, k))
  BY DEF PingPort, Kinds
<1> QED  BY <1>1, <1>4, <1>5

LEMMA OrderlyZone ==
  ASSUME ZonesInv, NEW az, NEW c, NEW pods
  PROVE  /\ Orderly(SetRaftElectionTimeout(az)) /\ Orderly(StartCentral(az))
         /\ Orderly(StartRelay(az)) /\ Orderly(ProvisionLbGroup(az))
         /\ Orderly(CheckIcConnectivity) /\ Orderly(NewNamespace)
         /\ Orderly(Sync(c)) /\ Orderly(AddToNamespace(pods))
<1>0. /\ n_az \in Nat \ {0} /\ AzWorkers(n_az) \in Nat
      /\ NCentral \in Nat /\ NRelays \in Nat /\ RaftElectionTo \in Nat
  BY PlanFacts, PlanAssumption, BringupAssumption
<1>1. Orderly(SetRaftElectionTimeout(az))
  <2> DEFINE s == SetRaftElectionTimeout(az)
             k == (RaftElectionTo - 1) * NCentral
  <2>1. CASE NCentral = 1
    BY <2>1, OrderlyFew DEF SetRaftElectionTimeout
  <2>2. CASE NCentral # 1
    <3>1. s = [i \in 1..k |-> s[i]] /\ k \in Int
      BY <1>0, <2>2 DEF SetRaftElectionTimeout
    <3>2. \A i \in 1..k : Proper(s[i])
      BY <2>2, ProperInserts DEF SetRaftElectionTimeout
    <3> HIDE DEF s, k
    <3> QED  BY <3>1, <3>2, OrderlyFunction DEF s
  <2> QED  BY <2>1, <2>2
<1>2. Orderly(StartCentral(az))
  <2> DEFINE s == StartCentral(az)
  <2>1. s = [i \in 1..NCentral |-> s[i]] /\ \A i \in 1..NCentral : Proper(s[i])
    BY ProperInserts DEF StartCentral
  <2> HIDE DEF s
  <2> QED  BY <1>0, <2>1, OrderlyFunction DEF s
<1>3. Orderly(StartRelay(az))
  <2> DEFINE s == StartRelay(az)
  <2>1. s = [i \in 1..NRelays |-> s[i]] /\ \A i \in 1..NRelays : Proper(s[i])
    BY ProperInserts DEF StartRelay
  <2> HIDE DEF s
  <2> QED  BY <1>0, <2>1, OrderlyFunction DEF s
<1>4. Orderly(ProvisionLbGroup(az))
  <2> DEFINE k == 2 * AzWorkers(n_az)
             Cmd(j) ==
               LET w == FirstWorker(az) + ((j - 1) \div 2) IN
                 AddLbg(Lbg(az), IF j % 2 = 1 THEN Switch(w) ELSE GwRouter(w))
             s == [j \in 1..k |-> Cmd(j)]
             t == <<CreateLb(Lbg(az))>>
  <2>1. \A j : Proper(Cmd(j))
    BY ProperChanges, ProperObjects
  <2>2. ProvisionLbGroup(az) = t \o s
    BY DEF ProvisionLbGroup
  <2>3. k \in Int
    BY <1>0
  <2>4. Orderly(t)
    BY OrderlyFew, ProperInserts, ProperObjects
  <2> HIDE DEF Cmd, k, t
  <2>5. s = [j \in 1..k |-> s[j]] /\ \A j \in 1..k : Proper(s[j])
    BY <2>1
  <2> HIDE DEF s
  <2>6. Orderly(s)
    BY <2>3, <2>5, OrderlyFunction
  <2> QED  BY <2>2, <2>4, <2>6, OrderlyConcat
<1>5. Orderly(CheckIcConnectivity)
  <2> DEFINE s == CheckIcConnectivity
             k == (n_az - 1) * AzWorkers(n_az)
  <2>1. /\ s = [i \in 1..k |-> s[i]] /\ k \in Int
        /\ \A i \in 1..k : Proper(s[i])
    BY <1>0 DEF CheckIcConnectivity, Command, IcPing, Of, Proper, Kinds
  <2> HIDE DEF s, k
  <2> QED  BY <2>1, OrderlyFunction DEF s
<1>6. ASSUME NEW what, what # "ext-cmd"
      PROVE  Orderly(PortGroups(what))
  <2> DEFINE s == PortGroups(what)
  <2>1. s = [i \in 1..n_az |-> s[i]] /\ \A i \in 1..n_az : Proper(s[i])
    BY <1>6, ProperInserts DEF PortGroups, Of
  <2> HIDE DEF s
  <2> QED  BY <1>0, <2>1, OrderlyFunction DEF s
<1>7. Orderly(NewNamespace)
  <2> DEFINE s == [i \in 1..n_az |-> AddressSetCreate(Of("as", i - 1))]
             a == PortGroups("pg_deny_igr")
             b == PortGroups("pg_deny_egr")
             d == PortGroups("pg")
  <2>1. s = [i \in 1..n_az |-> s[i]] /\ \A i \in 1..n_az : Proper(s[i])
    BY ProperInserts DEF Of
  <2>2. NewNamespace = a \o b \o d \o s
    BY DEF NewNamespace
  <2> HIDE DEF s
  <2>3. Orderly(s)
    BY <1>0, <2>1, OrderlyFunction
  <2>4. Orderly(a) /\ Orderly(b) /\ Orderly(d)
    BY <1>6
  <2> HIDE DEF a, b, d
  <2>5. Orderly(a \o b)
    BY <2>4, OrderlyConcat
  <2>6. Orderly(a \o b \o d)
    BY <2>4, <2>5, OrderlyConcat
  <2>7. Orderly(a \o b \o d \o s)
    BY <2>3, <2>6, OrderlyConcat
  <2> QED  BY <2>2, <2>7
<1>8. Orderly(Sync(c))
  <2> DEFINE s == Sync(c)
  <2>1. s = [i \in 1..n_az |-> s[i]] /\ \A i \in 1..n_az : Proper(s[i])
    BY DEF Sync, Insert, Command, Proper, Kinds
  <2> HIDE DEF s
  <2> QED  BY <1>0, <2>1, OrderlyFunction DEF s
<1>9. Orderly(AddToNamespace(pods))
  <2>1. \A i : Proper(AddressSetAddAddrs(Of("as", i - 1), pods))
    BY ProperChanges DEF Of
  <2> QED  BY <2>1, NamespaceCommands DEF Orderly
<1> QED  BY <1>1, <1>2, <1>3, <1>4, <1>5, <1>7, <1>8, <1>9

(* The scripts of the stages, other than the external commands.            *)
LEMMA OrderlyOpening ==
  ASSUME ZonesInv, NEW c
  PROVE  Orderly(Opening(c))
<1> USE ProperInserts, ProperChanges, ProperObjects, OrderlyFew
<1>0. n_az \in Nat \ {0} /\ AzWorkers(n_az) \in Nat
  BY PlanFacts
<1>1. ASSUME NEW az PROVE Orderly(PrepareTest(az))
  <2>1. \A w : Orderly(Configure(w))
    BY DEF Configure, Kinds
  <2>2. \A x \in UNION {Range(Configure(FirstWorker(az) + j - 1)) :
                          j \in 1..AzWorkers(n_az)} : Proper(x)
    BY <2>1 DEF Orderly
  <2>3. \A x \in {SetGlobal(Of("ic-route-learn", az)),
                  SetGlobal(Of("ic-route-adv", az)),
                  SetGlobal(Of("options", az)), SetGlobal(Of("name", az)),
                  SetGlobal(Of("inactivity_probe", az))} : Proper(x)
    BY DEF Of
  <2>4. \A x \in Range(SetRaftElectionTimeout(az)) \cup Range(StartCentral(az))
                   \cup Range(StartRelay(az)) : Proper(x)
    BY OrderlyZone DEF Orderly
  <2> QED  BY ONLY <2>2, <2>3, <2>4, PrepareCommands, ZonesInv DEF Orderly
<1>2. CASE c = 1
  <2> DEFINE f == [i \in 1..n_az |-> PrepareTest(i - 1)]
  <2>1. f = [i \in 1..n_az |-> f[i]] /\ \A i \in 1..n_az : Orderly(f[i])
    BY <1>1
  <2>2. Opening(c) = FlattenSeq(f)
    <3>1. c # Startup /\ c # Density
      BY ONLY <1>0, <1>2 DEF Startup, Density
    <3> QED  BY ONLY <1>2, <3>1 DEF Opening
  <2> HIDE DEF f
  <2> QED  BY <1>0, <2>1, <2>2, OrderlyFlatten
<1>3. CASE c # 1 /\ c \in {Startup, Density}
  BY <1>3 DEF Opening
<1>4. CASE c # 1 /\ c \notin {Startup, Density}
  <2> DEFINE az == Zone(c)
             r == CreateClusterRouter(az)
             s == CreateClusterJoinSwitch(az)
             t == CreateClusterLoadBalancer(az)
             u == ConnectTransitSwitch(az)
  <2>1. Orderly(r)
    BY DEF CreateClusterRouter
  <2>2. Orderly(s)
    BY DEF CreateClusterJoinSwitch
  <2>3. Orderly(t)
    BY DEF CreateClusterLoadBalancer
  <2>4. Orderly(u)
    <3>1. Proper(Insert(TsFound(az), Ts, None, {"log"}))
      BY DEF Kinds
    <3>2. Proper(SetGlobalExternalId(Of("is-interconn", FirstWorker(az))))
      BY DEF Of
    <3> QED  BY <3>1, <3>2 DEF ConnectTransitSwitch
  <2>5. Opening(c) = r \o s \o t \o u
    BY <1>4 DEF Opening
  <2> HIDE DEF r, s, t, u
  <2>6. Orderly(r \o s)
    BY <2>1, <2>2, OrderlyConcat
  <2>7. Orderly(r \o s \o t)
    BY <2>3, <2>6, OrderlyConcat
  <2> QED  BY <2>4, <2>5, <2>7, OrderlyConcat
<1> QED  BY <1>2, <1>3, <1>4

LEMMA OrderlyEnds ==
  ASSUME ZonesInv, NEW c
  PROVE  Orderly(Closing(c)) /\ Orderly(Sync(c) \o Following(c))
<1>1. Orderly(Closing(c))
  BY OrderlyZone, OrderlyFew DEF Closing
<1>2. Orderly(CreateTransitSwitch)
  BY OrderlyFew, ProperInserts, ProperObjects DEF CreateTransitSwitch
<1>3. Orderly(CheckIcConnectivity \o NewNamespace)
  BY OrderlyZone, OrderlyConcat
<1>4. Orderly(Following(c))
  BY <1>2, <1>3, OrderlyFew DEF Following
<1> QED  BY <1>1, <1>4, OrderlyZone, OrderlyConcat

LEMMA OrderlyBody ==
  ASSUME StageInv, Iterate
  PROVE  Orderly(todo')
<1>0. ZonesInv /\ NPods \in Nat
  BY BringupAssumption DEF StageInv
<1>1. ASSUME NEW az, NEW n \in Nat, NEW passive
      PROVE  Orderly(ClusterPorts(az, n, passive)
                       \o AddToNamespace(ClusterPods(az, n)))
  <2>1. Orderly(ClusterPorts(az, n, passive))
    BY OrderlyPorts, ClusterPortsCommands DEF Orderly
  <2> QED  BY <1>0, <2>1, OrderlyZone, OrderlyConcat
<1>2. ASSUME NEW w PROVE Orderly(BringUp(w))
  <2>1. ASSUME NEW c \in Range(ProvisionPorts(w)) PROVE Proper(c)
    <3> DEFINE P == {Range(ProvisionPort(w, k - 1)) : k \in 1..NPods}
               B == {Range(Bind(w, k - 1, FALSE)) : k \in 1..NPods}
    <3>1. c \in (UNION P) \cup (UNION B)
      BY <2>1, PortsCommands, Zenon
    <3>2. \E k \in 1..NPods : \/ c \in Range(ProvisionPort(w, k - 1))
                              \/ c \in Range(Bind(w, k - 1, FALSE))
      BY <3>1
    <3> QED  BY <3>2, OrderlyPorts DEF Orderly
  <2>2. ASSUME NEW c \in Range(BringUp(w)) PROVE Proper(c)
    <3>1. \/ c \in Range(Provision(w)) \/ c \in Range(ProvisionPorts(w))
          \/ c \in Range(ProvisionLoadBalancers(w))
          \/ \E k \in 1..NPods : c = PingPort(w, k - 1)
      BY BringUpCommands
    <3> QED  BY <2>1, <3>1, OrderlyWorker, OrderlyPorts DEF Orderly
  <2> QED  BY <2>2, BringUpCommands DEF Orderly
<1>3. ASSUME NEW az, NEW n, StartupBody(az, n) PROVE Orderly(todo')
  <2>1. n \in Nat
    BY <1>0, <1>3, DistributeIsNat DEF StartupBody
  <2> QED  BY <1>1, <1>3, <2>1 DEF StartupBody
<1>4. ASSUME NEW az, DensityBody(az) PROVE Orderly(todo')
  <2> DEFINE s == ClusterPorts(az, 1, FALSE)
                    \o AddToNamespace(ClusterPods(az, 1))
             t == <<PingPort(Target(az, 1), NextIndex(az, 1))>>
  <2>1. Orderly(s) /\ todo' = s \o t
    BY <1>1, <1>4 DEF DensityBody
  <2>2. Orderly(t)
    BY OrderlyPorts, OrderlyFew
  <2> HIDE DEF s, t
  <2> QED  BY <2>1, <2>2, OrderlyConcat
<1>5. ASSUME NEW az, NEW i, BringUpBody(az, i) PROVE Orderly(todo')
  BY <1>2, <1>5 DEF BringUpBody
<1> QED  BY <1>3, <1>4, <1>5, BodyCases

-----------------------------------------------------------------------------
(* What the run is made of.                                                *)
LEMMA IterationsAreNat ==
  ASSUME Feasible, ZonesInv, NEW c
  PROVE  Iterations(c) \in Nat
BY PlanFacts, BringupAssumption DEF Feasible, Iterations

LEMMA ExternalCommands ==
  ASSUME NEW c, NEW i
  PROVE  /\ IsList(External(c, i))
         /\ c = Density /\ i \in ExtIterations =>
              Range(External(c, i)) = {ExtCommand(i)}
         /\ ~(c = Density /\ i \in ExtIterations) =>
              Range(External(c, i)) = {}
BY ListFew, Zenon DEF External, ExtCommand

LEMMA ScriptStart == Init => ScriptInv
<1> SUFFICES ASSUME Init PROVE ScriptInv
  OBVIOUS
<1>1. attempts = 0 /\ faults = 0 /\ pc = "idle" /\ todo = <<>>
  BY DEF Init, ScriptInit
<1>2. Range(todo) = {}
  BY <1>1, ListFew, Zenon
<1> QED  BY <1>1, <1>2, RetryAssumption DEF ScriptInv

LEMMA ScriptStep == StageInv /\ ScriptInv /\ [Next]_vars => ScriptInv'
<1> SUFFICES ASSUME StageInv, ScriptInv, [Next]_vars PROVE ScriptInv'
  OBVIOUS
<1>0. /\ n_az' = n_az /\ Density' = Density /\ ZonesInv
      /\ at \in 1..(Density + 1) /\ Density \in Nat
  BY PlanIsFixed, PlanFacts DEF Density, StageInv
<1>1. ASSUME NEW s, Orderly(s), Begin(s)
      PROVE  ScriptInv'
  <2>1. /\ todo' = s /\ pc' = "busy" /\ attempts' = attempts
        /\ faults' = faults
    BY <1>1 DEF Begin
  <2> QED  BY <1>1, <2>1 DEF ScriptInv, Orderly
<1>2. CASE Enter
  BY <1>0, <1>1, <1>2, OrderlyOpening DEF Enter
<1>3. CASE Top
  <2>1. /\ todo' = External(at, context.iteration) /\ pc' = "busy"
        /\ attempts' = attempts /\ faults' = faults
    BY <1>3 DEF Top, Begin
  <2>2. \A c \in Range(todo') :
          \E i \in ExtIterations : c = ExtCommand(i)
    BY <2>1, ExternalCommands
  <2>3. \A i : ExtCommand(i)' = ExtCommand(i)
    BY DEF ExtCommand
  <2> QED  BY <2>1, <2>2, <2>3 DEF ScriptInv
<1>4. CASE Iterate
  <2>1. Orderly(todo')
    BY <1>4, OrderlyBody
  <2>2. pc' = "busy" /\ attempts' = attempts /\ faults' = faults
    BY <1>4 DEF Iterate, Body, Begin
  <2> QED  BY <2>1, <2>2 DEF ScriptInv, Orderly
<1>5. CASE StopIteration
  BY <1>0, <1>1, <1>5, OrderlyEnds DEF StopIteration
<1>6. CASE Leave
  BY <1>0, <1>1, <1>6, OrderlyEnds DEF Leave
<1>7. CASE Work
  <2>1. Range(todo') \subseteq Range(todo)
    BY <1>7, WorkMoves DEF StageInv
  <2>2. /\ attempts' \in 0..(MaxRetry - 1) /\ faults' \in 0..MaxFaults
        /\ pc' \in {"busy", "dead"}
    <3>1. CASE Execute
      BY <3>1, RetryAssumption
         DEF Execute, Succeeds, Fails, Advance, Stop, AttemptsMade, ScriptInv
    <3>2. CASE PingTimesOut
      BY <3>2, RetryAssumption DEF PingTimesOut, Advance, Stop, ScriptInv
    <3> QED  BY <1>7, <3>1, <3>2 DEF Work
  <2>3. \A i : ExtCommand(i)' = ExtCommand(i)
    BY DEF ExtCommand
  <2> QED  BY <2>1, <2>2, <2>3 DEF ScriptInv
<1>8. CASE Finish
  <2>1. /\ at = Density + 1 /\ stage = "enter" /\ pc' = "done"
        /\ UNCHANGED <<at, stage, todo, attempts, faults>>
    BY <1>0, <1>8 DEF Finish, where
  <2> QED  BY <1>0, <2>1 DEF ScriptInv
<1>9. CASE EndOfScript
  <2>1. pc' = "idle" /\ UNCHANGED <<at, stage, todo, attempts, faults>>
    BY <1>9 DEF EndOfScript, End, where
  <2> QED  BY <2>1 DEF ScriptInv
<1>10. CASE UNCHANGED vars
  BY <1>0, <1>10 DEF vars, script, where, ScriptInv
<1> QED
  BY <1>2, <1>3, <1>4, <1>5, <1>6, <1>7, <1>8, <1>9, <1>10 DEF Next

LEMMA LoopStart == Init => LoopInv
BY DEF Init, ContextInit, NewContext, Before, LoopInv

LEMMA LoopStep ==
  Feasible /\ StageInv /\ VerdictInv /\ LoopInv /\ [Next]_vars => LoopInv'
<1> SUFFICES ASSUME Feasible, StageInv, VerdictInv, LoopInv, [Next]_vars
             PROVE  LoopInv'
  OBVIOUS
<1>0. /\ n_az' = n_az /\ ZonesInv /\ context.iteration \in Int
      /\ context.iteration >= -1 /\ \A c : Iterations(c)' = Iterations(c)
      /\ context.failed \in BOOLEAN /\ context.max \in Nat
      /\ stage \in {"enter", "top", "advance", "leave"}
  BY PlanIsFixed, PlanStays DEF StageInv, Before, VerdictInv, LoopInv
<1>1. CASE Enter
  <2>1. /\ context' = NewContext(Name(at), Iterations(at)) /\ at' = at
        /\ failures' = {} /\ totals' = {}
        /\ stage' = "leave" => at = 1
    BY <1>1 DEF Enter, EnterContext
  <2>2. /\ context'.max = Iterations(at) /\ context'.iteration = -1
        /\ ~context'.started
    BY <2>1 DEF NewContext, Before
  <2>3. Iterations(at) \in Nat
    BY <1>0, IterationsAreNat
  <2> QED  BY <2>1, <2>2, <2>3 DEF LoopInv
<1>2. CASE Top
  <2>1. /\ context' = [context EXCEPT !.started = TRUE, !.failed = FALSE]
        /\ stage = "top" /\ stage' = "advance" /\ failures' = failures
        /\ totals' = IF context.started
                     THEN totals \cup {<<context.iteration, context.failed>>}
                     ELSE totals
    BY <1>2 DEF Top, Conclude
  <2>2. context'.iteration = context.iteration /\ context'.max = context.max
    BY <2>1 DEF StageInv
  <2>3. totals' \subseteq (0..context.iteration) \X BOOLEAN
    <3>1. CASE context.started
      <4>1. context.iteration \in 0..context.iteration
        BY <1>0, <2>1, <3>1 DEF LoopInv
      <4>2. <<context.iteration, context.failed>>
              \in (0..context.iteration) \X BOOLEAN
        BY <1>0, <4>1
      <4> QED  BY <2>1, <3>1, <4>2 DEF LoopInv
    <3>2. CASE ~context.started
      BY <2>1, <3>2 DEF LoopInv
    <3> QED  BY <3>1, <3>2
  <2> QED  BY <1>0, <2>1, <2>2, <2>3 DEF LoopInv
<1>3. CASE Iterate
  <2>1. /\ context' = [context EXCEPT !.iteration = context.iteration + 1]
        /\ context.iteration < context.max - 1
        /\ stage' = "top" /\ UNCHANGED <<failures, totals>>
    BY <1>3 DEF Iterate, NextIteration, MoreIterations
  <2>2. /\ context'.iteration = context.iteration + 1
        /\ context'.max = context.max
    BY <2>1 DEF StageInv
  <2>3. /\ Before..context.iteration \subseteq Before..context'.iteration
        /\ 0..context.iteration \subseteq 0..context'.iteration
    BY <1>0, <2>2 DEF Before
  <2>4. totals' \subseteq (0..context'.iteration) \X BOOLEAN
    BY <2>1, <2>3 DEF LoopInv
  <2> QED  BY <1>0, <2>1, <2>2, <2>3, <2>4 DEF LoopInv
<1>4. CASE StopIteration
  <2>1. /\ UNCHANGED <<stats, at>> /\ stage = "advance" /\ stage' = "leave"
        /\ ~(context.iteration < context.max - 1)
        /\ context.max = Iterations(at)
    BY <1>4 DEF StopIteration, MoreIterations, StageInv
  <2>2. context.iteration = Iterations(at) - 1
    BY <1>0, <2>1 DEF LoopInv
  <2> QED  BY <1>0, <2>1, <2>2 DEF LoopInv, stats
<1>5. CASE Leave
  BY <1>5 DEF Leave, LoopInv, stats
<1>6. CASE Work
  <2>1. UNCHANGED where /\ (UNCHANGED stats \/ AddFailure)
    BY <1>6, WorkLeaves DEF Work
  <2>2. CASE UNCHANGED stats
    BY <1>0, <2>1, <2>2 DEF LoopInv, stats, where
  <2>3. CASE AddFailure
    <3>1. /\ context' = [context EXCEPT !.failed = TRUE]
          /\ failures' = failures \cup {context.iteration}
          /\ totals' = totals
      BY <2>3 DEF AddFailure
    <3>2. /\ context'.iteration = context.iteration
          /\ context'.max = context.max /\ context'.started = context.started
      BY <3>1 DEF StageInv
    <3>3. context.iteration \in Before..context.iteration
      BY <1>0 DEF Before
    <3>4. stage' = stage /\ at' = at
      BY <2>1 DEF where
    <3> QED  BY <1>0, <3>1, <3>2, <3>3, <3>4 DEF LoopInv
  <2> QED  BY <2>1, <2>2, <2>3
<1>7. ASSUME UNCHANGED <<stats, where>> PROVE LoopInv'
  BY <1>0, <1>7 DEF LoopInv, stats, where
<1> QED
  BY <1>1, <1>2, <1>3, <1>4, <1>5, <1>6, <1>7
     DEF Next, Finish, EndOfScript, vars

LEMMA RunIsTyped ==
  ASSUME Feasible, StageInv, VerdictInv, ScriptInv, LoopInv
  PROVE  TypeOK
<1>1. ScriptTypeOK
  <2>1. \A c \in Range(todo) :
          c.fails \subseteq {"retry", "log", "measure", "raise", "lose"}
    BY DEF ScriptInv, Proper, Kinds, ExtCommand, Insert, Command
  <2>2. \A k \in DOMAIN todo : todo[k] \in Range(todo)
    BY DEF Range
  <2> QED  BY <2>1, <2>2 DEF ScriptTypeOK, ScriptInv
<1>2. ContextTypeOK
  <2>1. /\ context.iteration \in Int /\ context.iteration >= -1
        /\ context.iteration < context.max /\ context.max \in Nat
    BY DEF StageInv, LoopInv, Before
  <2>2. /\ Before..context.iteration \subseteq Before..(context.max - 1)
        /\ 0..context.iteration \subseteq 0..(context.max - 1)
        /\ context.iteration \in Before..(context.max - 1)
    BY <2>1 DEF Before
  <2>3. totals \subseteq (0..(context.max - 1)) \X BOOLEAN
    BY <2>2 DEF LoopInv
  <2> QED  BY <2>1, <2>2, <2>3 DEF ContextTypeOK, LoopInv, VerdictInv
<1> QED  BY <1>1, <1>2 DEF TypeOK, StageInv, ZonesInv, ScriptInv

-----------------------------------------------------------------------------
(* External commands: what there is of them is there once it has begun.    *)
LEMMA ExtStart == Init => ExtInv
<1> SUFFICES ASSUME Init PROVE ExtInv
  OBVIOUS
<1>1. /\ at = 1 /\ stage = "enter" /\ todo = <<>> /\ db = <<>> /\ logged = {}
      /\ n_az \in Nat
  BY PlanAssumption DEF Init, ScriptInit
<1>2. Range(todo) = {} /\ Rows = {}
  BY <1>1, ListFew, Zenon DEF Rows
<1>3. at < Density
  BY <1>1 DEF Density
<1>4. \A i : ~ExtBegun(i)
  BY <1>1, <1>2 DEF ExtBegun, Executed
<1> QED  BY <1>1, <1>3, <1>4 DEF ExtInv

(* Executing a command neither begins an external command nor loses one.   *)
LEMMA WorkBeginsNothing ==
  ASSUME StageInv, ScriptInv, Work, NEW i \in ExtIterations
  PROVE  ExtBegun(i)' <=> ExtBegun(i)
<1> DEFINE cmd == Head(todo)
           x   == Of("ext-cmd", i)
<1>1. /\ todo # <<>> /\ cmd \in Range(todo) /\ IsList(todo) /\ IsList(db)
      /\ Range(todo') \subseteq Range(todo)
      /\ Rows \subseteq Rows' /\ Rows' \subseteq Rows \cup {cmd.row}
  BY WorkMoves DEF StageInv
<1>2. /\ logged \subseteq logged'
      /\ logged' \subseteq
           logged \cup {cmd.row, <<"lost", cmd.row[2], None, None>>}
  <2>1. CASE Execute
    BY <2>1 DEF Execute
  <2>2. CASE PingTimesOut
    BY <2>2 DEF PingTimesOut
  <2> QED  BY <2>1, <2>2 DEF Work
<1>3. ExtBegun(i)' <=> \/ \E r \in Rows' \cup logged' : r[2] = x
                       \/ \E c \in Range(todo') : c.row[2] = x
  BY DEF ExtBegun, Executed, Of
<1>4. ExtBegun(i) <=> \/ \E r \in Rows \cup logged : r[2] = x
                      \/ \E c \in Range(todo) : c.row[2] = x
  BY DEF ExtBegun, Executed
<1>5. ExtBegun(i)' => ExtBegun(i)
  <2> SUFFICES ASSUME ExtBegun(i)' PROVE ExtBegun(i)
    OBVIOUS
  <2>1. ASSUME NEW r \in Rows' \cup logged', r[2] = x
        PROVE  ExtBegun(i)
    <3>1. CASE r \in Rows \cup logged
      BY <1>4, <2>1, <3>1
    <3>2. CASE r = cmd.row \/ r = <<"lost", cmd.row[2], None, None>>
      <4>1. cmd.row[2] = x
        BY <2>1, <3>2
      <4> QED  BY <1>1, <1>4, <4>1
    <3> HIDE DEF cmd, x
    <3> QED  BY <1>1, <1>2, <2>1, <3>1, <3>2
  <2> HIDE DEF cmd, x
  <2> QED  BY <1>1, <1>3, <1>4, <2>1
<1>6. ExtBegun(i) => ExtBegun(i)'
  <2> SUFFICES ASSUME NEW c \in Range(todo), c.row[2] = x
               PROVE  \/ c \in Range(todo')
                      \/ c.row \in Rows' \cup logged'
    BY <1>1, <1>2, <1>3, <1>4
  <2>1. c.fails = {"log", "raise"}
    <3>1. ~Proper(c)
      BY DEF Proper, Of
    <3> QED  BY <3>1 DEF ScriptInv, ExtCommand, Insert, Command
  <2>2. CASE todo' = todo
    BY <2>2
  <2>3. CASE todo' = Tail(todo) /\ c \in Range(Tail(todo))
    BY <2>3
  <2>4. CASE todo' = Tail(todo) /\ todo' # todo /\ c = cmd
    <3>1. Execute
      <4>1. "measure" \notin cmd.fails
        BY <2>1, <2>4
      <4> QED  BY <2>4, <4>1 DEF Work, PingTimesOut, Stop
    <3>2. CASE Succeeds(cmd)
      <4>1. db' = Append(db, cmd.row)
        BY <2>1, <2>4, <3>2 DEF Succeeds, Effect
      <4>2. cmd.row \in Rows'
        BY <1>1, <4>1, ListAppend DEF Rows
      <4> QED  BY <2>4, <4>2
    <3>3. CASE ~Succeeds(cmd)
      <4>1. logged' = logged \cup {cmd.row}
        BY <2>1, <2>4, <3>1, <3>3 DEF Execute, Stop
      <4> QED  BY <2>4, <4>1
    <3> QED  BY <3>2, <3>3
  <2>5. todo' = todo \/ todo' = Tail(todo)
    BY WorkLeaves
  <2>6. Range(todo) \subseteq {cmd} \cup Range(Tail(todo))
    BY <1>1, ListHead
  <2> QED  BY <2>2, <2>3, <2>4, <2>5, <2>6
<1> QED  BY <1>5, <1>6

LEMMA ExtStep ==
  Feasible /\ StageInv /\ PlaceInv /\ ScriptInv /\ ExtInv /\ [Next]_vars
    => ExtInv'
<1> SUFFICES ASSUME Feasible, StageInv, PlaceInv, ScriptInv, ExtInv,
                    [Next]_vars
             PROVE  ExtInv'
  OBVIOUS
<1>0. /\ n_az' = n_az /\ Density' = Density /\ Density \in Nat /\ ZonesInv
      /\ at \in 1..(Density + 1) /\ context.iteration \in Int
      /\ context.iteration >= -1
      /\ stage \in {"enter", "top", "advance", "leave"}
  BY PlanIsFixed, PlanFacts DEF StageInv, Before, Density
<1>1. \A i \in ExtIterations : i \in Int /\ i >= -1
  BY BringupAssumption DEF Feasible, Before
(* A script begins when none is left, and what has begun is executed.      *)
<1>2. ASSUME NEW s, Begin(s), NEW i
      PROVE  /\ ExtBegun(i) <=> Executed(i)
             /\ ExtBegun(i)' <=>
                  Executed(i) \/ \E c \in Range(s) : c.row[2] = Of("ext-cmd", i)
  <2>1. /\ pc = "idle" /\ todo' = s /\ db' = db /\ logged' = logged
    BY <1>2 DEF Begin
  <2>2. todo = <<>>
    BY <2>1 DEF PlaceInv
  <2>3. Range(todo) = {}
    BY <2>2, ListFew, Zenon
  <2> QED  BY <2>1, <2>3 DEF ExtBegun, Executed, Rows, Of
<1>3. ASSUME NEW s, Orderly(s), Begin(s), NEW i
      PROVE  ExtBegun(i)' <=> ExtBegun(i)
  <2>1. \A c \in Range(s) : c.row[2] # Of("ext-cmd", i)
    BY <1>3 DEF Orderly, Proper, Of
  <2> QED  BY <1>2, <1>3, <2>1
<1>4. CASE Enter
  <2>1. /\ stage = "enter" /\ at' = at /\ at <= Density /\ Begin(Opening(at))
        /\ context' = NewContext(Name(at), Iterations(at))
    BY <1>4 DEF Enter, EnterContext
  <2>2. context'.iteration = -1
    BY <2>1 DEF NewContext, Before
  <2>3. \A i : ExtBegun(i)' <=> ExtBegun(i)
    BY <1>0, <1>3, <2>1, OrderlyOpening
  <2>4. \A i \in ExtIterations : ~ExtBegun(i)
    BY <1>0, <2>1 DEF ExtInv
  <2>5. at = Density => stage' = "top"
    BY <1>0, <1>4, PlanFacts DEF Enter, Density
  <2> QED  BY <1>0, <1>1, <2>1, <2>2, <2>3, <2>4, <2>5 DEF ExtInv
<1>5. CASE Top
  <2>1. /\ stage = "top" /\ stage' = "advance" /\ at' = at
        /\ Begin(External(at, context.iteration))
        /\ context' = [context EXCEPT !.started = TRUE, !.failed = FALSE]
    BY <1>5 DEF Top, Conclude
  <2>2. context'.iteration = context.iteration
    BY <2>1 DEF StageInv
  <2>3. ASSUME NEW i \in ExtIterations
        PROVE  ExtBegun(i)' <=>
                 ExtBegun(i) \/ (at = Density /\ i = context.iteration)
    <3> DEFINE s == External(at, context.iteration)
    <3>1. (\E c \in Range(s) : c.row[2] = Of("ext-cmd", i)) <=>
            at = Density /\ i = context.iteration
      <4>1. CASE at = Density /\ context.iteration \in ExtIterations
        <5>1. Range(s) = {ExtCommand(context.iteration)}
          BY <4>1, ExternalCommands
        <5>2. ExtCommand(context.iteration).row[2]
                = Of("ext-cmd", context.iteration)
          BY DEF ExtCommand, Insert, Command
        <5>3. Of("ext-cmd", context.iteration) = Of("ext-cmd", i)
                <=> i = context.iteration
          BY DEF Of
        <5> HIDE DEF s
        <5> QED  BY <4>1, <5>1, <5>2, <5>3
      <4>2. CASE ~(at = Density /\ context.iteration \in ExtIterations)
        <5>1. Range(s) = {}
          BY <4>2, ExternalCommands
        <5> QED  BY <4>2, <5>1
      <4> QED  BY <4>1, <4>2
    <3> QED  BY <1>2, <2>1, <3>1
  <2> QED  BY <1>0, <1>1, <2>1, <2>2, <2>3 DEF ExtInv
<1>6. CASE Iterate
  <2>1. /\ stage = "advance" /\ stage' = "top" /\ at' = at /\ Begin(todo')
        /\ context' = [context EXCEPT !.iteration = context.iteration + 1]
    BY <1>6 DEF Iterate, NextIteration, Body, Begin
  <2>2. context'.iteration = context.iteration + 1
    BY <2>1 DEF StageInv
  <2>3. \A i : ExtBegun(i)' <=> ExtBegun(i)
    <3>1. PICK s : s = todo'
      OBVIOUS
    <3>2. Orderly(s) /\ Begin(s)
      BY <1>6, <2>1, <3>1, OrderlyBody
    <3> QED  BY <1>3, <3>2
  <2> QED  BY <1>0, <1>1, <2>1, <2>2, <2>3 DEF ExtInv
<1>7. CASE StopIteration
  <2>1. /\ stage = "advance" /\ stage' = "leave" /\ at' = at
        /\ Begin(Closing(at)) /\ context' = context
    BY <1>7 DEF StopIteration, stats
  <2>2. \A i : ExtBegun(i)' <=> ExtBegun(i)
    BY <1>0, <1>3, <2>1, OrderlyEnds
  <2> QED  BY <1>0, <1>1, <2>1, <2>2 DEF ExtInv
<1>8. CASE Leave
  <2>1. /\ stage = "leave" /\ stage' = "enter" /\ at' = at + 1
        /\ Begin(Sync(at) \o Following(at)) /\ context' = context
    BY <1>8 DEF Leave, stats
  <2>2. \A i : ExtBegun(i)' <=> ExtBegun(i)
    BY <1>0, <1>3, <2>1, OrderlyEnds
  <2> QED  BY <1>0, <1>1, <2>1, <2>2 DEF ExtInv
<1>9. CASE Work
  <2>1. UNCHANGED where /\ (UNCHANGED stats \/ AddFailure)
    BY <1>9, WorkLeaves DEF Work
  <2>2. context'.iteration = context.iteration
    BY <2>1 DEF StageInv, stats, AddFailure
  <2>3. \A i \in ExtIterations : ExtBegun(i)' <=> ExtBegun(i)
    BY <1>9, WorkBeginsNothing
  <2> QED  BY <1>0, <1>1, <2>1, <2>2, <2>3 DEF ExtInv, where
<1>10. ASSUME UNCHANGED <<stats, where, db, todo, logged>> PROVE ExtInv'
  <2>1. \A i : ExtBegun(i)' <=> ExtBegun(i)
    BY <1>10 DEF ExtBegun, Executed, Rows, Of
  <2> QED  BY <1>0, <1>10, <2>1 DEF ExtInv, stats, where
<1> QED
  BY <1>4, <1>5, <1>6, <1>7, <1>8, <1>9, <1>10
     DEF Next, Finish, EndOfScript, End, vars, script

LEMMA ExternalAreInOrder ==
  ASSUME StageInv, PlaceInv, ExtInv
  PROVE  ExtCommandsInOrder
<1> SUFFICES ASSUME at = Density, pc = "idle", context.name = "density_light"
             PROVE  \A i \in ExtIterations :
                      Executed(i) <=> \/ i < context.iteration
                                      \/ /\ i = context.iteration
                                         /\ stage \in {"advance", "leave"}
  BY DEF ExtCommandsInOrder
<1>0. n_az \in Nat \ {0}
  BY PlanFacts DEF StageInv
<1>1. stage # "enter"
  <2> SUFFICES ASSUME stage = "enter" PROVE FALSE
    OBVIOUS
  <2>1. Entered = n_az + 2
    BY <1>0 DEF Entered, Density
  <2>2. Name(Entered) = "density_light_startup"
    BY <1>0, <2>1 DEF Name, Startup, Density
  <2>3. context.name = Name(Entered)
    BY <1>0, <2>1 DEF PlaceInv
  <2> QED  BY <2>2, <2>3
<1>2. \A i : ExtBegun(i) <=> Executed(i)
  <2>1. todo = <<>>
    BY DEF PlaceInv
  <2>2. Range(todo) = {}
    BY <2>1, ListFew, Zenon
  <2> QED  BY <2>2 DEF ExtBegun
<1> QED  BY <1>1, <1>2 DEF ExtInv

-----------------------------------------------------------------------------
(***************************************************************************)
(* The number of pods: what a test adds to the workers of a zone, what it  *)
(* distributes over the zones, and what the bring-up adds.                 *)
(***************************************************************************)
LEMMA SharesByOne ==
  ASSUME NEW az, NEW n \in Nat, NEW w
  PROVE  /\ Share(az, 0, w) = 0
         /\ Share(az, n + 1, w) =
              Share(az, n, w) + (IF Target(az, n + 1) = w THEN 1 ELSE 0)
         /\ Share(az, n, w) <= n
<1> DEFINE S(m) == {k \in 1..m : Target(az, k) = w}
<1>1. Share(az, 0, w) = 0
  <2>1. S(0) = {}
    OBVIOUS
  <2> QED  BY <2>1, FS_EmptySet DEF Share
<1>2. IsFiniteSet(S(n)) /\ Cardinality(S(n)) <= n
  <2>1. IsFiniteSet(1..n) /\ Cardinality(1..n) = n
    BY FS_Interval
  <2>2. S(n) \subseteq 1..n
    OBVIOUS
  <2> HIDE DEF S
  <2> QED  BY <2>1, <2>2, FS_Subset
<1>3. Share(az, n + 1, w) =
        Share(az, n, w) + (IF Target(az, n + 1) = w THEN 1 ELSE 0)
  <2>1. CASE Target(az, n + 1) = w
    <3>1. S(n + 1) = S(n) \cup {n + 1} /\ n + 1 \notin S(n)
      BY <2>1
    <3> HIDE DEF S
    <3>2. Cardinality(S(n + 1)) = Cardinality(S(n)) + 1
      BY <1>2, <3>1, FS_AddElement
    <3> QED  BY <2>1, <3>2 DEF Share, S
  <2>2. CASE Target(az, n + 1) # w
    <3>1. S(n + 1) = S(n)
      BY <2>2
    <3>2. Share(az, n + 1, w) = Share(az, n, w)
      BY <3>1 DEF Share
    <3> QED  BY <2>2, <3>2, SharesAreFinite
  <2> QED  BY <2>1, <2>2
<1> QED  BY <1>1, <1>2, <1>3 DEF Share

(* The shares of all workers in n are n.                                   *)
PortsWith(az, n) ==
  {p \in AllWorkers \X Nat :
     p[2] >= 1 /\ p[2] <= Len(lports[p[1]]) + Share(az, n, p[1])}

LEMMA SharesAddUp ==
  ASSUME StageInv, NEW az \in Zones, IsFiniteSet(Ports(lports)), NEW n \in Nat
  PROVE  /\ IsFiniteSet(PortsWith(az, n))
         /\ Cardinality(PortsWith(az, n)) = Cardinality(Ports(lports)) + n
<1> DEFINE C    == Cardinality(Ports(lports))
           P(m) == /\ IsFiniteSet(PortsWith(az, m))
                   /\ Cardinality(PortsWith(az, m)) = C + m
           Bad  == {m \in Nat : ~P(m)}
<1>0. \A w \in AllWorkers : Len(lports[w]) \in Nat
  BY DEF StageInv
<1>1. C \in Nat
  BY FS_CardinalityType
<1>2. P(0)
  <2>1. \A w : Share(az, 0, w) = 0
    BY SharesByOne
  <2>2. PortsWith(az, 0) = Ports(lports)
    BY <1>0, <2>1 DEF PortsWith, Ports
  <2> QED  BY <1>1, <2>2
<1>3. ASSUME NEW m \in Nat, P(m) PROVE P(m + 1)
  <2> DEFINE w == Target(az, m + 1)
             j == Len(lports[w]) + Share(az, m, w) + 1
  <2>1. w \in AllWorkers /\ j \in Nat /\ j >= 1
    <3>1. w \in AllWorkers
      BY TargetIsWorker
    <3>2. Share(az, m, w) \in Nat
      BY SharesAreFinite
    <3> HIDE DEF w
    <3> QED  BY <1>0, <3>1, <3>2
  <2>2. \A v \in AllWorkers :
          /\ Share(az, m, v) \in Nat
          /\ Share(az, m + 1, v) = Share(az, m, v) + (IF v = w THEN 1 ELSE 0)
    BY SharesByOne, SharesAreFinite
  <2>3. Share(az, m + 1, w) = Share(az, m, w) + 1
    BY <2>1, <2>2
  <2> HIDE DEF w
  <2>4. PortsWith(az, m + 1) = PortsWith(az, m) \cup {<<w, j>>}
    <3>1. ASSUME NEW v \in AllWorkers, NEW i \in Nat
          PROVE  /\ <<v, i>> \in PortsWith(az, m + 1) <=>
                      i >= 1 /\ i <= Len(lports[v]) + Share(az, m + 1, v)
                 /\ <<v, i>> \in PortsWith(az, m) <=>
                      i >= 1 /\ i <= Len(lports[v]) + Share(az, m, v)
      BY DEF PortsWith
    <3>2. ASSUME NEW v \in AllWorkers, NEW i \in Nat
          PROVE  <<v, i>> \in PortsWith(az, m + 1) <=>
                   <<v, i>> \in PortsWith(az, m) \/ (v = w /\ i = j)
      <4>1. CASE v = w
        <5>1. Len(lports[w]) \in Nat /\ Share(az, m, w) \in Nat
          BY <1>0, <2>1, <2>2
        <5> QED  BY <2>1, <2>3, <3>1, <4>1, <5>1
      <4>2. CASE v # w
        <5>1. Len(lports[v]) \in Nat /\ Share(az, m, v) \in Nat
              /\ Share(az, m + 1, v) = Share(az, m, v)
          BY <1>0, <2>2, <4>2
        <5> QED  BY <3>1, <4>2, <5>1
      <4> QED  BY <4>1, <4>2
    <3>3. /\ PortsWith(az, m + 1) \subseteq AllWorkers \X Nat
          /\ PortsWith(az, m) \subseteq AllWorkers \X Nat
          /\ <<w, j>> \in AllWorkers \X Nat
      BY <2>1 DEF PortsWith
    <3> HIDE DEF j
    <3> QED  BY <3>2, <3>3
  <2>5. <<w, j>> \notin PortsWith(az, m)
    <3>1. Len(lports[w]) \in Nat /\ Share(az, m, w) \in Nat
      BY <1>0, <2>1, <2>2
    <3> QED  BY <3>1 DEF PortsWith
  <2> HIDE DEF j
  <2>6. /\ IsFiniteSet(PortsWith(az, m + 1))
        /\ Cardinality(PortsWith(az, m + 1))
             = Cardinality(PortsWith(az, m)) + 1
    BY <1>3, <2>4, <2>5, FS_AddElement
  <2> HIDE DEF C
  <2> QED  BY <1>1, <1>3, <2>6
<1>4. Bad = {}
  <2> SUFFICES ASSUME Bad # {} PROVE FALSE
    OBVIOUS
  <2> HIDE DEF P
  <2>1. PICK m \in Bad : \A y \in Bad : m <= y
    <3>1. Bad \subseteq Nat
      OBVIOUS
    <3> HIDE DEF Bad
    <3> QED  BY <3>1, LeastOf
  <2>2. m \in Nat /\ ~P(m)
    OBVIOUS
  <2>3. m # 0
    BY <1>2, <2>2
  <2>4. m - 1 \in Nat /\ (m - 1) + 1 = m /\ ~(m <= m - 1)
    BY <2>2, <2>3
  <2>5. P(m - 1)
    BY <2>1, <2>4
  <2>6. P((m - 1) + 1)
    BY <1>3, <2>4, <2>5
  <2> QED  BY <2>2, <2>4, <2>6
<1>5. P(n)
  <2> HIDE DEF P
  <2> QED  BY <1>4
<1> QED  BY <1>5

LEMMA HandedOut ==
  ASSUME ZonesInv
  PROVE  /\ Handed(0) = 0 /\ Handed(n_az) = NStartup
         /\ \A i \in Zones :
              /\ Handed(i) \in Nat
              /\ Distribute(NStartup, n_az, i) \in Nat
              /\ Handed(i + 1) = Handed(i) + Distribute(NStartup, n_az, i)
<1> DEFINE q == NStartup \div n_az
           r == NStartup % n_az
<1>1. n_az \in Nat \ {0} /\ NStartup \in Nat
  BY PlanFacts, BringupAssumption
<1>2. q \in Nat /\ r \in 0..(n_az - 1) /\ NStartup = (n_az * q) + r
  BY <1>1, Division
<1>3. /\ \A i : Handed(i) = i * q + (IF i <= r THEN i ELSE r)
      /\ \A i : Distribute(NStartup, n_az, i) = IF i < r THEN q + 1 ELSE q
  BY DEF Handed, Distribute
<1> HIDE DEF q, r
<1>4. Handed(0) = 0 /\ Handed(n_az) = NStartup
  <2>1. 0 * q = 0 /\ 0 <= r /\ ~(n_az <= r)
    BY <1>1, <1>2
  <2> QED  BY <1>2, <1>3, <2>1
<1>5. ASSUME NEW i \in Zones
      PROVE  /\ Handed(i) \in Nat /\ Distribute(NStartup, n_az, i) \in Nat
             /\ Handed(i + 1) = Handed(i) + Distribute(NStartup, n_az, i)
  <2> DEFINE a == i * q
  <2>1. i \in Nat /\ a \in Nat
    BY <1>2 DEF Zones
  <2>2. (i + 1) * q = a + q
    BY <1>2, <2>1
  <2>3. /\ Handed(i) = a + (IF i <= r THEN i ELSE r)
        /\ Handed(i + 1) = a + q + (IF i + 1 <= r THEN i + 1 ELSE r)
    BY <1>3, <2>2
  <2> HIDE DEF a
  <2>4. PICK b, c, d : /\ b = Handed(i) /\ c = Handed(i + 1)
                       /\ d = Distribute(NStartup, n_az, i)
    OBVIOUS
  <2>5. /\ b = a + (IF i <= r THEN i ELSE r)
        /\ c = a + q + (IF i + 1 <= r THEN i + 1 ELSE r)
        /\ d = IF i < r THEN q + 1 ELSE q
    BY <1>3, <2>3, <2>4
  <2>6. b \in Nat /\ d \in Nat /\ c = b + d
    <3>1. i \in Nat /\ a \in Nat /\ q \in Nat /\ r \in Nat
      BY <1>2, <2>1
    <3>2. CASE i < r
      BY ONLY <2>5, <3>1, <3>2
    <3>3. CASE ~(i < r)
      BY ONLY <2>5, <3>1, <3>3
    <3> QED  BY <3>2, <3>3
  <2> QED  BY <2>4, <2>6
<1> QED  BY <1>4, <1>5

(* How far the loops are when a step is taken that is no iteration.        *)
LEMMA ProgressKeeps ==
  ASSUME Feasible, StageInv, PlaceInv, LoopInv, [Next]_vars, ~Iterate
  PROVE  UpSoFar' = UpSoFar /\ TestedSoFar' = TestedSoFar /\ lports' = lports
<1>0. /\ n_az' = n_az /\ n_az \in Nat \ {0} /\ AzWorkers(n_az) \in Nat
      /\ AzWorkers(n_az)' = AzWorkers(n_az) /\ ZonesInv
      /\ Startup' = Startup /\ Density' = Density
      /\ Startup = n_az + 2 /\ Density = n_az + 3
      /\ at \in 1..(n_az + 4)
      /\ stage \in {"enter", "top", "advance", "leave"}
      /\ \A i : Handed(i)' = Handed(i)
  BY PlanIsFixed, PlanFacts DEF StageInv, Startup, Density, Handed
<1>1. lports' = lports
  BY DEF Next, Enter, Top, StopIteration, Leave, Finish, Work, EndOfScript,
         vars, where
<1>2. ASSUME at' = at, Begun' = Begun
      PROVE  UpSoFar' = UpSoFar /\ TestedSoFar' = TestedSoFar
  BY <1>0, <1>2 DEF UpSoFar, TestedSoFar
<1>3. CASE Enter
  <2>1. /\ at' = at /\ stage = "enter" /\ stage' # "enter"
        /\ context' = NewContext(Name(at), Iterations(at))
    BY <1>3 DEF Enter, EnterContext
  <2>2. Begun = 0 /\ Begun' = 0
    BY <2>1 DEF Begun, NewContext, Before
  <2> QED  BY <1>1, <1>2, <2>1, <2>2
<1>4. CASE Top
  <2>1. /\ at' = at /\ stage = "top" /\ stage' = "advance"
        /\ context' = [context EXCEPT !.started = TRUE, !.failed = FALSE]
    BY <1>4 DEF Top, Conclude
  <2>2. context'.iteration = context.iteration
    BY <2>1 DEF StageInv
  <2> QED  BY <1>1, <1>2, <2>1, <2>2 DEF Begun
<1>5. CASE StopIteration
  BY <1>1, <1>2, <1>5 DEF StopIteration, stats, Begun
<1>6. CASE Leave
  <2>1. /\ at' = at + 1 /\ stage = "leave" /\ stage' = "enter" /\ at <= Density
    BY <1>6 DEF Leave, StageInv
  <2>2. Begun' = 0 /\ Begun = context.iteration + 1
    BY <2>1 DEF Begun
  <2>3. at # 1 => Begun = Iterations(at)
    <3>1. Iterations(at) \in Nat
      BY <1>0, IterationsAreNat
    <3> QED  BY <2>1, <2>2, <3>1 DEF LoopInv
  <2>4. CASE at = 1
    <3>1. UpSoFar = 0 /\ TestedSoFar = 0
      BY <1>0, <2>4 DEF UpSoFar, TestedSoFar
    <3>2. UpSoFar' = (2 - 2) * AzWorkers(n_az) + 0 /\ TestedSoFar' = 0
      BY <1>0, <2>1, <2>2, <2>4 DEF UpSoFar, TestedSoFar
    <3> QED  BY <1>0, <1>1, <3>1, <3>2
  <2>5. CASE at \in 2..(n_az + 1)
    <3>1. Begun = AzWorkers(n_az)
      BY <1>0, <2>3, <2>5 DEF Iterations
    <3>2. /\ UpSoFar = (at - 2) * AzWorkers(n_az) + AzWorkers(n_az)
          /\ TestedSoFar = 0
      BY <1>0, <2>5, <3>1 DEF UpSoFar, TestedSoFar
    <3>3. (at - 2) * AzWorkers(n_az) + AzWorkers(n_az)
            = (at - 1) * AzWorkers(n_az)
      BY <1>0
    <3>4. UpSoFar' = (at - 1) * AzWorkers(n_az)
      <4>1. CASE at = n_az + 1
        <5>1. UpSoFar' = n_az * AzWorkers(n_az)
          BY <1>0, <2>1, <4>1 DEF UpSoFar
        <5> QED  BY <1>0, <4>1, <5>1
      <4>2. CASE at # n_az + 1
        <5>1. UpSoFar' = ((at + 1) - 2) * AzWorkers(n_az) + 0
          BY <1>0, <2>1, <2>2, <2>5, <4>2 DEF UpSoFar
        <5>2. (at + 1) - 2 = at - 1
          BY <1>0
        <5> QED  BY <1>0, <5>1, <5>2
      <4> QED  BY <4>1, <4>2
    <3>5. TestedSoFar' = 0
      BY <1>0, <2>1, <2>2, <2>5, HandedOut DEF TestedSoFar
    <3> QED  BY <1>1, <3>2, <3>3, <3>4, <3>5
  <2>6. CASE at = Startup
    <3>1. Begun = n_az
      BY <1>0, <2>3, <2>6 DEF Iterations
    <3>2. TestedSoFar = NStartup
      BY <1>0, <2>6, <3>1, HandedOut DEF TestedSoFar
    <3>3. TestedSoFar' = NStartup + 0
      BY <1>0, <2>1, <2>2, <2>6 DEF TestedSoFar
    <3>4. UpSoFar' = UpSoFar
      BY <1>0, <2>1, <2>6 DEF UpSoFar
    <3> QED  BY <1>1, <3>2, <3>3, <3>4, BringupAssumption
  <2>7. CASE at = Density
    <3>1. Begun = NDensity - NStartup
      BY <1>0, <2>3, <2>7 DEF Iterations
    <3>2. TestedSoFar = NStartup + (NDensity - NStartup)
      BY <1>0, <2>7, <3>1 DEF TestedSoFar
    <3>3. TestedSoFar' = NDensity
      BY <1>0, <2>1, <2>7 DEF TestedSoFar
    <3>4. UpSoFar' = UpSoFar
      BY <1>0, <2>1, <2>7 DEF UpSoFar
    <3> QED  BY <1>1, <3>2, <3>3, <3>4, BringupAssumption
  <2> QED  BY <1>0, <2>1, <2>4, <2>5, <2>6, <2>7
<1>7. CASE Work
  <2>1. UNCHANGED where /\ (UNCHANGED stats \/ AddFailure)
    BY <1>7, WorkLeaves DEF Work
  <2>2. context'.iteration = context.iteration
    BY <2>1 DEF StageInv, stats, AddFailure
  <2> QED  BY <1>1, <1>2, <2>1, <2>2 DEF Begun, where
<1>8. CASE UNCHANGED <<stats, where>>
  BY <1>1, <1>2, <1>8 DEF Begun, stats, where
<1> QED
  BY <1>3, <1>4, <1>5, <1>6, <1>7, <1>8 DEF Next, Finish, EndOfScript, vars

(* What the bring-up of a worker adds.                                     *)
LEMMA BringUpAdds ==
  ASSUME StageInv, PlaceInv, Iterate, IsFiniteSet(Ports(lports)),
         BringUpBody(Zone(at), context.iteration + 1)
  PROVE  /\ IsFiniteSet(Ports(lports'))
         /\ Cardinality(Ports(lports')) = Cardinality(Ports(lports)) + NPods
         /\ \A v \in AllWorkers : \/ Len(lports'[v]) = Len(lports[v])
                                  \/ Len(lports'[v]) = NPods
<1> DEFINE n   == context.iteration + 1
           w   == FirstWorker(Zone(at)) + n
           new == [k \in 1..NPods |-> FALSE]
           N   == {w} \X (1..NPods)
<1>0. /\ NPods \in Nat /\ lports \in [AllWorkers -> Seq(BOOLEAN)] /\ ZonesInv
      /\ n_az \in Nat \ {0} /\ context.iteration \in Int
  BY PlanFacts, BringupAssumption DEF StageInv
<1>1. /\ Zone(at) \in Zones /\ n \in 0..(AzWorkers(n_az) - 1)
      /\ at = Zone(at) + 2
      /\ lports' = [lports EXCEPT ![w] = lports[w] \o new]
  BY DEF BringUpBody
<1>2. w \in AllWorkers
  BY <1>0, <1>1, WorkersOfZone
<1>3. lports[w] = <<>>
  <2>1. ~BroughtUp(Zone(at), n)
    <3>1. Zone(at) \in Int /\ ~(n <= context.iteration)
      BY <1>0, <1>1 DEF Zones
    <3> QED  BY <3>1 DEF BroughtUp
  <2>2. at <= n_az + 1
    BY <1>0, <1>1 DEF Zones
  <2> QED  BY <1>1, <2>1, <2>2 DEF PlaceInv
<1>4. new \in Seq({FALSE}) /\ Len(new) = NPods
  BY <1>0
<1> HIDE DEF w, new
<1>5. lports' = [lports EXCEPT ![w] = new]
  <2>1. <<>> \o new = new
    BY <1>4, ConcatEmptySeq
  <2> QED  BY <1>1, <1>3, <2>1
<1>6. /\ Len(lports'[w]) = NPods /\ Len(lports[w]) = 0
      /\ \A v \in AllWorkers \ {w} : lports'[v] = lports[v]
      /\ \A v \in AllWorkers : Len(lports[v]) \in Nat
  <2>1. Len(<<>>) = 0
    OBVIOUS
  <2> QED  BY <1>0, <1>2, <1>3, <1>4, <1>5, <2>1
<1>7. Ports(lports') = Ports(lports) \cup N
  <2>1. ASSUME NEW v \in AllWorkers, NEW i \in Nat
        PROVE  <<v, i>> \in Ports(lports') <=>
                 <<v, i>> \in Ports(lports) \/ <<v, i>> \in N
    <3>1. /\ <<v, i>> \in Ports(lports') <=> i >= 1 /\ i <= Len(lports'[v])
          /\ <<v, i>> \in Ports(lports) <=> i >= 1 /\ i <= Len(lports[v])
          /\ <<v, i>> \in N <=> v = w /\ i \in 1..NPods
      BY DEF Ports
    <3>2. CASE v = w
      BY <1>0, <1>6, <3>1, <3>2
    <3>3. CASE v # w
      BY <1>6, <3>1, <3>3
    <3> QED  BY <3>2, <3>3
  <2>2. /\ Ports(lports') \subseteq AllWorkers \X Nat
        /\ Ports(lports) \subseteq AllWorkers \X Nat
        /\ N \subseteq AllWorkers \X Nat
    BY <1>2 DEF Ports
  <2> HIDE DEF N
  <2> QED  BY <2>1, <2>2
<1>8. Ports(lports) \cap N = {}
  BY <1>6 DEF Ports
<1>9. IsFiniteSet(N) /\ Cardinality(N) = NPods
  <2>1. IsFiniteSet({w}) /\ Cardinality({w}) = 1
    BY FS_Singleton
  <2>2. IsFiniteSet(1..NPods) /\ Cardinality(1..NPods) = NPods
    BY <1>0, FS_Interval
  <2> DEFINE W == {w}  P == 1..NPods
  <2>3. /\ IsFiniteSet(W \X P)
        /\ Cardinality(W \X P) = Cardinality(W) * Cardinality(P)
    <3> HIDE DEF W, P
    <3>1. IsFiniteSet(W) /\ IsFiniteSet(P)
      BY <2>1, <2>2 DEF W, P
    <3> QED  BY ONLY <3>1, FS_Product
  <2>4. IsFiniteSet(N) /\ Cardinality(N) = 1 * NPods
    BY <2>1, <2>2, <2>3
  <2>5. 1 * NPods = NPods
    BY <1>0
  <2> QED  BY <2>4, <2>5
<1>10. /\ IsFiniteSet(Ports(lports'))
       /\ Cardinality(Ports(lports')) = Cardinality(Ports(lports)) + NPods
  <2> HIDE DEF N
  <2>1. /\ IsFiniteSet(Ports(lports) \cup N)
        /\ Cardinality(Ports(lports) \cup N)
             = Cardinality(Ports(lports)) + NPods
                 - Cardinality(Ports(lports) \cap N)
    BY <1>9, FS_Union
  <2>2. Cardinality(Ports(lports) \cap N) = 0
    BY <1>8, FS_EmptySet
  <2>3. Cardinality(Ports(lports)) \in Nat
    BY FS_CardinalityType
  <2> QED  BY <1>0, <1>7, <2>1, <2>2, <2>3
<1> QED  BY <1>6, <1>10

LEMMA CountStart == Init => CountInv
<1> SUFFICES ASSUME Init PROVE CountInv
  OBVIOUS
<1>1. /\ at = 1 /\ lports = [w \in AllWorkers |-> <<>>] /\ NPods \in Nat
      /\ n_az \in Nat
  BY BringupAssumption, PlanAssumption DEF Init
<1>2. Len(<<>>) = 0
  OBVIOUS
<1>3. Ports(lports) = {}
  BY <1>1, <1>2 DEF Ports
<1>4. UpSoFar = 0 /\ TestedSoFar = 0
  BY <1>1 DEF UpSoFar, TestedSoFar, Startup
<1>5. \A w \in AllWorkers : Len(lports[w]) <= NPods + TestedSoFar
  BY <1>1, <1>2, <1>4
<1>6. IsFiniteSet({}) /\ Cardinality({}) = 0
  BY FS_EmptySet
<1>7. 0 = NPods * 0 + 0
  BY <1>1
<1> QED  BY <1>3, <1>4, <1>5, <1>6, <1>7 DEF CountInv

(* An iteration adds what the tester asks for in it.                       *)
LEMMA IterationAdds ==
  ASSUME Feasible, StageInv, PlaceInv, LoopInv, CountInv, Iterate
  PROVE  CountInv'
<1> DEFINE i == context.iteration + 1
           A == AzWorkers(n_az)
<1>0. /\ n_az' = n_az /\ n_az \in Nat \ {0} /\ A \in Nat \ {0}
      /\ A' = A /\ ZonesInv /\ NPods \in Nat /\ NStartup \in Nat
      /\ Startup' = Startup /\ Density' = Density
      /\ Startup = n_az + 2 /\ Density = n_az + 3
      /\ at \in 1..(n_az + 4) /\ at' = at
      /\ \A j : Handed(j)' = Handed(j)
      /\ lports \in [AllWorkers -> Seq(BOOLEAN)]
  BY PlanFacts, BringupAssumption
     DEF StageInv, Startup, Density, Handed, Iterate
<1>1. /\ i \in Nat
      /\ \/ StartupBody(i, Distribute(NStartup, n_az, i))
         \/ DensityBody(i % n_az)
         \/ BringUpBody(Zone(at), i)
  BY BodyCases
<1>2. Begun = i /\ Begun' = i + 1
  <2>1. /\ stage = "advance" /\ stage' = "top"
        /\ context' = [context EXCEPT !.iteration = context.iteration + 1]
    BY DEF Iterate, NextIteration
  <2>2. context'.iteration = i
    BY <2>1 DEF StageInv
  <2> QED  BY <2>1, <2>2 DEF Begun
<1> HIDE DEF i, A
<1>3. ASSUME NEW up, NEW tested, UpSoFar = up, TestedSoFar = tested
      PROVE  /\ IsFiniteSet(Ports(lports))
             /\ Cardinality(Ports(lports)) = NPods * up + tested
             /\ \A w \in AllWorkers : Len(lports[w]) <= NPods + tested
             /\ \A w \in AllWorkers : Len(lports[w]) \in Nat
  BY <1>0, <1>3 DEF CountInv
(* The tests add some pods to some workers of a zone.                      *)
<1>4. ASSUME NEW az \in Zones, NEW n \in Nat, NEW passive \in BOOLEAN,
             AddPorts(az, n, passive), NEW tested \in Nat,
             TestedSoFar = tested, TestedSoFar' = tested + n,
             UpSoFar = n_az * A, UpSoFar' = n_az * A
      PROVE  CountInv'
  <2> DEFINE total == NPods * (n_az * A)
  <2>0. total \in Nat
    BY <1>0
  <2>1. \A w \in AllWorkers :
          Len(lports'[w]) = Len(lports[w]) + Share(az, n, w)
    <3>1. /\ lports' \in [AllWorkers -> Seq(BOOLEAN)]
          /\ selected' \in [Zones -> 0..(AzWorkers(n_az) - 1)]
          /\ \A w \in AllWorkers :
               /\ Len(lports'[w]) = Len(lports[w]) + Share(az, n, w)
               /\ \A j \in 1..Len(lports[w]) : lports'[w][j] = lports[w][j]
               /\ \A j \in (Len(lports[w]) + 1)..Len(lports'[w]) :
                    lports'[w][j] = passive
      BY <1>4, PortsGrow, Zenon
    <3> QED  BY <3>1
  <2>2. Ports(lports') = PortsWith(az, n)
    BY <2>1 DEF Ports, PortsWith
  <2>3. /\ IsFiniteSet(PortsWith(az, n))
        /\ Cardinality(PortsWith(az, n)) = Cardinality(Ports(lports)) + n
    BY <1>3, <1>4, SharesAddUp
  <2>4. /\ Cardinality(Ports(lports)) = total + tested
        /\ \A w \in AllWorkers :
             Len(lports[w]) <= NPods + tested /\ Len(lports[w]) \in Nat
    BY <1>3, <1>4
  <2> HIDE DEF total
  <2>5. Cardinality(Ports(lports')) = total + (tested + n)
    BY <1>4, <2>0, <2>2, <2>3, <2>4
  <2>6. ASSUME NEW w \in AllWorkers
        PROVE  Len(lports'[w]) <= NPods + (tested + n)
    <3>1. Share(az, n, w) \in Nat /\ Share(az, n, w) <= n
      BY SharesAreFinite, SharesByOne
    <3> QED  BY <1>0, <1>4, <2>1, <2>4, <3>1
  <2>7. Ports(lports)' = Ports(lports')
    BY DEF Ports, AllWorkers
  <2> QED
    BY <1>4, <2>2, <2>3, <2>5, <2>6, <2>7 DEF CountInv, AllWorkers, total
<1>5. CASE StartupBody(i, Distribute(NStartup, n_az, i))
  <2> DEFINE n == Distribute(NStartup, n_az, i)
  <2>1. /\ i \in Zones /\ at = Startup /\ AddPorts(i, n, TRUE)
    BY <1>5 DEF StartupBody
  <2>2. /\ Handed(i) \in Nat /\ n \in Nat /\ Handed(i + 1) = Handed(i) + n
    BY <1>0, <2>1, HandedOut
  <2>3. TestedSoFar = Handed(i) /\ TestedSoFar' = Handed(i + 1)
    BY <1>0, <1>2, <2>1 DEF TestedSoFar
  <2>4. UpSoFar = n_az * A /\ UpSoFar' = n_az * A
    BY <1>0, <2>1 DEF UpSoFar, A
  <2> HIDE DEF n
  <2> QED  BY <1>4, <2>1, <2>2, <2>3, <2>4
<1>6. CASE DensityBody(i % n_az)
  <2>1. /\ i % n_az \in Zones /\ at = Density /\ AddPorts(i % n_az, 1, FALSE)
    BY <1>6 DEF DensityBody
  <2>2. TestedSoFar = NStartup + i /\ TestedSoFar' = (NStartup + i) + 1
    BY <1>0, <1>1, <1>2, <2>1 DEF TestedSoFar
  <2>3. UpSoFar = n_az * A /\ UpSoFar' = n_az * A
    BY <1>0, <2>1 DEF UpSoFar, A
  <2>4. NStartup + i \in Nat
    BY <1>0, <1>1
  <2> QED  BY <1>4, <2>1, <2>2, <2>3, <2>4
<1>7. CASE BringUpBody(Zone(at), i)
  <2>1. at \in 2..(n_az + 1)
    BY <1>0, <1>7 DEF BringUpBody, Zone, Zones
  <2> DEFINE up == (at - 2) * A + i
  <2>2. up \in Nat
    <3>1. (at - 2) * A \in Nat
      BY <1>0, <2>1
    <3> QED  BY <1>1, <3>1
  <2>3. /\ UpSoFar = up /\ UpSoFar' = (at - 2) * A + (i + 1)
        /\ TestedSoFar = 0 /\ TestedSoFar' = 0
    BY <1>0, <1>2, <2>1 DEF UpSoFar, TestedSoFar, A
  <2>4. UpSoFar' = up + 1
    <3> DEFINE b == (at - 2) * A
    <3>1. b \in Int
      BY <1>0
    <3> HIDE DEF b
    <3> QED  BY <1>1, <2>3, <3>1 DEF b
  <2> HIDE DEF up
  <2>5. /\ IsFiniteSet(Ports(lports))
        /\ Cardinality(Ports(lports)) = NPods * up + 0
        /\ \A w \in AllWorkers : Len(lports[w]) <= NPods + 0
        /\ \A w \in AllWorkers : Len(lports[w]) \in Nat
    BY <1>3, <2>3
  <2>6. /\ IsFiniteSet(Ports(lports'))
        /\ Cardinality(Ports(lports')) = Cardinality(Ports(lports)) + NPods
        /\ \A v \in AllWorkers : \/ Len(lports'[v]) = Len(lports[v])
                                 \/ Len(lports'[v]) = NPods
    BY <1>7, <2>5, BringUpAdds DEF i
  <2>7. NPods * (up + 1) = NPods * up + NPods /\ NPods * up \in Nat
    BY <1>0, <2>2
  <2>8. Cardinality(Ports(lports')) = NPods * (up + 1) + 0
    BY <1>0, <2>5, <2>6, <2>7
  <2>9. \A w \in AllWorkers : Len(lports'[w]) <= NPods + 0
    BY <1>0, <2>5, <2>6
  <2>10. Ports(lports)' = Ports(lports')
    BY DEF Ports, AllWorkers
  <2> QED
    BY <2>3, <2>4, <2>6, <2>8, <2>9, <2>10 DEF CountInv, AllWorkers
<1> QED  BY <1>1, <1>5, <1>6, <1>7

LEMMA CountStep ==
  Feasible /\ StageInv /\ PlaceInv /\ LoopInv /\ CountInv /\ [Next]_vars
    => CountInv'
<1> SUFFICES ASSUME Feasible, StageInv, PlaceInv, LoopInv, CountInv,
                    [Next]_vars
             PROVE  CountInv'
  OBVIOUS
<1>1. CASE Iterate
  BY <1>1, IterationAdds
<1>2. CASE ~Iterate
  <2>1. UpSoFar' = UpSoFar /\ TestedSoFar' = TestedSoFar /\ lports' = lports
    BY <1>2, ProgressKeeps
  <2>2. Ports(lports)' = Ports(lports)
    BY <2>1 DEF Ports, AllWorkers
  <2> QED  BY <2>1, <2>2 DEF CountInv, AllWorkers
<1> QED  BY <1>1, <1>2

LEMMA AllPodsAreThere ==
  ASSUME ZonesInv, ScriptInv, CountInv, StageInv
  PROVE  PodsAsConfigured
<1> SUFFICES ASSUME pc = "done"
             PROVE  Cardinality(Lports)
                      = NDensity + NPods * n_az * AzWorkers(n_az)
  BY DEF PodsAsConfigured
<1>0. /\ n_az \in Nat \ {0} /\ AzWorkers(n_az) \in Nat /\ at = n_az + 4
      /\ NPods \in Nat /\ NDensity \in Nat
      /\ \A w \in AllWorkers : Len(lports[w]) \in Nat
  BY PlanFacts, BringupAssumption DEF ScriptInv, Density, StageInv
<1>1. /\ UpSoFar = n_az * AzWorkers(n_az) /\ TestedSoFar = NDensity
  BY <1>0 DEF UpSoFar, TestedSoFar, Startup, Density
<1>2. /\ Cardinality(Ports(lports))
           = NPods * (n_az * AzWorkers(n_az)) + NDensity
      /\ \A w \in AllWorkers : Len(lports[w]) <= NPods + NDensity
  BY <1>1 DEF CountInv
<1>3. Lports = Ports(lports)
  <2>1. ASSUME NEW w \in AllWorkers, NEW i
        PROVE  (i \in 1..(NPods + NDensity) /\ i <= Len(lports[w]))
                 <=> (i \in Nat /\ i >= 1 /\ i <= Len(lports[w]))
    BY <1>0, <1>2
  <2>2. Lports \subseteq Ports(lports)
    BY <2>1 DEF Lports, Ports
  <2>3. Ports(lports) \subseteq Lports
    BY <2>1 DEF Lports, Ports
  <2> QED  BY <2>2, <2>3
<1>4. NPods * (n_az * AzWorkers(n_az)) = NPods * n_az * AzWorkers(n_az)
  BY <1>0
<1>5. NPods * (n_az * AzWorkers(n_az)) \in Nat
  BY <1>0
<1> QED  BY <1>0, <1>2, <1>3, <1>4, <1>5

(***************************************************************************)
(* For any number of zones, workers and pods, and whatever commands fail:  *)
(* if the configuration can be followed it is.  External commands are      *)
(* executed, after the verdict on their iteration and before the next      *)
(* one; a run that gets to its end has made as many pods as it was to; and *)
(* every state is of its type.                                             *)
(***************************************************************************)
THEOREM ConfigurationIsFollowed ==
  Feasible => (Spec => []RunIsAsConfigured)
<1> DEFINE RunInv == /\ StageInv /\ PlaceInv /\ VerdictInv
                     /\ ScriptInv /\ LoopInv /\ ExtInv /\ CountInv
<1> SUFFICES ASSUME Feasible PROVE Spec => []RunIsAsConfigured
  OBVIOUS
<1>1. Init => RunInv
  BY StageInit, PlaceInit, VerdictInit, ScriptStart, LoopStart, ExtStart,
     CountStart
<1>2. RunInv /\ [Next]_vars => RunInv'
  <2> SUFFICES ASSUME RunInv, [Next]_vars PROVE RunInv'
    OBVIOUS
  <2>1. StageInv' /\ PlaceInv'
    BY StageStep, PlaceStep
  <2>2. VerdictInv'
    BY VerdictStep DEF StageInv
  <2>3. ScriptInv' /\ LoopInv'
    BY ScriptStep, LoopStep
  <2>4. ExtInv' /\ CountInv'
    BY ExtStep, CountStep
  <2> QED  BY <2>1, <2>2, <2>3, <2>4
<1>3. RunInv => RunIsAsConfigured
  BY RunIsTyped, ExternalAreInOrder, AllPodsAreThere
     DEF RunIsAsConfigured, StageInv
<1> QED  BY <1>1, <1>2, <1>3, PTL DEF Spec

=============================================================================
