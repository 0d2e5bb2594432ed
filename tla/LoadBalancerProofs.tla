------------------------- MODULE LoadBalancerProofs -------------------------
(***************************************************************************)
(* Proofs about LoadBalancer for any protocols, workers and numbers of     *)
(* VIPs, and for any size of the batches.                                  *)
(***************************************************************************)
EXTENDS LoadBalancer, FiniteSetTheorems, TLAPS

-----------------------------------------------------------------------------
(***************************************************************************)
(* The inductive invariant.  First, where the tester is and what it has    *)
(* still to do: a range of VIPs that continues those the object has, or    *)
(* starts over.                                                            *)
(***************************************************************************)
PcTypes ==
  [at : Locations, todo : Updates, upd : Updates, left : SUBSET Protocols,
   next : {"none", "static"} \cup Workers]

Writing == pc.at \in {"batch", "set"}

PcAgrees ==
  /\ pc \in PcTypes
  /\ pc.at # "gone" => lbs = Protocols
  /\ pc.at \notin {"destroy", "gone"} => DOMAIN rows = Protocols
  /\ Writing =>
       \E lo \in 1..(MaxVips + 1), hi \in 0..MaxVips :
         /\ DOMAIN pc.todo = lo..hi
         /\ lo = 1 \/ lo - 1 \in DOMAIN vips
  /\ pc.at = "set" =>
       /\ DOMAIN pc.upd \subseteq DOMAIN vips
       /\ \A v \in DOMAIN pc.upd : pc.upd[v] = vips[v]
       /\ pc.next \in Workers => DOMAIN pc.todo = {}
  /\ pc.at = "clear" => vips = Empty
  /\ pc.at \in Kinds => pc.next \in Workers
  /\ pc.at = "batch" => pc.next \notin Workers

(* A row has what the object has, or will be written, or its failure has   *)
(* been logged.                                                            *)
Unwritten(pr, v) ==
  pr \in pc.left /\ (pc.at = "clear" \/ (pc.at = "set" /\ v \in DOMAIN pc.upd))

RowsKnown ==
  pc.at \notin {"destroy", "gone"} =>
    \A pr \in Protocols, v \in Hosts :
      <<pr, v>> \in doubtful \/ Unwritten(pr, v) \/ Agrees(pr, v)

(* A worker's datapaths have all rows or none, but for the one at hand.    *)
FullyAttached(w) == \A pr \in Protocols, k \in Kinds : <<pr, w, k>> \in attached
NotAttached(w)   == \A pr \in Protocols, k \in Kinds : <<pr, w, k>> \notin attached

AttachKnown ==
  pc.at \notin {"destroy", "gone", "dead"} =>
    \A w \in Workers :
      IF pc.at \in Kinds /\ pc.next = w
      THEN /\ \A pr \in Protocols \ pc.left : <<pr, w, pc.at>> \in attached
           /\ pc.at = "router" =>
                \A pr \in Protocols : <<pr, w, "switch">> \in attached
      ELSE \/ FullyAttached(w)
           \/ /\ NotAttached(w)
              /\ w \in served => pc.at = "set" /\ pc.next = w

(* A static VIP has its backend, and no worker's before the first worker   *)
(* is served; or it is still to be added to what has no backend.           *)
HasStatic(v) == v \in DOMAIN vips /\ (served = {} => vips[v] = {StaticHost})

StaticKnown ==
  /\ Writing /\ pc.next = "static" =>
       /\ \A v \in DOMAIN vips : vips[v] = {}
       /\ \A v \in DOMAIN pc.todo : pc.todo[v] = {}
  /\ Writing /\ pc.next # "static" =>
       \A v \in 1..NStatic :
         IF v \in DOMAIN pc.todo
         THEN /\ pc.todo[v] = {StaticHost}
              /\ v \in DOMAIN vips => vips[v] = {}
         ELSE HasStatic(v)
  /\ pc.at \in {"idle", "switch", "router"} => \A v \in 1..NStatic : HasStatic(v)

(* A row that has been visited is gone, or its failure has been logged.    *)
DestroyKnown ==
  pc.at \in {"destroy", "gone"} =>
    \A pr \in DOMAIN rows :
      (pc.at = "destroy" /\ pr \in pc.left) \/ {pr} \X Hosts \subseteq doubtful

Sound == RowsKnown /\ AttachKnown /\ StaticKnown /\ DestroyKnown
IInv  == PcAgrees /\ Sound

-----------------------------------------------------------------------------
(***************************************************************************)
(* Maps from VIPs to backends, and where the tester is.                    *)
(***************************************************************************)
LEMMA UpdateType ==
  ASSUME NEW f
  PROVE  /\ f \in Updates => /\ DOMAIN f \subseteq Hosts
                             /\ f \in [DOMAIN f -> SUBSET Backends]
                             /\ \A v \in DOMAIN f : f[v] \subseteq Backends
         /\ \A D \in SUBSET Hosts : f \in [D -> SUBSET Backends] => f \in Updates
  BY DEF Updates

LEMMA VipMapType ==
  ASSUME NEW f
  PROVE  /\ f \in VipMaps <=> \E n \in 0..MaxVips : f \in [1..n -> SUBSET Backends]
         /\ f \in VipMaps => f \in Updates
<1>1. f \in VipMaps <=> \E n \in 0..MaxVips : f \in [1..n -> SUBSET Backends]
  BY DEF VipMaps
<1>2. \A n \in 0..MaxVips : 1..n \subseteq Hosts
  BY NumbersAssumption DEF Hosts
<1>3. QED
  BY <1>1, <1>2, UpdateType

LEMMA RestrictType ==
  ASSUME NEW f \in Updates, NEW S, S \subseteq DOMAIN f
  PROVE  /\ Restrict(f, S) \in Updates /\ DOMAIN Restrict(f, S) = S
         /\ \A v \in S : Restrict(f, S)[v] = f[v]
<1>1. /\ DOMAIN Restrict(f, S) = S /\ \A v \in S : Restrict(f, S)[v] = f[v]
      /\ Restrict(f, S) = [v \in S |-> f[v]]
  BY DEF Restrict
<1>2. S \in SUBSET Hosts /\ \A v \in S : f[v] \in SUBSET Backends
  BY UpdateType
<1>3. Restrict(f, S) \in [S -> SUBSET Backends]
  BY <1>1, <1>2
<1>4. QED
  BY <1>1, <1>2, <1>3, UpdateType

LEMMA Givens ==
  /\ Empty \in VipMaps /\ Empty \in Updates /\ DOMAIN Empty = {}
  /\ Config \in Updates /\ DOMAIN Config = 1..NConfig
  /\ \A v \in 1..NConfig : Config[v] = {}
  /\ Static \in Updates /\ DOMAIN Static = 1..NStatic
  /\ \A v \in 1..NStatic : Static[v] = {StaticHost}
<1>1. 1..0 = {} /\ 0 \in 0..MaxVips
  BY NumbersAssumption
<1>2. Empty \in [1..0 -> SUBSET Backends] /\ DOMAIN Empty = {}
  BY <1>1 DEF Empty
<1>3. 1..NConfig \in SUBSET Hosts /\ 1..NStatic \in SUBSET Hosts
  BY NumbersAssumption DEF Hosts
<1>4. /\ Config \in [1..NConfig -> SUBSET Backends] /\ DOMAIN Config = 1..NConfig
      /\ \A v \in 1..NConfig : Config[v] = {}
  BY DEF Config
<1>5. /\ Static \in [1..NStatic -> SUBSET Backends] /\ DOMAIN Static = 1..NStatic
      /\ \A v \in 1..NStatic : Static[v] = {StaticHost}
  BY DEF Static, Backends
<1>6. QED
  BY <1>1, <1>2, <1>3, <1>4, <1>5, VipMapType, UpdateType

LEMMA AtFields ==
  ASSUME NEW loc, NEW todo, NEW upd, NEW left, NEW next
  PROVE  /\ At(loc, todo, upd, left, next).at = loc
         /\ At(loc, todo, upd, left, next).todo = todo
         /\ At(loc, todo, upd, left, next).upd = upd
         /\ At(loc, todo, upd, left, next).left = left
         /\ At(loc, todo, upd, left, next).next = next
         /\ (/\ loc \in Locations /\ todo \in Updates /\ upd \in Updates
             /\ left \subseteq Protocols /\ next \in {"none", "static"} \cup Workers)
              => At(loc, todo, upd, left, next) \in PcTypes
  BY DEF At, PcTypes

(* The first batch of a range is a range that begins where it does.        *)
LEMMA FirstOfRange ==
  ASSUME NEW lo \in Nat, NEW hi \in Nat, lo <= hi
  PROVE  \E m \in lo..hi : FirstOf(lo..hi) = lo..m
<1> DEFINE m == IF lo + MaxBatch - 1 < hi THEN lo + MaxBatch - 1 ELSE hi
<1>1. MaxBatch \in Nat /\ MaxBatch >= 1
  BY NumbersAssumption
<1>2. m \in lo..hi
  BY <1>1
<1>3. ASSUME NEW v \in lo..hi
      PROVE  Cardinality({u \in lo..hi : u < v}) = v - lo
  <2>1. {u \in lo..hi : u < v} = lo..(v - 1)
    OBVIOUS
  <2>2. Cardinality(lo..(v - 1)) = IF lo <= v - 1 THEN (v - 1) - lo + 1 ELSE 0
    BY FS_Interval
  <2>3. (IF lo <= v - 1 THEN (v - 1) - lo + 1 ELSE 0) = v - lo
    OBVIOUS
  <2>4. QED
    BY <2>1, <2>2, <2>3, Zenon
<1>4. \A v \in lo..hi : v - lo < MaxBatch <=> v <= m
  BY <1>1
<1>5. FirstOf(lo..hi) = {v \in lo..hi : v <= m}
  BY <1>3, <1>4 DEF FirstOf
<1>6. {v \in lo..hi : v <= m} = lo..m
  BY <1>2
<1>7. QED
  BY <1>2, <1>5, <1>6

(* The VIPs of the object stay a range from the first host on.             *)
LEMMA ExtendedType ==
  ASSUME vips \in VipMaps, NEW map \in Updates, NEW lo \in Nat, NEW m \in 1..MaxVips,
         1 <= lo, lo <= m, DOMAIN map = lo..m, lo = 1 \/ lo - 1 \in DOMAIN vips
  PROVE  /\ Extended(map) \in VipMaps
         /\ DOMAIN Extended(map) = DOMAIN vips \cup DOMAIN map
         /\ \A v \in DOMAIN vips \ DOMAIN map : Extended(map)[v] = vips[v]
         /\ \A v \in DOMAIN map :
              Extended(map)[v]
                = (IF v \in DOMAIN vips THEN vips[v] ELSE {}) \cup map[v]
         /\ m \in DOMAIN Extended(map)
<1> DEFINE e == Extended(map)
<1>1. PICK n \in 0..MaxVips : vips \in [1..n -> SUBSET Backends]
  BY VipMapType
<1>2. \A v \in DOMAIN map : map[v] \in SUBSET Backends
  BY UpdateType
<1>3. /\ DOMAIN e = DOMAIN vips \cup DOMAIN map
      /\ \A v \in DOMAIN e :
           e[v] = (IF v \in DOMAIN vips THEN vips[v] ELSE {})
                    \cup (IF v \in DOMAIN map THEN map[v] ELSE {})
      /\ e = [v \in DOMAIN e |-> e[v]]
  BY DEF Extended
<1> HIDE DEF e
<1>4. DOMAIN vips = 1..n /\ \A v \in DOMAIN vips : vips[v] \in SUBSET Backends
  BY <1>1
<1>5. \A v \in DOMAIN e : e[v] \in SUBSET Backends
  BY <1>2, <1>3, <1>4
<1>6. \E k \in 0..MaxVips : 1..n \cup lo..m = 1..k
  <2>1. CASE n < m
    <3>1. 1..n \cup lo..m = 1..m
      BY <1>4, <2>1
    <3>2. QED
      BY <3>1
  <2>2. CASE ~(n < m)
    <3>1. 1..n \cup lo..m = 1..n
      BY <2>2
    <3>2. QED
      BY <3>1
  <2>3. QED
    BY <2>1, <2>2
<1>7. PICK k \in 0..MaxVips : DOMAIN e = 1..k
  BY <1>3, <1>4, <1>6
<1>8. e \in [1..k -> SUBSET Backends]
  BY <1>3, <1>5, <1>7
<1>9. e \in VipMaps
  BY <1>8, VipMapType
<1>10. ASSUME NEW v \in DOMAIN vips \ DOMAIN map
       PROVE  e[v] = vips[v]
  <2>1. e[v] = vips[v] \cup {}
    BY <1>3
  <2>2. QED
    BY <2>1
<1>11. ASSUME NEW v \in DOMAIN map
       PROVE  e[v] = (IF v \in DOMAIN vips THEN vips[v] ELSE {}) \cup map[v]
  BY <1>3
<1>12. m \in DOMAIN e
  BY <1>3
<1>13. QED
  BY <1>3, <1>9, <1>10, <1>11, <1>12 DEF e

LEMMA MergedType ==
  ASSUME NEW row \in Updates, NEW map \in Updates
  PROVE  /\ Merged(row, map) \in Updates
         /\ DOMAIN Merged(row, map) = DOMAIN row \cup DOMAIN map
         /\ \A v \in DOMAIN map : Merged(row, map)[v] = map[v]
         /\ \A v \in DOMAIN row \ DOMAIN map : Merged(row, map)[v] = row[v]
<1> DEFINE e == Merged(row, map)
<1>1. /\ DOMAIN e = DOMAIN row \cup DOMAIN map
      /\ \A v \in DOMAIN e : e[v] = IF v \in DOMAIN map THEN map[v] ELSE row[v]
      /\ e = [v \in DOMAIN e |-> e[v]]
  BY DEF Merged
<1> HIDE DEF e
<1>2. /\ DOMAIN e \in SUBSET Hosts
      /\ \A v \in DOMAIN e : e[v] \in SUBSET Backends
  BY <1>1, UpdateType
<1>3. e \in [DOMAIN e -> SUBSET Backends]
  BY <1>1, <1>2
<1>4. e \in Updates
  BY <1>2, <1>3, UpdateType
<1>5. QED
  BY <1>1, <1>4 DEF e

(* One write leaves the other rows alone, and what it does not name.       *)
LEMMA WritesEffect ==
  ASSUME TypeOK, NEW pr \in DOMAIN rows, NEW row \in Updates,
         NEW named \in SUBSET Hosts, Writes(pr, row, named)
  PROVE  /\ DOMAIN rows' = DOMAIN rows /\ rows' \in [DOMAIN rows' -> Updates]
         /\ \A q \in DOMAIN rows \ {pr} : rows'[q] = rows[q]
         /\ rows'[pr] = rows[pr] \/ rows'[pr] = row
         /\ rows'[pr] = row \/ \A v \in named : <<pr, v>> \in doubtful'
         /\ \A q \in Protocols, v \in Hosts :
              (q # pr \/ v \notin named) /\ <<q, v>> \in doubtful
                => <<q, v>> \in doubtful'
         /\ doubtful' \subseteq Protocols \X Hosts
         /\ failures' \in 0..MaxFailures
<1>1. /\ rows' \in {rows, [rows EXCEPT ![pr] = row]}
      /\ rows \in [DOMAIN rows -> Updates] /\ pr \in Protocols
      /\ doubtful \subseteq Protocols \X Hosts /\ failures \in 0..MaxFailures
      /\ MaxFailures \in Nat
  BY NumbersAssumption DEF Writes, TypeOK
<1>2. /\ DOMAIN rows' = DOMAIN rows /\ rows' \in [DOMAIN rows' -> Updates]
      /\ \A q \in DOMAIN rows \ {pr} : rows'[q] = rows[q]
      /\ rows'[pr] = rows[pr] \/ rows'[pr] = row
  BY <1>1
<1>3. /\ doubtful' \in {doubtful \ ({pr} \X named), doubtful \cup ({pr} \X named)}
      /\ failures' \in 0..MaxFailures
  BY <1>1 DEF Writes
<1>4. rows'[pr] = row \/ \A v \in named : <<pr, v>> \in doubtful'
  BY <1>1 DEF Writes
<1>5. \A q \in Protocols, v \in Hosts :
        (q # pr \/ v \notin named) /\ <<q, v>> \in doubtful
          => <<q, v>> \in doubtful'
  BY <1>3
<1>6. doubtful' \subseteq Protocols \X Hosts
  BY <1>1, <1>3
<1>7. QED
  BY <1>2, <1>3, <1>4, <1>5, <1>6

-----------------------------------------------------------------------------
(***************************************************************************)
(* The steps, one by one.                                                  *)
(***************************************************************************)
LEMMA InitSound == Init => TypeOK /\ IInv
<1> SUFFICES ASSUME Init
             PROVE  TypeOK /\ IInv
  OBVIOUS
<1>1. /\ vips = Empty /\ rows = [pr \in Protocols |-> Empty] /\ lbs = Protocols
      /\ attached = {} /\ served = {} /\ doubtful = {} /\ failures = 0
      /\ pc.at = "batch" /\ pc.todo = Config /\ pc.next = "static"
      /\ pc \in PcTypes
  BY AtFields, Givens DEF Init, AddVips, Locations
<1>2. TypeOK
  BY <1>1, Givens, NumbersAssumption DEF TypeOK, PcTypes
<1>3. PcAgrees
  <2>1. /\ 1 \in 1..(MaxVips + 1) /\ NConfig \in 0..MaxVips
    BY NumbersAssumption
  <2>2. \E lo \in 1..(MaxVips + 1), hi \in 0..MaxVips :
           /\ DOMAIN pc.todo = lo..hi
           /\ lo = 1 \/ lo - 1 \in DOMAIN vips
    BY <1>1, <2>1, Givens
  <2>3. "static" \notin Workers
    BY NamesAssumption
  <2>4. QED
    BY <1>1, <2>2, <2>3 DEF PcAgrees, Kinds
<1>4. RowsKnown
  BY <1>1, Givens DEF RowsKnown, Agrees
<1>5. AttachKnown
  BY <1>1 DEF AttachKnown, Kinds, NotAttached
<1>6. StaticKnown
  BY <1>1, Givens DEF StaticKnown
<1>7. DestroyKnown
  BY <1>1 DEF DestroyKnown
<1>8. QED
  BY <1>2, <1>3, <1>4, <1>5, <1>6, <1>7 DEF IInv, Sound

LEMMA BatchSound == TypeOK /\ IInv /\ Batch => TypeOK' /\ IInv'
<1> SUFFICES ASSUME TypeOK, IInv, Batch
             PROVE  TypeOK' /\ IInv'
  OBVIOUS
<1> DEFINE batch == FirstOf(DOMAIN pc.todo)
<1>1. /\ pc.at = "batch" /\ DOMAIN pc.todo # {} /\ pc \in PcTypes
      /\ UNCHANGED <<rows, attached, lbs, served, doubtful, failures>>
      /\ lbs = Protocols /\ DOMAIN rows = Protocols /\ pc.next \notin Workers
      /\ pc.todo \in Updates /\ vips \in VipMaps
  BY DEF Batch, database, IInv, PcAgrees, TypeOK
<1>2. PICK lo \in 1..(MaxVips + 1), hi \in 0..MaxVips :
         /\ DOMAIN pc.todo = lo..hi
         /\ lo = 1 \/ lo - 1 \in DOMAIN vips
  BY <1>1 DEF IInv, PcAgrees, Writing
<1>3. lo \in Nat /\ hi \in Nat /\ 1 <= lo /\ lo <= hi
  BY <1>1, <1>2, NumbersAssumption
<1>4. PICK m \in lo..hi : batch = lo..m
  BY <1>2, <1>3, FirstOfRange
<1>5. /\ batch \subseteq DOMAIN pc.todo /\ m \in 1..MaxVips
      /\ DOMAIN pc.todo \ batch = (m + 1)..hi
  BY <1>2, <1>3, <1>4, NumbersAssumption
<1> DEFINE map  == Restrict(pc.todo, batch)
           rest == Restrict(pc.todo, DOMAIN pc.todo \ batch)
<1>6. /\ vips' = Extended(map)
      /\ pc' = [pc EXCEPT !.at = "set", !.todo = rest,
                          !.upd = Restrict(vips', batch), !.left = lbs]
  BY DEF Batch
<1> HIDE DEF batch
<1>7. /\ map \in Updates /\ DOMAIN map = batch
      /\ \A v \in batch : map[v] = pc.todo[v]
      /\ rest \in Updates /\ DOMAIN rest = DOMAIN pc.todo \ batch
      /\ \A v \in DOMAIN rest : rest[v] = pc.todo[v]
  BY <1>1, <1>5, RestrictType
<1> HIDE DEF map, rest
<1>8. /\ vips' \in VipMaps /\ DOMAIN vips' = DOMAIN vips \cup batch
      /\ \A v \in DOMAIN vips \ batch : vips'[v] = vips[v]
      /\ \A v \in batch :
           vips'[v] = (IF v \in DOMAIN vips THEN vips[v] ELSE {}) \cup pc.todo[v]
      /\ m \in DOMAIN vips'
  <2>1. DOMAIN map = lo..m /\ lo <= m
    BY <1>3, <1>4, <1>7
  <2>2. /\ Extended(map) \in VipMaps
        /\ DOMAIN Extended(map) = DOMAIN vips \cup DOMAIN map
        /\ \A v \in DOMAIN vips \ DOMAIN map : Extended(map)[v] = vips[v]
        /\ \A v \in DOMAIN map :
             Extended(map)[v]
               = (IF v \in DOMAIN vips THEN vips[v] ELSE {}) \cup map[v]
        /\ m \in DOMAIN Extended(map)
    BY <1>1, <1>2, <1>3, <1>5, <1>7, <2>1, ExtendedType
  <2>3. \A v \in batch :
          vips'[v] = (IF v \in DOMAIN vips THEN vips[v] ELSE {}) \cup pc.todo[v]
    BY <1>6, <1>7, <2>2
  <2>4. QED
    BY <1>6, <1>7, <2>2, <2>3
<1>9. /\ Restrict(vips', batch) \in Updates /\ DOMAIN Restrict(vips', batch) = batch
      /\ \A v \in batch : Restrict(vips', batch)[v] = vips'[v]
  BY <1>8, VipMapType, RestrictType
<1>10. /\ pc'.at = "set" /\ pc'.todo = rest /\ pc'.left = Protocols
       /\ pc'.next = pc.next /\ pc'.upd = Restrict(vips', batch)
       /\ pc' \in PcTypes
  BY <1>1, <1>6, <1>7, <1>9 DEF PcTypes, Locations
<1>11. TypeOK'
  BY <1>1, <1>8, <1>10 DEF TypeOK, PcTypes
<1>12. PcAgrees'
  <2>1. /\ m + 1 \in 1..(MaxVips + 1) /\ (m + 1) - 1 = m
    BY <1>5, NumbersAssumption
  <2>2. \E l \in 1..(MaxVips + 1), h \in 0..MaxVips :
           /\ DOMAIN pc'.todo = l..h
           /\ l = 1 \/ l - 1 \in DOMAIN vips'
    BY <1>5, <1>7, <1>8, <1>10, <2>1
  <2>3. /\ DOMAIN pc'.upd \subseteq DOMAIN vips'
        /\ \A v \in DOMAIN pc'.upd : pc'.upd[v] = vips'[v]
    BY <1>8, <1>9, <1>10
  <2>4. QED
    BY <1>1, <1>10, <2>2, <2>3 DEF PcAgrees, Kinds
<1>13. RowsKnown'
  <2>1. ASSUME NEW pr \in Protocols, NEW v \in Hosts, v \notin batch,
               <<pr, v>> \notin doubtful
        PROVE  Agrees(pr, v)'
    <3>1. Agrees(pr, v)
      BY <1>1, <2>1 DEF IInv, Sound, RowsKnown, Unwritten
    <3>2. QED
      BY <1>1, <1>8, <2>1, <3>1 DEF Agrees
  <2>2. QED
    BY <1>1, <1>9, <1>10, <2>1 DEF RowsKnown, Unwritten
<1>14. AttachKnown'
  BY <1>1, <1>10 DEF IInv, Sound, AttachKnown, Kinds, FullyAttached, NotAttached
<1>15. StaticKnown'
  <2>1. CASE pc.next = "static"
    <3>1. /\ \A v \in DOMAIN vips : vips[v] = {}
          /\ \A v \in DOMAIN pc.todo : pc.todo[v] = {}
      BY <1>1, <2>1 DEF IInv, Sound, StaticKnown, Writing
    <3>2. \A v \in DOMAIN vips' : vips'[v] = {}
      BY <1>5, <1>8, <3>1
    <3>3. QED
      BY <1>7, <1>10, <2>1, <3>1, <3>2 DEF StaticKnown
  <2>2. CASE pc.next # "static"
    <3>1. \A v \in 1..NStatic :
            IF v \in DOMAIN pc.todo
            THEN pc.todo[v] = {StaticHost} /\ (v \in DOMAIN vips => vips[v] = {})
            ELSE HasStatic(v)
      BY <1>1, <2>2 DEF IInv, Sound, StaticKnown, Writing
    <3>2. ASSUME NEW v \in 1..NStatic
          PROVE  IF v \in DOMAIN rest
                 THEN rest[v] = {StaticHost} /\ (v \in DOMAIN vips' => vips'[v] = {})
                 ELSE HasStatic(v)'
      <4>1. CASE v \in DOMAIN rest
        BY <1>7, <1>8, <3>1, <4>1
      <4>2. CASE v \in batch
        <5>1. pc.todo[v] = {StaticHost} /\ (v \in DOMAIN vips => vips[v] = {})
          BY <1>5, <3>1, <4>2
        <5>2. v \in DOMAIN vips' /\ vips'[v] = {} \cup {StaticHost}
          BY <1>8, <4>2, <5>1
        <5>3. QED
          BY <1>7, <4>2, <5>2 DEF HasStatic
      <4>3. CASE v \notin DOMAIN pc.todo
        BY <1>1, <1>5, <1>7, <1>8, <3>1, <4>3 DEF HasStatic
      <4>4. QED
        BY <1>7, <4>1, <4>2, <4>3
    <3>3. QED
      BY <1>10, <2>2, <3>2 DEF StaticKnown
  <2>3. QED
    BY <2>1, <2>2
<1>16. DestroyKnown'
  BY <1>10 DEF DestroyKnown
<1>17. QED
  BY <1>11, <1>12, <1>13, <1>14, <1>15, <1>16 DEF IInv, Sound

(* Where a loop without anything to write, or an idle tester, is.          *)
LEMMA Places ==
  /\ Idle.at = "idle" /\ Idle.next = "none" /\ Idle \in PcTypes
  /\ Dead.at = "dead" /\ Dead \in PcTypes
  /\ Gone.at = "gone" /\ Gone \in PcTypes
  BY AtFields, Givens DEF Idle, Dead, Gone, Locations

(* Between loops nothing is left to write.                                 *)
LEMMA NothingUnwritten ==
  ASSUME IInv, pc.at \notin {"destroy", "gone"},
         pc.at \notin {"clear", "set"} \/ pc.left = {}
  PROVE  \A pr \in Protocols, v \in Hosts : <<pr, v>> \in doubtful \/ Agrees(pr, v)
  BY DEF IInv, Sound, RowsKnown, Unwritten

LEMMA BatchesSound == TypeOK /\ IInv /\ Batches => TypeOK' /\ IInv'
<1> SUFFICES ASSUME TypeOK, IInv, Batches
             PROVE  TypeOK' /\ IInv'
  OBVIOUS
<1>1. /\ pc.at = "batch" /\ DOMAIN pc.todo = {} /\ pc \in PcTypes
      /\ UNCHANGED <<vips, rows, attached, lbs, served, doubtful, failures>>
      /\ lbs = Protocols /\ DOMAIN rows = Protocols /\ pc.next \notin Workers
  BY DEF Batches, database, IInv, PcAgrees
<1>2. \A pr \in Protocols, v \in Hosts : <<pr, v>> \in doubtful \/ Agrees(pr, v)
  BY <1>1, NothingUnwritten
<1>3. \A w \in Workers :
        FullyAttached(w) \/ (NotAttached(w) /\ w \notin served)
  BY <1>1 DEF IInv, Sound, AttachKnown, Kinds
<1>4. CASE pc.next = "static"
  <2>1. /\ pc'.at = "batch" /\ pc'.todo = Static /\ pc'.next = "none"
        /\ pc' \in PcTypes /\ "none" \notin Workers
    BY <1>1, <1>4, AtFields, Givens, NamesAssumption DEF Batches, AddVips, Locations
  <2>2. TypeOK'
    BY <1>1, <2>1 DEF TypeOK, PcTypes
  <2>3. 1 \in 1..(MaxVips + 1) /\ NStatic \in 0..MaxVips
    BY NumbersAssumption
  <2>4. \E lo \in 1..(MaxVips + 1), hi \in 0..MaxVips :
           /\ DOMAIN pc'.todo = lo..hi
           /\ lo = 1 \/ lo - 1 \in DOMAIN vips'
    BY <2>1, <2>3, Givens
  <2>5. PcAgrees'
    BY <1>1, <2>1, <2>4 DEF PcAgrees, Kinds
  <2>6. RowsKnown'
    BY <1>1, <1>2 DEF RowsKnown, Agrees
  <2>7. AttachKnown'
    BY <1>1, <1>3, <2>1 DEF AttachKnown, Kinds, FullyAttached, NotAttached
  <2>8. \A v \in DOMAIN vips : vips[v] = {}
    BY <1>1, <1>4 DEF IInv, Sound, StaticKnown, Writing
  <2>9. StaticKnown'
    BY <1>1, <2>1, <2>8, Givens DEF StaticKnown
  <2>10. DestroyKnown'
    BY <2>1 DEF DestroyKnown
  <2>11. QED
    BY <2>2, <2>5, <2>6, <2>7, <2>9, <2>10 DEF IInv, Sound
<1>5. CASE pc.next # "static"
  <2>1. pc'.at = "idle" /\ pc' \in PcTypes
    BY <1>5, Places DEF Batches
  <2>2. TypeOK'
    BY <1>1, <2>1 DEF TypeOK, PcTypes
  <2>3. PcAgrees'
    BY <1>1, <2>1 DEF PcAgrees, Kinds, Writing
  <2>4. RowsKnown'
    BY <1>1, <1>2 DEF RowsKnown, Agrees
  <2>5. AttachKnown'
    BY <1>1, <1>3, <2>1 DEF AttachKnown, Kinds, FullyAttached, NotAttached
  <2>6. \A v \in 1..NStatic : HasStatic(v)
    BY <1>1, <1>5 DEF IInv, Sound, StaticKnown, Writing
  <2>7. StaticKnown'
    BY <1>1, <2>1, <2>6 DEF StaticKnown, Writing, HasStatic
  <2>8. DestroyKnown'
    BY <2>1 DEF DestroyKnown
  <2>9. QED
    BY <2>2, <2>3, <2>4, <2>5, <2>7, <2>8 DEF IInv, Sound
<1>6. QED
  BY <1>4, <1>5

LEMMA SetVipsSound ==
  ASSUME TypeOK, IInv, NEW pr \in Protocols, SetVips(pr)
  PROVE  TypeOK' /\ IInv'
<1> DEFINE row == Merged(rows[pr], pc.upd)
<1>1. /\ pc.at = "set" /\ pr \in pc.left /\ pc \in PcTypes
      /\ UNCHANGED <<vips, attached, lbs, served>>
      /\ lbs = Protocols /\ DOMAIN rows = Protocols
      /\ rows[pr] \in Updates /\ pc.upd \in Updates
      /\ DOMAIN pc.upd \subseteq DOMAIN vips
      /\ \A v \in DOMAIN pc.upd : pc.upd[v] = vips[v]
  BY DEF SetVips, IInv, PcAgrees, TypeOK
<1>2. /\ row \in Updates /\ DOMAIN row = DOMAIN rows[pr] \cup DOMAIN pc.upd
      /\ \A v \in DOMAIN pc.upd : row[v] = pc.upd[v]
      /\ \A v \in DOMAIN rows[pr] \ DOMAIN pc.upd : row[v] = rows[pr][v]
  BY <1>1, MergedType
<1>3. Writes(pr, row, DOMAIN pc.upd) /\ DOMAIN pc.upd \in SUBSET Hosts
  BY <1>1, UpdateType DEF SetVips
<1> HIDE DEF row
<1>4. /\ DOMAIN rows' = Protocols /\ rows' \in [DOMAIN rows' -> Updates]
      /\ \A q \in Protocols \ {pr} : rows'[q] = rows[q]
      /\ rows'[pr] = rows[pr] \/ rows'[pr] = row
      /\ rows'[pr] = row \/ \A v \in DOMAIN pc.upd : <<pr, v>> \in doubtful'
      /\ \A q \in Protocols, v \in Hosts :
           (q # pr \/ v \notin DOMAIN pc.upd) /\ <<q, v>> \in doubtful
             => <<q, v>> \in doubtful'
      /\ doubtful' \subseteq Protocols \X Hosts
      /\ failures' \in 0..MaxFailures
  BY <1>1, <1>2, <1>3, WritesEffect
<1>5. /\ pc'.at = "set" /\ pc'.left = pc.left \ {pr} /\ pc'.todo = pc.todo
      /\ pc'.upd = pc.upd /\ pc'.next = pc.next /\ pc' \in PcTypes
  BY <1>1 DEF SetVips, PcTypes
<1>6. TypeOK'
  BY <1>1, <1>4, <1>5 DEF TypeOK, PcTypes
<1>7. PcAgrees'
  <2>1. \E lo \in 1..(MaxVips + 1), hi \in 0..MaxVips :
           /\ DOMAIN pc.todo = lo..hi
           /\ lo = 1 \/ lo - 1 \in DOMAIN vips
    BY <1>1 DEF IInv, PcAgrees, Writing
  <2>2. pc.next \in Workers => DOMAIN pc.todo = {}
    BY <1>1 DEF IInv, PcAgrees
  <2>3. QED
    BY <1>1, <1>4, <1>5, <2>1, <2>2 DEF PcAgrees, Kinds
<1>8. RowsKnown'
  <2>1. ASSUME NEW q \in Protocols, NEW v \in Hosts, <<q, v>> \notin doubtful',
               ~Unwritten(q, v)'
        PROVE  Agrees(q, v)'
    <3>1. CASE q # pr \/ v \notin DOMAIN pc.upd
      <4>1. <<q, v>> \notin doubtful
        BY <1>4, <2>1, <3>1
      <4>2. ~Unwritten(q, v)
        BY <1>1, <1>5, <2>1, <3>1 DEF Unwritten
      <4>3. Agrees(q, v)
        BY <1>1, <4>1, <4>2 DEF IInv, Sound, RowsKnown
      <4>4. CASE q # pr
        BY <1>1, <1>4, <4>3, <4>4 DEF Agrees
      <4>5. CASE q = pr /\ v \notin DOMAIN pc.upd
        BY <1>1, <1>2, <1>4, <4>3, <4>5 DEF Agrees
      <4>6. QED
        BY <3>1, <4>4, <4>5
    <3>2. CASE q = pr /\ v \in DOMAIN pc.upd
      <4>1. rows'[pr] = row
        BY <1>4, <2>1, <3>2
      <4>2. QED
        BY <1>1, <1>2, <3>2, <4>1 DEF Agrees
    <3>3. QED
      BY <3>1, <3>2
  <2>2. QED
    BY <2>1 DEF RowsKnown
<1>9. AttachKnown'
  BY <1>1, <1>5 DEF IInv, Sound, AttachKnown, Kinds, FullyAttached, NotAttached
<1>10. StaticKnown'
  BY <1>1, <1>5 DEF IInv, Sound, StaticKnown, Writing, HasStatic
<1>11. DestroyKnown'
  BY <1>5 DEF DestroyKnown
<1>12. QED
  BY <1>6, <1>7, <1>8, <1>9, <1>10, <1>11 DEF IInv, Sound

LEMMA SetDoneSound == TypeOK /\ IInv /\ SetDone => TypeOK' /\ IInv'
<1> SUFFICES ASSUME TypeOK, IInv, SetDone
             PROVE  TypeOK' /\ IInv'
  OBVIOUS
<1>1. /\ pc.at = "set" /\ pc.left = {} /\ pc \in PcTypes
      /\ UNCHANGED <<vips, rows, attached, lbs, served, doubtful, failures>>
      /\ lbs = Protocols /\ DOMAIN rows = Protocols
  BY DEF SetDone, database, IInv, PcAgrees
<1>2. \A pr \in Protocols, v \in Hosts : <<pr, v>> \in doubtful \/ Agrees(pr, v)
  BY <1>1, NothingUnwritten
<1>3. \A w \in Workers :
        FullyAttached(w) \/ (NotAttached(w) /\ (w \in served => pc.next = w))
  BY <1>1 DEF IInv, Sound, AttachKnown, Kinds
<1>4. CASE pc.next \in Workers
  <2>1. /\ pc'.at = "switch" /\ pc'.left = Protocols /\ pc'.next = pc.next
        /\ pc' \in PcTypes
    BY <1>1, <1>4, AtFields, Givens DEF SetDone, Locations
  <2>2. TypeOK'
    BY <1>1, <2>1 DEF TypeOK, PcTypes
  <2>3. PcAgrees'
    BY <1>1, <1>4, <2>1 DEF PcAgrees, Kinds, Writing
  <2>4. RowsKnown'
    BY <1>1, <1>2 DEF RowsKnown, Agrees
  <2>5. AttachKnown'
    BY <1>1, <1>3, <2>1 DEF AttachKnown, Kinds, FullyAttached, NotAttached
  <2>6. ASSUME NEW v \in 1..NStatic
        PROVE  HasStatic(v)
    BY <1>1, <1>4, <2>6, NamesAssumption
       DEF IInv, Sound, PcAgrees, StaticKnown, Writing
  <2>7. StaticKnown'
    BY <1>1, <2>1, <2>6 DEF StaticKnown, Writing, HasStatic
  <2>8. DestroyKnown'
    BY <2>1 DEF DestroyKnown
  <2>9. QED
    BY <2>2, <2>3, <2>4, <2>5, <2>7, <2>8 DEF IInv, Sound
<1>5. CASE pc.next \notin Workers
  <2>1. /\ pc'.at = "batch" /\ pc'.todo = pc.todo /\ pc'.next = pc.next
        /\ pc' \in PcTypes
    BY <1>1, <1>5, AtFields, Givens DEF SetDone, Locations, PcTypes
  <2>2. TypeOK'
    BY <1>1, <2>1 DEF TypeOK, PcTypes
  <2>3. \E lo \in 1..(MaxVips + 1), hi \in 0..MaxVips :
           /\ DOMAIN pc.todo = lo..hi
           /\ lo = 1 \/ lo - 1 \in DOMAIN vips
    BY <1>1 DEF IInv, PcAgrees, Writing
  <2>4. PcAgrees'
    BY <1>1, <1>5, <2>1, <2>3 DEF PcAgrees, Kinds
  <2>5. RowsKnown'
    BY <1>1, <1>2 DEF RowsKnown, Agrees
  <2>6. AttachKnown'
    BY <1>1, <1>3, <1>5, <2>1 DEF AttachKnown, Kinds, FullyAttached, NotAttached
  <2>7. StaticKnown'
    BY <1>1, <2>1 DEF IInv, Sound, StaticKnown, Writing, HasStatic
  <2>8. DestroyKnown'
    BY <2>1 DEF DestroyKnown
  <2>9. QED
    BY <2>2, <2>4, <2>5, <2>6, <2>7, <2>8 DEF IInv, Sound
<1>6. QED
  BY <1>4, <1>5

(* New VIPs get the addresses after those of the object.                   *)
LEMMA ProvisionEffect ==
  ASSUME TypeOK, NEW n \in Hosts, ProvisionVips(n)
  PROVE  /\ pc = Idle
         /\ UNCHANGED <<vips, rows, attached, lbs, served, doubtful, failures>>
         /\ pc'.at = "batch" /\ pc'.next = "none" /\ pc' \in PcTypes
         /\ \E k \in 0..MaxVips, h \in 0..MaxVips :
              DOMAIN vips = 1..k /\ DOMAIN pc'.todo = (k + 1)..h /\ k + 1 <= h
<1>1. PICK k \in 0..MaxVips : vips \in [1..k -> SUBSET Backends]
  BY VipMapType DEF TypeOK
<1>2. k \in Nat /\ n \in Nat /\ MaxVips \in Nat /\ DOMAIN vips = 1..k /\ n >= 1
  BY <1>1, NumbersAssumption DEF Hosts
<1>3. Cardinality(1..k) = IF 1 <= k THEN k - 1 + 1 ELSE 0
  BY <1>2, FS_Interval
<1>4. (IF 1 <= k THEN k - 1 + 1 ELSE 0) = k
  BY <1>2
<1>5. Cardinality(DOMAIN vips) = k
  BY <1>2, <1>3, <1>4, Zenon
<1>6. VipIp = k + 1 /\ n <= MaxVips - k
  BY <1>2, <1>5 DEF VipIp, ProvisionVips
<1>7. PICK lists \in [VipIp..(VipIp + n - 1) -> SUBSET Workers] :
         pc' = AddVips(lists, "none")
  BY DEF ProvisionVips
<1>8. /\ DOMAIN lists = (k + 1)..(k + n) /\ (k + 1)..(k + n) \subseteq Hosts
      /\ k + 1 <= k + n /\ k + n \in 0..MaxVips
  BY <1>2, <1>6, <1>7 DEF Hosts
<1>9. lists \in [DOMAIN lists -> SUBSET Backends]
  BY <1>7 DEF Backends
<1>10. lists \in Updates
  BY <1>8, <1>9, UpdateType
<1>11. /\ pc'.at = "batch" /\ pc'.next = "none" /\ pc'.todo = lists
       /\ pc' \in PcTypes
  BY <1>7, <1>10, AtFields, Givens DEF AddVips, Locations
<1>12. /\ pc = Idle
       /\ UNCHANGED <<vips, rows, attached, lbs, served, doubtful, failures>>
  BY DEF ProvisionVips, database
<1>13. QED
  BY <1>2, <1>8, <1>11, <1>12

LEMMA ProvisionVipsSound ==
  ASSUME TypeOK, IInv, NEW n \in Hosts, ProvisionVips(n)
  PROVE  TypeOK' /\ IInv'
<1>1. /\ pc.at = "idle" /\ lbs = Protocols /\ DOMAIN rows = Protocols
      /\ UNCHANGED <<vips, rows, attached, lbs, served, doubtful, failures>>
      /\ pc'.at = "batch" /\ pc'.next = "none" /\ pc' \in PcTypes
      /\ "none" \notin Workers
  BY ProvisionEffect, Places, NamesAssumption DEF IInv, PcAgrees
<1>2. PICK k \in 0..MaxVips, h \in 0..MaxVips :
         DOMAIN vips = 1..k /\ DOMAIN pc'.todo = (k + 1)..h /\ k + 1 <= h
  BY ProvisionEffect
<1>3. TypeOK'
  BY <1>1 DEF TypeOK, PcTypes
<1>4. PcAgrees'
  <2>1. /\ k + 1 \in 1..(MaxVips + 1) /\ (k + 1) - 1 = k
        /\ k + 1 = 1 \/ k \in 1..k
    BY <1>2, NumbersAssumption
  <2>2. \E lo \in 1..(MaxVips + 1), hi \in 0..MaxVips :
           /\ DOMAIN pc'.todo = lo..hi
           /\ lo = 1 \/ lo - 1 \in DOMAIN vips'
    BY <1>1, <1>2, <2>1
  <2>3. QED
    BY <1>1, <2>2 DEF PcAgrees, Kinds
<1>5. RowsKnown'
  BY <1>1, NothingUnwritten DEF RowsKnown, Agrees
<1>6. AttachKnown'
  BY <1>1 DEF IInv, Sound, AttachKnown, Kinds, FullyAttached, NotAttached
<1>7. StaticKnown'
  <2>1. \A v \in 1..NStatic : HasStatic(v)
    BY <1>1 DEF IInv, Sound, StaticKnown
  <2>2. \A v \in 1..NStatic : v \notin DOMAIN pc'.todo
    BY <1>2, <2>1 DEF HasStatic
  <2>3. QED
    BY <1>1, <2>1, <2>2 DEF StaticKnown, HasStatic
<1>8. DestroyKnown'
  BY <1>1 DEF DestroyKnown
<1>9. QED
  BY <1>3, <1>4, <1>5, <1>6, <1>7, <1>8 DEF IInv, Sound

LEMMA UnprovisionVipsSound == TypeOK /\ IInv /\ UnprovisionVips => TypeOK' /\ IInv'
<1> SUFFICES ASSUME TypeOK, IInv, UnprovisionVips
             PROVE  TypeOK' /\ IInv'
  OBVIOUS
<1>1. /\ pc.at = "idle" /\ lbs = Protocols /\ DOMAIN rows = Protocols
      /\ vips' = Empty /\ served' = {}
      /\ UNCHANGED <<rows, attached, lbs, doubtful, failures>>
  BY Places DEF UnprovisionVips, database, IInv, PcAgrees
<1>2. /\ pc'.at = "clear" /\ pc'.next = "static" /\ pc'.left = Protocols
      /\ pc' \in PcTypes
  BY <1>1, AtFields, Givens DEF UnprovisionVips, Locations
<1>3. TypeOK'
  BY <1>1, <1>2, Givens DEF TypeOK, PcTypes
<1>4. PcAgrees'
  BY <1>1, <1>2 DEF PcAgrees, Kinds, Writing
<1>5. RowsKnown'
  BY <1>2 DEF RowsKnown, Unwritten
<1>6. AttachKnown'
  BY <1>1, <1>2 DEF IInv, Sound, AttachKnown, Kinds, FullyAttached, NotAttached
<1>7. StaticKnown'
  BY <1>2 DEF StaticKnown, Writing
<1>8. DestroyKnown'
  BY <1>2 DEF DestroyKnown
<1>9. QED
  BY <1>3, <1>4, <1>5, <1>6, <1>7, <1>8 DEF IInv, Sound

LEMMA ClearVipsSound ==
  ASSUME TypeOK, IInv, NEW pr \in Protocols, ClearVips(pr)
  PROVE  TypeOK' /\ IInv'
<1>1. /\ pc.at = "clear" /\ pr \in pc.left /\ pc \in PcTypes
      /\ UNCHANGED <<vips, attached, lbs, served>> /\ vips = Empty
      /\ lbs = Protocols /\ DOMAIN rows = Protocols
  BY DEF ClearVips, IInv, PcAgrees
<1>2. /\ DOMAIN rows' = Protocols /\ rows' \in [DOMAIN rows' -> Updates]
      /\ \A q \in Protocols \ {pr} : rows'[q] = rows[q]
      /\ rows'[pr] = Empty \/ \A v \in Hosts : <<pr, v>> \in doubtful'
      /\ \A q \in Protocols, v \in Hosts :
           q # pr /\ <<q, v>> \in doubtful => <<q, v>> \in doubtful'
      /\ doubtful' \subseteq Protocols \X Hosts
      /\ failures' \in 0..MaxFailures
  <2>1. Writes(pr, Empty, Hosts) /\ Empty \in Updates
    BY Givens DEF ClearVips
  <2>2. QED
    BY <1>1, <2>1, WritesEffect
<1>3. /\ pc'.at = "clear" /\ pc'.left = pc.left \ {pr} /\ pc' \in PcTypes
  BY <1>1 DEF ClearVips, PcTypes
<1>4. TypeOK'
  BY <1>1, <1>2, <1>3 DEF TypeOK, PcTypes
<1>5. PcAgrees'
  BY <1>1, <1>2, <1>3 DEF PcAgrees, Kinds, Writing
<1>6. RowsKnown'
  <2>1. ASSUME NEW q \in Protocols, NEW v \in Hosts, <<q, v>> \notin doubtful',
               ~Unwritten(q, v)'
        PROVE  Agrees(q, v)'
    <3>1. CASE q = pr
      <4>1. rows'[q] = vips'
        BY <1>1, <1>2, <2>1, <3>1
      <4>2. QED
        BY <4>1 DEF Agrees
    <3>2. CASE q # pr
      <4>1. Agrees(q, v)
        BY <1>1, <1>2, <1>3, <2>1, <3>2
           DEF IInv, Sound, RowsKnown, Unwritten
      <4>2. QED
        BY <1>1, <1>2, <3>2, <4>1 DEF Agrees
    <3>3. QED
      BY <3>1, <3>2
  <2>2. QED
    BY <2>1 DEF RowsKnown
<1>7. AttachKnown'
  BY <1>1, <1>3 DEF IInv, Sound, AttachKnown, Kinds, FullyAttached, NotAttached
<1>8. StaticKnown'
  BY <1>3 DEF StaticKnown, Writing
<1>9. DestroyKnown'
  BY <1>3 DEF DestroyKnown
<1>10. QED
  BY <1>4, <1>5, <1>6, <1>7, <1>8, <1>9 DEF IInv, Sound

LEMMA ClearDoneSound == TypeOK /\ IInv /\ ClearDone => TypeOK' /\ IInv'
<1> SUFFICES ASSUME TypeOK, IInv, ClearDone
             PROVE  TypeOK' /\ IInv'
  OBVIOUS
<1>1. /\ pc.at = "clear" /\ pc.left = {} /\ vips = Empty
      /\ UNCHANGED <<vips, rows, attached, lbs, served, doubtful, failures>>
      /\ lbs = Protocols /\ DOMAIN rows = Protocols
  BY DEF ClearDone, database, IInv, PcAgrees
<1>2. /\ pc'.at = "batch" /\ pc'.todo = Static /\ pc'.next = "none"
      /\ pc' \in PcTypes /\ "none" \notin Workers
  BY AtFields, Givens, NamesAssumption DEF ClearDone, AddVips, Locations
<1>3. TypeOK'
  BY <1>1, <1>2 DEF TypeOK, PcTypes
<1>4. PcAgrees'
  <2>1. 1 \in 1..(MaxVips + 1) /\ NStatic \in 0..MaxVips
    BY NumbersAssumption
  <2>2. \E lo \in 1..(MaxVips + 1), hi \in 0..MaxVips :
           /\ DOMAIN pc'.todo = lo..hi
           /\ lo = 1 \/ lo - 1 \in DOMAIN vips'
    BY <1>2, <2>1, Givens
  <2>3. QED
    BY <1>1, <1>2, <2>2 DEF PcAgrees, Kinds
<1>5. RowsKnown'
  BY <1>1, NothingUnwritten DEF RowsKnown, Agrees
<1>6. AttachKnown'
  BY <1>1, <1>2 DEF IInv, Sound, AttachKnown, Kinds, FullyAttached, NotAttached
<1>7. StaticKnown'
  BY <1>1, <1>2, Givens DEF StaticKnown
<1>8. DestroyKnown'
  BY <1>2 DEF DestroyKnown
<1>9. QED
  BY <1>3, <1>4, <1>5, <1>6, <1>7, <1>8 DEF IInv, Sound

LEMMA AddBackendsToVipSound ==
  ASSUME TypeOK, IInv, NEW w \in Workers, AddBackendsToVip(w)
  PROVE  TypeOK' /\ IInv'
<1>1. /\ pc.at = "idle" /\ lbs = Protocols /\ DOMAIN rows = Protocols
      /\ served' = served \cup {w} /\ w \notin served
      /\ UNCHANGED <<rows, attached, lbs, doubtful, failures>>
      /\ pc' = At("set", Empty, vips', lbs, w)
  BY Places DEF AddBackendsToVip, database, IInv, PcAgrees
<1>2. vips' \in VipMaps /\ DOMAIN vips' = DOMAIN vips
  <2>1. PICK n \in 0..MaxVips : vips \in [1..n -> SUBSET Backends]
    BY VipMapType DEF TypeOK
  <2>2. vips' = [v \in DOMAIN vips |->
                   IF v \in Receiving THEN vips[v] \cup {w} ELSE vips[v]]
    BY DEF AddBackendsToVip
  <2>3. w \in Backends
    BY DEF Backends
  <2>4. vips' \in [1..n -> SUBSET Backends]
    BY <2>1, <2>2, <2>3
  <2>5. QED
    BY <2>1, <2>4, VipMapType
<1>3. /\ pc'.at = "set" /\ pc'.todo = Empty /\ pc'.upd = vips'
      /\ pc'.left = Protocols /\ pc'.next = w /\ pc' \in PcTypes
      /\ w # "static"
  BY <1>1, <1>2, AtFields, Givens, VipMapType, NamesAssumption DEF Locations
<1>4. TypeOK'
  BY <1>1, <1>2, <1>3 DEF TypeOK, PcTypes
<1>5. PcAgrees'
  <2>1. 1 \in 1..(MaxVips + 1) /\ 0 \in 0..MaxVips /\ 1..0 = {}
    BY NumbersAssumption
  <2>2. \E lo \in 1..(MaxVips + 1), hi \in 0..MaxVips :
           /\ DOMAIN pc'.todo = lo..hi
           /\ lo = 1 \/ lo - 1 \in DOMAIN vips'
    BY <1>3, <2>1, Givens
  <2>3. QED
    BY <1>1, <1>2, <1>3, <2>2, Givens DEF PcAgrees, Kinds
<1>6. RowsKnown'
  <2>1. ASSUME NEW q \in Protocols, NEW v \in Hosts, <<q, v>> \notin doubtful,
               v \notin DOMAIN vips
        PROVE  Agrees(q, v)'
    <3>1. Agrees(q, v)
      BY <1>1, <2>1, NothingUnwritten
    <3>2. QED
      BY <1>1, <1>2, <2>1, <3>1 DEF Agrees
  <2>2. QED
    BY <1>1, <1>2, <1>3, <2>1 DEF RowsKnown, Unwritten
<1>7. AttachKnown'
  BY <1>1, <1>3 DEF IInv, Sound, AttachKnown, Kinds, FullyAttached, NotAttached
<1>8. StaticKnown'
  <2>1. \A v \in 1..NStatic : v \in DOMAIN vips
    BY <1>1 DEF IInv, Sound, StaticKnown, HasStatic
  <2>2. QED
    BY <1>1, <1>2, <1>3, <2>1, Givens DEF StaticKnown, HasStatic
<1>9. DestroyKnown'
  BY <1>3 DEF DestroyKnown
<1>10. QED
  BY <1>4, <1>5, <1>6, <1>7, <1>8, <1>9 DEF IInv, Sound

LEMMA AttachSound ==
  ASSUME TypeOK, IInv, NEW pr \in Protocols, Attach(pr)
  PROVE  TypeOK' /\ IInv'
<1>1. /\ pc.at \in Kinds /\ pr \in pc.left /\ pc \in PcTypes /\ pc.next \in Workers
      /\ UNCHANGED <<vips, rows, lbs, served, doubtful, failures>>
      /\ attached' = attached \cup {<<pr, pc.next, pc.at>>}
      /\ lbs = Protocols /\ DOMAIN rows = Protocols
  BY DEF Attach, IInv, PcAgrees, Kinds
<1>2. /\ pc'.at = pc.at /\ pc'.left = pc.left \ {pr} /\ pc'.next = pc.next
      /\ pc' \in PcTypes
  BY <1>1 DEF Attach, PcTypes
<1>3. TypeOK'
  BY <1>1, <1>2 DEF TypeOK, PcTypes
<1>4. PcAgrees'
  BY <1>1, <1>2 DEF PcAgrees, Kinds, Writing
<1>5. RowsKnown'
  BY <1>1, NothingUnwritten DEF RowsKnown, Agrees, Kinds
<1>6. AttachKnown'
  <2>1. ASSUME NEW w \in Workers, w # pc.next
        PROVE  \/ FullyAttached(w)'
               \/ NotAttached(w)' /\ w \notin served
    <3>1. FullyAttached(w) \/ (NotAttached(w) /\ w \notin served)
      BY <1>1, <2>1 DEF IInv, Sound, AttachKnown, Kinds
    <3>2. QED
      BY <1>1, <2>1, <3>1 DEF FullyAttached, NotAttached
  <2>2. /\ \A q \in Protocols \ pc.left : <<q, pc.next, pc.at>> \in attached
        /\ pc.at = "router" =>
             \A q \in Protocols : <<q, pc.next, "switch">> \in attached
    BY <1>1 DEF IInv, Sound, AttachKnown, Kinds
  <2>3. QED
    BY <1>1, <1>2, <2>1, <2>2 DEF AttachKnown
<1>7. StaticKnown'
  BY <1>1, <1>2 DEF IInv, Sound, StaticKnown, Writing, Kinds, HasStatic
<1>8. DestroyKnown'
  BY <1>1, <1>2 DEF DestroyKnown, Kinds
<1>9. QED
  BY <1>3, <1>4, <1>5, <1>6, <1>7, <1>8 DEF IInv, Sound

LEMMA AttachRaisesSound ==
  ASSUME TypeOK, IInv, NEW pr \in Protocols, AttachRaises(pr)
  PROVE  TypeOK' /\ IInv'
<1>1. /\ pc.at \in Kinds /\ pc.next \in Workers
      /\ UNCHANGED <<vips, rows, lbs, served, doubtful, failures>>
      /\ attached' \in {attached, attached \cup {<<pr, pc.next, pc.at>>}}
      /\ lbs = Protocols /\ DOMAIN rows = Protocols
      /\ pc'.at = "dead" /\ pc' \in PcTypes
  BY Places DEF AttachRaises, IInv, PcAgrees, Kinds
<1>2. TypeOK'
  BY <1>1 DEF TypeOK, PcTypes
<1>3. PcAgrees'
  BY <1>1 DEF PcAgrees, Kinds, Writing
<1>4. RowsKnown'
  BY <1>1, NothingUnwritten DEF RowsKnown, Agrees, Kinds
<1>5. AttachKnown' /\ StaticKnown' /\ DestroyKnown'
  BY <1>1 DEF AttachKnown, StaticKnown, DestroyKnown, Writing
<1>6. QED
  BY <1>2, <1>3, <1>4, <1>5 DEF IInv, Sound

LEMMA AttachDoneSound == TypeOK /\ IInv /\ AttachDone => TypeOK' /\ IInv'
<1> SUFFICES ASSUME TypeOK, IInv, AttachDone
             PROVE  TypeOK' /\ IInv'
  OBVIOUS
<1>1. /\ pc.at \in Kinds /\ pc.left = {} /\ pc.next \in Workers /\ pc \in PcTypes
      /\ UNCHANGED <<vips, rows, attached, lbs, served, doubtful, failures>>
      /\ lbs = Protocols /\ DOMAIN rows = Protocols
  BY DEF AttachDone, database, IInv, PcAgrees, Kinds
<1>2. \/ /\ pc.at = "switch" /\ pc'.at = "router" /\ pc'.left = Protocols
         /\ pc'.next = pc.next
      \/ pc.at = "router" /\ pc'.at = "idle"
  BY <1>1, Places, AtFields DEF AttachDone, Kinds
<1>3. pc' \in PcTypes
  BY <1>1, Places, AtFields, Givens DEF AttachDone, Locations
<1>4. TypeOK'
  BY <1>1, <1>3 DEF TypeOK, PcTypes
<1>5. PcAgrees'
  BY <1>1, <1>2, <1>3 DEF PcAgrees, Kinds, Writing
<1>6. RowsKnown'
  BY <1>1, NothingUnwritten DEF RowsKnown, Agrees, Kinds
<1>7. AttachKnown'
  <2>1. /\ \A q \in Protocols : <<q, pc.next, pc.at>> \in attached
        /\ pc.at = "router" =>
             \A q \in Protocols : <<q, pc.next, "switch">> \in attached
    BY <1>1 DEF IInv, Sound, AttachKnown, Kinds
  <2>2. \A w \in Workers : w # pc.next =>
          FullyAttached(w) \/ (NotAttached(w) /\ w \notin served)
    BY <1>1 DEF IInv, Sound, AttachKnown, Kinds
  <2>3. CASE pc.at = "switch"
    BY <1>1, <1>2, <2>1, <2>2, <2>3
       DEF AttachKnown, Kinds, FullyAttached, NotAttached
  <2>4. CASE pc.at = "router"
    <3>1. FullyAttached(pc.next)
      BY <2>1, <2>4 DEF FullyAttached, Kinds
    <3>2. QED
      BY <1>1, <1>2, <2>2, <2>4, <3>1
         DEF AttachKnown, Kinds, FullyAttached, NotAttached
  <2>5. QED
    BY <1>1, <2>3, <2>4 DEF Kinds
<1>8. StaticKnown'
  BY <1>1, <1>2 DEF IInv, Sound, StaticKnown, Writing, Kinds, HasStatic
<1>9. DestroyKnown'
  BY <1>2 DEF DestroyKnown
<1>10. QED
  BY <1>4, <1>5, <1>6, <1>7, <1>8, <1>9 DEF IInv, Sound

LEMMA DestroySound == TypeOK /\ IInv /\ Destroy => TypeOK' /\ IInv'
<1> SUFFICES ASSUME TypeOK, IInv, Destroy
             PROVE  TypeOK' /\ IInv'
  OBVIOUS
<1>1. /\ lbs = Protocols /\ DOMAIN rows = Protocols
      /\ UNCHANGED <<vips, rows, attached, lbs, served, doubtful, failures>>
  BY Places DEF Destroy, database, IInv, PcAgrees
<1>2. pc'.at = "destroy" /\ pc'.left = Protocols /\ pc' \in PcTypes
  BY <1>1, AtFields, Givens DEF Destroy, Locations
<1>3. TypeOK'
  BY <1>1, <1>2 DEF TypeOK, PcTypes
<1>4. PcAgrees'
  BY <1>1, <1>2 DEF PcAgrees, Kinds, Writing
<1>5. Sound'
  BY <1>1, <1>2
     DEF Sound, RowsKnown, AttachKnown, StaticKnown, DestroyKnown, Writing
<1>6. QED
  BY <1>3, <1>4, <1>5 DEF IInv

LEMMA DeleteRowSound ==
  ASSUME TypeOK, IInv, NEW pr \in Protocols, DeleteRow(pr)
  PROVE  TypeOK' /\ IInv'
<1>1. /\ pc.at = "destroy" /\ pr \in pc.left /\ pc \in PcTypes
      /\ UNCHANGED <<vips, lbs, served>> /\ lbs = Protocols
      /\ rows \in [DOMAIN rows -> Updates] /\ DOMAIN rows \subseteq Protocols
      /\ doubtful \subseteq Protocols \X Hosts /\ failures \in 0..MaxFailures
      /\ attached \subseteq Protocols \X Workers \X Kinds
  BY DEF DeleteRow, IInv, PcAgrees, TypeOK
<1>2. pc'.at = "destroy" /\ pc'.left = pc.left \ {pr} /\ pc' \in PcTypes
  BY <1>1 DEF DeleteRow, PcTypes
<1>3. \/ Deleted(pr) /\ UNCHANGED <<doubtful, failures>>
      \/ /\ Deleted(pr) \/ UNCHANGED database
         /\ doubtful' = doubtful \cup ({pr} \X Hosts)
         /\ failures < MaxFailures /\ failures' = failures + 1
  BY DEF DeleteRow
<1>4. /\ \/ rows' = rows
         \/ rows' = [q \in DOMAIN rows \ {pr} |-> rows[q]]
      /\ attached' \subseteq attached
  BY <1>3 DEF Deleted, Restrict, database
<1>5. /\ rows' \in [DOMAIN rows' -> Updates] /\ DOMAIN rows' \subseteq DOMAIN rows
  BY <1>1, <1>4
<1>6. failures' \in 0..MaxFailures /\ doubtful' \subseteq Protocols \X Hosts
  BY <1>1, <1>3, NumbersAssumption
<1>7. TypeOK'
  BY <1>1, <1>2, <1>4, <1>5, <1>6 DEF TypeOK, PcTypes
<1>8. PcAgrees'
  BY <1>1, <1>2 DEF PcAgrees, Kinds, Writing
<1>9. DestroyKnown'
  <2>1. pr \notin DOMAIN rows' \/ {pr} \X Hosts \subseteq doubtful'
    BY <1>3 DEF Deleted, Restrict
  <2>2. doubtful \subseteq doubtful'
    BY <1>3
  <2>3. \A q \in DOMAIN rows : q \in pc.left \/ {q} \X Hosts \subseteq doubtful
    BY <1>1 DEF IInv, Sound, DestroyKnown
  <2>4. \A q \in DOMAIN rows' : q \in pc'.left \/ {q} \X Hosts \subseteq doubtful'
    BY <1>2, <1>5, <2>1, <2>2, <2>3
  <2>5. QED
    BY <1>2, <2>4 DEF DestroyKnown
<1>10. RowsKnown' /\ AttachKnown' /\ StaticKnown'
  BY <1>2 DEF RowsKnown, AttachKnown, StaticKnown, Writing
<1>11. QED
  BY <1>7, <1>8, <1>9, <1>10 DEF IInv, Sound

LEMMA DestroyDoneSound == TypeOK /\ IInv /\ DestroyDone => TypeOK' /\ IInv'
<1> SUFFICES ASSUME TypeOK, IInv, DestroyDone
             PROVE  TypeOK' /\ IInv'
  OBVIOUS
<1>1. /\ pc.at = "destroy" /\ pc.left = {} /\ lbs' = {}
      /\ UNCHANGED <<vips, rows, attached, served, doubtful, failures>>
      /\ pc'.at = "gone" /\ pc' \in PcTypes
  BY Places DEF DestroyDone, database
<1>2. TypeOK'
  BY <1>1 DEF TypeOK, PcTypes
<1>3. PcAgrees'
  BY <1>1 DEF PcAgrees, Kinds, Writing
<1>4. Sound'
  BY <1>1
     DEF IInv, Sound, RowsKnown, AttachKnown, StaticKnown, DestroyKnown, Writing
<1>5. QED
  BY <1>2, <1>3, <1>4 DEF IInv

-----------------------------------------------------------------------------
(***************************************************************************)
(* The theorems.                                                           *)
(***************************************************************************)
LEMMA StepSound == TypeOK /\ IInv /\ [Next]_vars => TypeOK' /\ IInv'
<1> SUFFICES ASSUME TypeOK, IInv, [Next]_vars
             PROVE  TypeOK' /\ IInv'
  OBVIOUS
<1>1. CASE Operation
  BY <1>1, ProvisionVipsSound, UnprovisionVipsSound, DestroySound,
     AddBackendsToVipSound DEF Operation
<1>2. CASE Progress
  BY <1>2, BatchSound, BatchesSound, SetVipsSound, SetDoneSound, ClearVipsSound,
     ClearDoneSound, AttachSound, AttachRaisesSound, AttachDoneSound,
     DeleteRowSound, DestroyDoneSound DEF Progress
<1>3. CASE UNCHANGED vars
  BY <1>3
     DEF vars, database, TypeOK, IInv, PcAgrees, Writing, Sound, RowsKnown,
         Unwritten, Agrees, AttachKnown, FullyAttached, NotAttached, StaticKnown,
         HasStatic, DestroyKnown
<1>4. QED
  BY <1>1, <1>2, <1>3 DEF Next

LEMMA Invariance == Spec => [](TypeOK /\ IInv)
<1>1. QED
  BY InitSound, StepSound, PTL DEF Spec

(* The object, the rows and the tester's place keep their types.           *)
THEOREM TypeCorrect == Spec => []TypeOK
<1>1. QED
  BY Invariance, PTL

(***************************************************************************)
(* Whatever is provisioned, served, cleared and destroyed, in batches of   *)
(* any size, the rows are what OvnLoadBalancer says, but for writes whose  *)
(* failure is in the log (ovn_load_balancer.py).                           *)
(***************************************************************************)
THEOREM RowsFollowTheObject == Spec => []RowsAreAsRemembered
<1>1. TypeOK /\ IInv => RowsAreAsRemembered
  <2> SUFFICES ASSUME TypeOK, IInv
               PROVE  RowsAreAsRemembered
    OBVIOUS
  <2>1. RowsFollowVips
    <3>1. SUFFICES ASSUME pc = Idle
                   PROVE  \A pr \in lbs, v \in Hosts :
                            <<pr, v>> \in doubtful \/ Agrees(pr, v)
      BY DEF RowsFollowVips
    <3>2. pc.at = "idle" /\ lbs = Protocols
      BY <3>1, Places DEF IInv, PcAgrees
    <3>3. QED
      BY <3>2, NothingUnwritten
  <2>2. AttachedAlike
    <3> SUFFICES ASSUME pc = Idle, NEW w \in Workers
                 PROVE  LET on == {a \in attached : a[2] = w} IN
                          /\ on \in {{}, Protocols \X {w} \X Kinds}
                          /\ w \in served => on = Protocols \X {w} \X Kinds
      BY DEF AttachedAlike
    <3> DEFINE on == {a \in attached : a[2] = w}
    <3>1. FullyAttached(w) \/ (NotAttached(w) /\ w \notin served)
      BY Places DEF IInv, Sound, AttachKnown, Kinds
    <3>2. \A a \in on : \E pr \in Protocols, k \in Kinds : a = <<pr, w, k>>
      BY DEF TypeOK
    <3>3. FullyAttached(w) => on = Protocols \X {w} \X Kinds
      BY <3>2 DEF FullyAttached
    <3>4. NotAttached(w) => on = {}
      BY <3>2 DEF NotAttached
    <3>5. QED
      BY <3>1, <3>3, <3>4
  <2>3. DestroyLeavesNothing
    BY DEF DestroyLeavesNothing, IInv, Sound, DestroyKnown
  <2>4. QED
    BY <2>1, <2>2, <2>3 DEF RowsAreAsRemembered
<1>2. QED
  BY <1>1, Invariance, PTL

(***************************************************************************)
(* After unprovision_vips the rows hold the static VIPs and nothing else,  *)
(* with the backends they had at first.                                    *)
(***************************************************************************)
THEOREM ClearingIsComplete == Spec => []OnlyStaticVipsRemain
<1>1. TypeOK /\ IInv => OnlyStaticVipsRemain
  <2> SUFFICES ASSUME TypeOK, IInv, pc = Idle, served = {}, doubtful = {},
                      DOMAIN vips = DOMAIN Static, NEW pr \in lbs
               PROVE  rows[pr] = Static
    BY DEF OnlyStaticVipsRemain
  <2>1. pc.at = "idle" /\ pr \in Protocols /\ DOMAIN rows = Protocols
    BY Places DEF IInv, PcAgrees
  <2>2. /\ \A v \in 1..NStatic : vips[v] = {StaticHost}
        /\ DOMAIN vips = 1..NStatic
    BY <2>1, Givens DEF IInv, Sound, StaticKnown, HasStatic
  <2>3. \A v \in Hosts : Agrees(pr, v)
    BY <2>1, NothingUnwritten
  <2>4. rows[pr] \in Updates
    BY <2>1 DEF TypeOK
  <2>5. DOMAIN rows[pr] \subseteq Hosts /\ 1..NStatic \subseteq Hosts
    BY <2>4, UpdateType, NumbersAssumption DEF Hosts
  <2>6. /\ DOMAIN rows[pr] = 1..NStatic
        /\ \A v \in 1..NStatic : rows[pr][v] = {StaticHost}
    BY <2>2, <2>3, <2>5 DEF Agrees
  <2>7. rows[pr] = [v \in 1..NStatic |-> {StaticHost}]
    <3>1. rows[pr] = [v \in DOMAIN rows[pr] |-> rows[pr][v]]
      BY <2>4, UpdateType
    <3>2. QED
      BY <2>6, <3>1
  <2>8. QED
    BY <2>7 DEF Static
<1>2. QED
  BY <1>1, Invariance, PTL

(***************************************************************************)
(* provision_vips_to_load_balancers never gives a service the address of   *)
(* a VIP that is there already.                                            *)
(***************************************************************************)
THEOREM AddressesOfVipsAreNew == Spec => ProvisionedVipsAreNew
<1>1. TypeOK /\ [Next]_vars =>
        [(pc = Idle /\ pc'.at = "batch") =>
           DOMAIN pc'.todo \cap DOMAIN vips = {}]_vars
  <2> SUFFICES ASSUME TypeOK, [Next]_vars, pc = Idle, pc'.at = "batch"
               PROVE  DOMAIN pc'.todo \cap DOMAIN vips = {}
    OBVIOUS
  <2>1. pc.at = "idle"
    BY Places
  <2>2. ~Progress /\ ~UNCHANGED vars
    BY <2>1 DEF Progress, Batch, Batches, SetDone, ClearDone, AttachDone,
       DestroyDone, SetVips, ClearVips, Attach, AttachRaises, DeleteRow, Kinds,
       vars
  <2>3. ~UnprovisionVips /\ ~Destroy /\ \A w \in Workers : ~AddBackendsToVip(w)
    BY AtFields DEF UnprovisionVips, Destroy, AddBackendsToVip
  <2>4. PICK n \in Hosts : ProvisionVips(n)
    BY <2>2, <2>3 DEF Next, Operation
  <2>5. PICK k \in 0..MaxVips, h \in 0..MaxVips :
           DOMAIN vips = 1..k /\ DOMAIN pc'.todo = (k + 1)..h
    BY <2>4, ProvisionEffect
  <2>6. QED
    BY <2>5
<1>2. QED
  BY <1>1, Invariance, PTL DEF Spec, ProvisionedVipsAreNew

=============================================================================
