--------------------------- MODULE HashMapProofs ---------------------------
(* Proofs about HashMap for any keys, hashes, values, capacities and load
   factors that its assumptions allow: the order of the entries on their ways,
   what follows of the keys, the size and the lookups, and that HashMap
   implements AbstractMap. *)
EXTENDS HashMap, TLAPS, FiniteSetTheorems

(* Masking gives a slot. *)
LEMMA MaskRange ==
  ASSUME NEW h \in Nat, NEW n \in Nat \ {0}
  PROVE  Mask(h, n) \in 0..(n - 1)
BY DEF Mask

(* A slot is its own mask. *)
LEMMA MaskSlot ==
  ASSUME NEW n \in Nat \ {0}, NEW h \in 0..(n - 1)
  PROVE  Mask(h, n) = h
BY DEF Mask

(* The slot after the slot of h is the slot of h + 1. *)
LEMMA MaskNext ==
  ASSUME NEW h \in Nat, NEW n \in Nat \ {0}
  PROVE  Mask(Mask(h, n) + 1, n) = Mask(h + 1, n)
<1> DEFINE q == h \div n
           r == h % n
<1>0. n \in Nat /\ n > 0
  OBVIOUS
<1>1. q \in Int /\ r \in 0..(n - 1) /\ h = (n * q) + r
  BY <1>0
<1>2. CASE r + 1 < n
  <2>1. h + 1 = (n * q) + (r + 1)
    BY <1>0, <1>1
  <2> HIDE DEF q, r
  <2>2. (h + 1) % n = r + 1
    BY <1>0, <1>1, <1>2, <2>1
  <2>3. (r + 1) % n = r + 1
    BY <1>0, <1>1, <1>2
  <2> QED BY <2>2, <2>3 DEF Mask, r
<1>3. CASE r + 1 = n
  <2>1. h + 1 = (n * (q + 1)) + 0
    BY <1>0, <1>1, <1>3
  <2> HIDE DEF q, r
  <2>2. (h + 1) % n = 0
    BY <1>0, <1>1, <2>1
  <2>3. (r + 1) % n = 0
    BY <1>0, <1>3
  <2> QED BY <2>2, <2>3 DEF Mask, r
<1> QED BY <1>1, <1>2, <1>3

(* The slot after a slot, without the mask. *)
LEMMA MaskSucc ==
  ASSUME NEW n \in Nat \ {0}, NEW i \in 0..(n - 1)
  PROVE  Mask(i + 1, n) = IF i + 1 = n THEN 0 ELSE i + 1
<1>1. CASE i + 1 = n
  <2>1. n = (n * 1) + 0
    OBVIOUS
  <2>2. n % n = 0
    BY <2>1
  <2> QED BY <1>1, <2>2 DEF Mask
<1>2. CASE i + 1 # n
  BY <1>2 DEF Mask
<1> QED BY <1>1, <1>2

LEMMA FirstSlot ==
  ASSUME NEW n \in Nat \ {0}
  PROVE  0 \in 0..(n - 1)
OBVIOUS

(* The slots on the way of a key, one after the other. *)
LEMMA WayRange ==
  ASSUME NEW n \in Nat \ {0}, NEW k \in Keys, NEW d \in Nat
  PROVE  Mask(Home[k] + d, n) \in 0..(n - 1)
<1>1. Home[k] + d \in Nat
  BY HomeAssumption
<1> QED BY <1>1, MaskRange

LEMMA WayNext ==
  ASSUME NEW n \in Nat \ {0}, NEW k \in Keys, NEW d \in Nat
  PROVE  Mask(Mask(Home[k] + d, n) + 1, n) = Mask(Home[k] + (d + 1), n)
<1>1. Home[k] + d \in Nat /\ (Home[k] + d) + 1 = Home[k] + (d + 1)
  BY HomeAssumption
<1> QED BY <1>1, MaskNext

-----------------------------------------------------------------------------
(* The inductive invariant.  Beside the Robin Hood order it says what holds in
   the middle of a call: while emplace carries an entry, the way to where it is
   now is one a search could go; while erase shifts, the order holds but for
   one hole. *)

Sound(t) == \A i \in Occupied(t) : t[i].key \in Keys

Ordered(t, n) == \A i \in Occupied(t) : Reached(t, n, i, t[i])

ReachedBut(t, n, hole, i, e) ==
  /\ i = Mask(Home[e.key] + e.distance, n)
  /\ \A d \in 0..e.distance :
       Mask(Home[e.key] + d, n) = hole \/ OnTheWay(t, n, e.key, d)

OrderedBut(t, n, hole) ==
  /\ ~t[hole].occupied
  /\ \A i \in Occupied(t) : ReachedBut(t, n, hole, i, t[i])

KnownKeys ==
  /\ Sound(entries)
  /\ Sound(old)
  /\ op.call \in {"insert", "index"} => op.key \in Keys

Parked == pc \in {"idle", "refill"} => idx = 0

Carried ==
  Probing =>
    /\ cur.occupied
    /\ cur.key \in Keys
    /\ idx = Mask(Home[cur.key] + cur.distance, capacity)
    /\ \A d \in 0..(cur.distance - 1) : OnTheWay(entries, capacity, cur.key, d)

Order ==
  /\ pc # "shift" => Ordered(entries, capacity)
  /\ pc = "shift" => OrderedBut(entries, capacity, idx)

IInv == TypeOK /\ Parked /\ KnownKeys /\ Order /\ Carried

-----------------------------------------------------------------------------
(* An entry put down where there was none, or one closer to home, is in
   nobody's way. *)
LEMMA PutKeepsWay ==
  ASSUME NEW n \in Nat \ {0}, NEW t \in [0..(n - 1) -> Entry],
         NEW e \in Entry, e.occupied, NEW i \in 0..(n - 1),
         t[i].occupied => t[i].distance < e.distance,
         NEW k \in Keys, NEW d \in Nat, OnTheWay(t, n, k, d)
  PROVE  OnTheWay([t EXCEPT ![i] = e], n, k, d)
<1> DEFINE u == [t EXCEPT ![i] = e]
           w == Mask(Home[k] + d, n)
<1>1. w \in 0..(n - 1)
  BY WayRange
<1> HIDE DEF w
<1>2. t[w].occupied /\ d <= t[w].distance /\ t[w].distance \in Nat
  BY <1>1 DEF OnTheWay, Entry, w
<1>3. u[w].occupied /\ d <= u[w].distance
  <2>1. CASE w = i
    <3>1. u[w] = e /\ e.distance \in Nat
      BY <1>1, <2>1 DEF Entry
    <3> QED BY <1>2, <2>1, <3>1
  <2>2. CASE w # i
    BY <1>1, <1>2, <2>2
  <2> QED BY <2>1, <2>2
<1> QED BY <1>3 DEF OnTheWay, w

(* Putting an entry down at the end of its way, in a free slot or in the place
   of an entry closer to home, keeps the order. *)
LEMMA PutKeepsOrder ==
  ASSUME NEW n \in Nat \ {0}, NEW t \in [0..(n - 1) -> Entry],
         Sound(t), Ordered(t, n),
         NEW e \in Entry, e.occupied, e.key \in Keys,
         NEW i, i = Mask(Home[e.key] + e.distance, n),
         \A d \in 0..(e.distance - 1) : OnTheWay(t, n, e.key, d),
         t[i].occupied => t[i].distance < e.distance
  PROVE  Ordered([t EXCEPT ![i] = e], n) /\ Sound([t EXCEPT ![i] = e])
<1> DEFINE u == [t EXCEPT ![i] = e]
<1>1. i \in 0..(n - 1) /\ u \in [0..(n - 1) -> Entry]
  BY MaskRange, HomeAssumption DEF Entry
<1>2. ASSUME NEW k \in Keys, NEW d \in Nat, OnTheWay(t, n, k, d)
      PROVE  OnTheWay(u, n, k, d)
  BY <1>1, <1>2, PutKeepsWay
<1>3. ASSUME NEW j \in Occupied(u) PROVE u[j].key \in Keys /\ Reached(u, n, j, u[j])
  <2>1. j \in 0..(n - 1) /\ u[j].occupied
    BY <1>1 DEF Occupied
  <2>2. CASE j = i
    <3>1. u[j] = e
      BY <1>1, <2>2
    <3> HIDE DEF u
    <3>2. ASSUME NEW d \in 0..e.distance PROVE OnTheWay(u, n, e.key, d)
      <4>1. CASE d < e.distance
        BY <1>2, <4>1 DEF Entry
      <4>2. CASE d = e.distance
        BY <1>1, <2>2, <3>1, <4>2 DEF OnTheWay, Entry
      <4> QED BY <4>1, <4>2 DEF Entry
    <3> QED BY <2>2, <3>1, <3>2 DEF Reached
  <2>3. CASE j # i
    <3>1. u[j] = t[j] /\ j \in Occupied(t)
      BY <1>1, <2>1, <2>3 DEF Occupied
    <3>2. t[j].key \in Keys /\ Reached(t, n, j, t[j]) /\ t[j] \in Entry
      BY <2>1, <3>1 DEF Sound, Ordered
    <3> HIDE DEF u
    <3>3. ASSUME NEW d \in 0..(t[j].distance) PROVE OnTheWay(u, n, t[j].key, d)
      BY <1>2, <3>2 DEF Reached, Entry
    <3> QED BY <3>1, <3>2, <3>3 DEF Reached
  <2> QED BY <2>2, <2>3
<1> QED BY <1>3 DEF Ordered, Sound

(* Taking an entry out leaves the order with a hole. *)
LEMMA FreeLeavesHole ==
  ASSUME NEW n \in Nat \ {0}, NEW t \in [0..(n - 1) -> Entry],
         Sound(t), Ordered(t, n), NEW i \in 0..(n - 1)
  PROVE  OrderedBut([t EXCEPT ![i] = Fresh], n, i) /\ Sound([t EXCEPT ![i] = Fresh])
<1> DEFINE u == [t EXCEPT ![i] = Fresh]
<1>1. u \in [0..(n - 1) -> Entry] /\ u[i] = Fresh
  BY DefaultAssumption DEF Fresh, Entry
<1>2. \A j \in 0..(n - 1) : j # i => u[j] = t[j]
  OBVIOUS
<1> HIDE DEF u
<1>3. ASSUME NEW j \in Occupied(u)
      PROVE  u[j].key \in Keys /\ ReachedBut(u, n, i, j, u[j])
  <2>1. j \in Occupied(t) /\ j # i /\ u[j] = t[j] /\ t[j] \in Entry
    BY <1>1, <1>2 DEF Occupied, Fresh
  <2>2. t[j].key \in Keys /\ Reached(t, n, j, t[j])
    BY <2>1 DEF Sound, Ordered
  <2>3. ASSUME NEW d \in 0..(t[j].distance)
        PROVE  Mask(Home[t[j].key] + d, n) = i \/ OnTheWay(u, n, t[j].key, d)
    <3> DEFINE w == Mask(Home[t[j].key] + d, n)
    <3>0. d \in Nat
      BY <2>1 DEF Entry
    <3>1. w \in 0..(n - 1)
      BY <2>2, <3>0, WayRange
    <3>2. t[w].occupied /\ t[w].distance >= d
      BY <2>2 DEF Reached, OnTheWay
    <3>3. w # i => u[w].occupied /\ u[w].distance >= d
      BY <1>2, <3>1, <3>2
    <3> QED BY <3>3 DEF OnTheWay
  <2> QED BY <2>1, <2>2, <2>3 DEF Reached, ReachedBut
<1> QED BY <1>1, <1>3 DEF OrderedBut, Sound, Fresh, u

(* Where the way of an entry passes the hole, its next step is the slot behind
   the hole. *)
LEMMA BehindHole ==
  ASSUME NEW n \in Nat \ {0}, NEW t \in [0..(n - 1) -> Entry],
         NEW h \in 0..(n - 1), OrderedBut(t, n, h), Sound(t),
         NEW j \in Occupied(t), NEW d \in 0..(t[j].distance),
         Mask(Home[t[j].key] + d, n) = h
  PROVE  /\ Mask(h + 1, n) # h
         /\ t[Mask(h + 1, n)].occupied
         /\ t[Mask(h + 1, n)].distance >= d + 1
<1> DEFINE k == t[j].key
           next == Mask(h + 1, n)
<1>1. j \in 0..(n - 1) /\ t[j].occupied /\ k \in Keys /\ t[j].distance \in Nat
  BY DEF Occupied, Sound, Entry
<1>2. ReachedBut(t, n, h, j, t[j]) /\ j # h
  BY <1>1 DEF OrderedBut
<1>3. d # t[j].distance
  BY <1>2 DEF ReachedBut
<1>4. d + 1 \in 0..(t[j].distance) /\ d \in Nat /\ Home[k] \in Nat
  BY <1>1, <1>3, HomeAssumption
<1>5. Mask(Home[k] + (d + 1), n) = next
  <2>1. Mask(Mask(Home[k] + d, n) + 1, n) = Mask(Home[k] + (d + 1), n)
    BY <1>1, <1>4, WayNext
  <2> QED BY <2>1
<1>6. next # h
  BY <1>1, <1>2, MaskSucc
<1>7. OnTheWay(t, n, k, d + 1)
  BY <1>2, <1>4, <1>5, <1>6 DEF ReachedBut
<1> QED BY <1>5, <1>6, <1>7 DEF OnTheWay

(* The hole needs no filling once nothing behind it is away from home. *)
LEMMA HoleCloses ==
  ASSUME NEW n \in Nat \ {0}, NEW t \in [0..(n - 1) -> Entry],
         NEW h \in 0..(n - 1), OrderedBut(t, n, h), Sound(t),
         t[Mask(h + 1, n)].occupied => t[Mask(h + 1, n)].distance = 0
  PROVE  Ordered(t, n)
<1> SUFFICES ASSUME NEW j \in Occupied(t)
             PROVE  Reached(t, n, j, t[j])
  BY DEF Ordered
<1>1. ReachedBut(t, n, h, j, t[j])
  BY DEF OrderedBut
<1>2. \A d \in 0..(t[j].distance) : Mask(Home[t[j].key] + d, n) # h
  BY BehindHole
<1> QED BY <1>1, <1>2 DEF Reached, ReachedBut

(* Moving the entry behind the hole one slot home moves the hole one slot on. *)
LEMMA ShiftMovesHole ==
  ASSUME NEW n \in Nat \ {0}, NEW t \in [0..(n - 1) -> Entry],
         NEW h \in 0..(n - 1), OrderedBut(t, n, h), Sound(t),
         NEW next \in 0..(n - 1), next = Mask(h + 1, n), t[next].occupied,
         NEW moved \in Entry, moved.occupied, moved.key = t[next].key,
         moved.distance = t[next].distance - 1,
         NEW u \in [0..(n - 1) -> Entry], u[h] = moved, u[next] = Fresh,
         \A w \in 0..(n - 1) : w # h /\ w # next => u[w] = t[w]
  PROVE  OrderedBut(u, n, next) /\ Sound(u)
<1> DEFINE k == t[next].key
<1>1. next # h
  BY DEF OrderedBut
<1>2. /\ moved.occupied /\ moved.key = k
      /\ moved.distance = t[next].distance - 1 /\ moved.distance \in Nat
      /\ t[next].distance \in Nat
  BY <1>1 DEF Entry
<1>3. /\ u[h] = moved /\ u[next] = Fresh
      /\ \A w \in 0..(n - 1) : w # h /\ w # next => u[w] = t[w]
  OBVIOUS
<1>4. next \in Occupied(t) /\ k \in Keys
  BY <1>1 DEF Occupied, Sound
<1> HIDE DEF k
<1>5. ASSUME NEW j \in Occupied(t), NEW d \in 0..(t[j].distance),
             Mask(Home[t[j].key] + d, n) # next
      PROVE  OnTheWay(u, n, t[j].key, d)
  <2> DEFINE w == Mask(Home[t[j].key] + d, n)
  <2>1. t[j] \in Entry /\ t[j].key \in Keys /\ d \in Nat
    BY DEF Occupied, Sound, Entry
  <2>2. w \in 0..(n - 1)
    BY <2>1, WayRange
  <2>3. CASE w = h
    <3>1. t[next].distance >= d + 1
      BY <2>3, BehindHole
    <3>2. u[w].occupied /\ u[w].distance >= d
      BY <1>2, <1>3, <2>1, <2>3, <3>1
    <3> QED BY <3>2 DEF OnTheWay
  <2>4. CASE w # h
    <3>1. t[w].occupied /\ t[w].distance >= d
      BY <2>4 DEF OrderedBut, ReachedBut, OnTheWay
    <3>2. u[w] = t[w]
      BY <1>3, <1>5, <2>2, <2>4
    <3> QED BY <3>1, <3>2 DEF OnTheWay
  <2> QED BY <2>3, <2>4
<1>6. h = Mask(Home[k] + moved.distance, n)
  <2> DEFINE w == Mask(Home[k] + moved.distance, n)
  <2>1. w \in 0..(n - 1)
    BY <1>2, <1>4, WayRange
  <2>2. Mask(w + 1, n) = Mask(Home[k] + (moved.distance + 1), n)
    BY <1>2, <1>4, WayNext
  <2>3. moved.distance + 1 = t[next].distance
    BY <1>2
  <2>4. next = Mask(Home[k] + t[next].distance, n)
    BY <1>4 DEF OrderedBut, ReachedBut, k
  <2>5. Mask(w + 1, n) = Mask(h + 1, n)
    BY <2>2, <2>3, <2>4
  <2> HIDE DEF w
  <2>6. w = h
    BY <2>1, <2>5, MaskSucc
  <2> QED BY <2>6 DEF w
<1>7. ASSUME NEW j \in Occupied(u)
      PROVE  u[j].key \in Keys /\ ReachedBut(u, n, next, j, u[j])
  <2>1. j \in 0..(n - 1) /\ j # next
    BY <1>3 DEF Occupied, Fresh
  <2>2. CASE j = h
    <3>1. \A d \in 0..(moved.distance) :
            Mask(Home[k] + d, n) = next \/ OnTheWay(u, n, k, d)
      BY <1>2, <1>4, <1>5 DEF k
    <3> QED BY <1>2, <1>3, <1>4, <1>6, <2>2, <3>1 DEF ReachedBut
  <2>3. CASE j # h
    <3>1. u[j] = t[j] /\ j \in Occupied(t)
      BY <1>3, <2>1, <2>3 DEF Occupied
    <3>2. t[j].key \in Keys /\ ReachedBut(t, n, h, j, t[j])
      BY <3>1 DEF Sound, OrderedBut
    <3>3. \A d \in 0..(t[j].distance) :
            Mask(Home[t[j].key] + d, n) = next \/ OnTheWay(u, n, t[j].key, d)
      BY <1>5, <3>1
    <3> QED BY <3>1, <3>2, <3>3 DEF ReachedBut
  <2> QED BY <2>2, <2>3
<1> QED BY <1>3, <1>7 DEF OrderedBut, Sound, Fresh

-----------------------------------------------------------------------------
(* What roundUpToPowerOfTwo returns, where there is room for it. *)
LEMMA RoundUpCapacity ==
  ASSUME NEW n, HasRoom(n)
  PROVE  RoundUp(n) \in Capacities
BY DEF HasRoom, RoundUp

LEMMA BlankTable ==
  ASSUME NEW n \in Nat
  PROVE  /\ Blank(n) \in [0..(n - 1) -> Entry]
         /\ Occupied(Blank(n)) = {}
BY DefaultAssumption DEF Blank, Fresh, Entry, Occupied

LEMMA CapacityRange ==
  ASSUME NEW n \in Capacities
  PROVE  n \in Nat \ {0}
<1>1. n \in 1..MaxCapacity
  BY CapacitiesAssumption
<1> QED BY <1>1, SMTT(20) DEF MaxCapacity

THEOREM InitInvariant == Init => IInv
<1> SUFFICES ASSUME Init PROVE IInv
  OBVIOUS
<1>1. capacity \in Capacities
  BY RoundUpCapacity DEF Init
<1>2. /\ entries \in [0..(capacity - 1) -> Entry]
      /\ Occupied(entries) = {}
      /\ old \in [0..(0 - 1) -> Entry]
      /\ Occupied(old) = {}
  BY <1>1, CapacityRange, BlankTable DEF Init
<1>3. TypeOK
  <2>1. \E n \in Capacities \cup {0} : old \in [0..(n - 1) -> Entry] /\ pos \in 0..n
    BY <1>2 DEF Init
  <2>2. op \in Calls /\ cur \in Entry
    BY DefaultAssumption DEF Init, NoCall, Call, Calls, Fresh, Entry
  <2> QED BY <1>1, <1>2, <2>1, <2>2, CapacityRange DEF Init, TypeOK
<1>4. KnownKeys
  BY <1>2 DEF Init, KnownKeys, Sound, NoCall, Call
<1>5. Order
  BY <1>2 DEF Init, Order, Ordered
<1>6. Carried
  BY DEF Init, Carried, Probing
<1>7. Parked
  BY DEF Init, Parked
<1> QED BY <1>3, <1>4, <1>5, <1>6, <1>7 DEF IInv

(* rehash, wherever it is called from, starts over with an empty table. *)
LEMMA StartRehashInvariant ==
  ASSUME IInv, pc = "idle", NEW n, StartRehash(n), load' \in Loads, op' \in Calls,
         op'.call \in {"insert", "index"} => op'.key \in Keys
  PROVE  IInv'
<1>1. capacity' \in Capacities
  BY RoundUpCapacity DEF StartRehash
<1>2. /\ entries' \in [0..(capacity' - 1) -> Entry]
      /\ Occupied(entries') = {}
  BY <1>1, CapacityRange, BlankTable DEF StartRehash
<1>3. idx' = 0
  BY DEF IInv, Parked, StartRehash
<1>4. TypeOK'
  <2>1. old' \in [0..(capacity - 1) -> Entry] /\ pos' \in 0..capacity
    BY CapacityRange DEF StartRehash, IInv, TypeOK
  <2>2. capacity \in Capacities \cup {0}
    BY DEF IInv, TypeOK
  <2>3. \E m \in Capacities \cup {0} : old' \in [0..(m - 1) -> Entry] /\ pos' \in 0..m
    BY <2>1, <2>2
  <2>4. idx' \in 0..(capacity' - 1)
    <3>1. capacity' \in Nat \ {0}
      BY <1>1, CapacityRange
    <3>2. 0 \in 0..(capacity' - 1)
      BY <3>1, FirstSlot
    <3> QED BY <1>3, <3>2
  <2>5. threshold' = Threshold(capacity', load') /\ size' \in Nat /\ pc' = "refill"
    BY DEF StartRehash
  <2>6. cur' \in Entry /\ key' \in Keys \cup {DefaultKey}
    BY DEF StartRehash, IInv, TypeOK
  <2> QED BY <1>1, <1>2, <2>3, <2>4, <2>5, <2>6 DEF TypeOK
<1>5. KnownKeys'
  BY <1>2 DEF StartRehash, KnownKeys, Sound, IInv
<1>6. Order'
  BY <1>2 DEF StartRehash, Order, Ordered
<1>7. Carried' /\ Parked'
  BY <1>3 DEF StartRehash, Carried, Parked, Probing
<1> QED BY <1>4, <1>5, <1>6, <1>7 DEF IInv

(* What find_index finds is a slot of the table. *)
LEMMA FindIndexSlot ==
  ASSUME TypeOK, NEW k \in Keys, FindIndex(entries, size, k) # NoSlot
  PROVE  FindIndex(entries, size, k) \in 0..(capacity - 1) /\ size # 0
<1> DEFINE slot(d) == Mask(Home[k] + d, capacity)
           hits == {d \in 0..capacity :
                      /\ OnTheWay(entries, capacity, k, d)
                      /\ entries[slot(d)].key = k
                      /\ \A c \in 0..(d - 1) : /\ OnTheWay(entries, capacity, k, c)
                                              /\ entries[slot(c)].key # k}
<1>1. capacity \in Nat \ {0}
  BY CapacityRange DEF TypeOK
<1>2. size # 0 /\ hits # {} /\ FindIndex(entries, size, k)
                                      = slot(CHOOSE d \in hits : TRUE)
  BY DEF FindIndex
<1>3. (CHOOSE d \in hits : TRUE) \in 0..capacity
  BY <1>2
<1>4. (CHOOSE d \in hits : TRUE) \in Nat
  BY <1>1, <1>3
<1> HIDE DEF hits
<1>5. slot(CHOOSE d \in hits : TRUE) \in 0..(capacity - 1)
  BY <1>1, <1>4, WayRange
<1> QED BY <1>2, <1>5

(* A step that leaves the table and the call alone, but perhaps not the load
   factor. *)
LEMMA QuietInvariant ==
  ASSUME IInv, load' \in Loads, threshold' = Threshold(capacity, load'),
         UNCHANGED <<entries, size, capacity, pc, op, cur, key, idx, old, pos>>
  PROVE  IInv'
<1>1. TypeOK'
  BY DEF IInv, TypeOK
<1>2. Parked' /\ KnownKeys'
  BY DEF IInv, Parked, KnownKeys
<1>3. Order'
  BY DEF IInv, Order, Ordered, OrderedBut, Reached, ReachedBut, OnTheWay
<1>4. Carried'
  BY DEF IInv, Carried, Probing, OnTheWay
<1> QED BY <1>1, <1>2, <1>3, <1>4 DEF IInv

(* emplace starts with its entry at home: there is no way to check yet. *)
LEMMA StartProbeInvariant ==
  ASSUME IInv, pc # "shift", NEW k \in Keys, NEW v \in Values,
         NEW loop \in {"insert", "reinsert"}, StartProbe(k, v, loop),
         UNCHANGED <<entries, size, capacity, load, threshold>>,
         op' \in Calls, op'.call \in {"insert", "index"} => op'.key \in Keys,
         \E n \in Capacities \cup {0} : old' \in [0..(n - 1) -> Entry] /\ pos' \in 0..n,
         Sound(old')
  PROVE  IInv'
<1>1. capacity \in Nat \ {0} /\ Home[k] \in Nat
  BY CapacityRange, HomeAssumption DEF IInv, TypeOK
<1>2. cur' \in Entry /\ cur'.occupied /\ cur'.key = k /\ cur'.distance = 0
  BY DEF StartProbe, NewEntry, Entry
<1>3. idx' = Mask(Home[k], capacity) /\ idx' \in 0..(capacity - 1)
  BY <1>1, MaskRange DEF StartProbe
<1>4. TypeOK'
  BY <1>2, <1>3 DEF IInv, TypeOK, StartProbe
<1>5. KnownKeys'
  BY DEF IInv, KnownKeys
<1>6. Order'
  BY DEF IInv, Order, Ordered, Reached, OnTheWay, StartProbe
<1>7. Carried'
  <2>1. Home[k] + 0 = Home[k]
    BY <1>1
  <2> QED BY <1>2, <1>3, <2>1 DEF Carried
<1>8. Parked'
  BY DEF StartProbe, Parked
<1> QED BY <1>4, <1>5, <1>6, <1>7, <1>8 DEF IInv

-----------------------------------------------------------------------------
(* One lemma for each action. *)
LEMMA StartEmplaceInvariant ==
  ASSUME IInv, pc = "idle", NEW k \in Keys, NEW v \in Values, StartEmplace(k, v),
         UNCHANGED load, op' \in Calls, op'.key \in Keys
  PROVE  IInv'
<1>1. load' \in Loads
  BY DEF IInv, TypeOK
<1>2. CASE StartRehash(capacity * 2)
  BY <1>1, <1>2, StartRehashInvariant
<1>3. CASE /\ StartProbe(k, v, "insert")
           /\ UNCHANGED <<entries, size, capacity, threshold, old, pos, ret>>
  <2>1. \E n \in Capacities \cup {0} : old' \in [0..(n - 1) -> Entry] /\ pos' \in 0..n
    BY <1>3 DEF IInv, TypeOK
  <2>2. Sound(old')
    BY <1>3 DEF IInv, KnownKeys
  <2> QED BY <1>3, <2>1, <2>2, StartProbeInvariant
<1> QED BY <1>2, <1>3 DEF StartEmplace

LEMMA CallInsertInvariant ==
  ASSUME IInv, NEW k \in Keys, NEW v \in Values, CallInsert(k, v)
  PROVE  IInv'
<1>1. op' \in Calls /\ op'.key \in Keys
  BY DEF CallInsert, Call, Calls
<1> QED BY <1>1, StartEmplaceInvariant DEF CallInsert

LEMMA CallIndexInvariant ==
  ASSUME IInv, NEW k \in Keys, CallIndex(k)
  PROVE  IInv'
<1>1. CASE op' = Call("index", k, DefaultValue) /\ StartEmplace(k, DefaultValue)
  <2>1. op' \in Calls /\ op'.key \in Keys
    BY <1>1, DefaultAssumption DEF Call, Calls
  <2> QED BY <1>1, <2>1, DefaultAssumption, StartEmplaceInvariant DEF CallIndex
<1>2. CASE UNCHANGED <<entries, size, capacity, threshold,
                       pc, op, cur, key, idx, old, pos>>
  BY <1>2, QuietInvariant DEF CallIndex, IInv, TypeOK
<1> QED BY <1>1, <1>2 DEF CallIndex

LEMMA CallGetInvariant ==
  ASSUME IInv, NEW k \in Keys, CallGet(k)
  PROVE  IInv'
BY QuietInvariant DEF CallGet, IInv, TypeOK

(* emplace returns: nothing is carried any more. *)
LEMMA ReturnEmplaceInvariant ==
  ASSUME IInv, Probing, NEW answer, ReturnEmplace(answer),
         entries' \in [0..(capacity - 1) -> Entry], size' \in Nat,
         Ordered(entries', capacity), Sound(entries')
  PROVE  IInv'
<1>1. capacity' = capacity /\ capacity \in Nat \ {0}
  BY CapacityRange DEF ReturnEmplace, IInv, TypeOK
<1>2. pc' \in {"idle", "refill"} /\ idx' = 0 /\ cur' = Fresh /\ key' = DefaultKey
  BY DEF ReturnEmplace
<1>3. op' \in Calls /\ (op'.call \in {"insert", "index"} => op'.key \in Keys)
  BY DefaultAssumption DEF ReturnEmplace, IInv, TypeOK, KnownKeys, NoCall, Call, Calls
<1>4. cur' \in Entry
  BY <1>2, DefaultAssumption DEF Fresh, Entry
<1>5. TypeOK'
  <2>1. UNCHANGED <<load, threshold, old, pos>>
    BY DEF ReturnEmplace
  <2>2. idx' \in 0..(capacity' - 1)
    BY <1>1, <1>2, FirstSlot
  <2>3. \E n \in Capacities \cup {0} : old' \in [0..(n - 1) -> Entry] /\ pos' \in 0..n
    BY <2>1 DEF IInv, TypeOK
  <2> QED BY <1>1, <1>2, <1>3, <1>4, <2>1, <2>2, <2>3 DEF IInv, TypeOK
<1>6. KnownKeys'
  BY <1>3 DEF ReturnEmplace, IInv, KnownKeys
<1>7. Order'
  BY <1>1, <1>2 DEF Order
<1>8. Carried' /\ Parked'
  BY <1>2 DEF Carried, Parked, Probing
<1> QED BY <1>5, <1>6, <1>7, <1>8 DEF IInv

LEMMA PlaceInvariant ==
  ASSUME IInv, Place
  PROVE  IInv'
<1>1. capacity \in Nat \ {0}
  BY CapacityRange DEF IInv, TypeOK
<1>2. /\ entries \in [0..(capacity - 1) -> Entry] /\ cur \in Entry
      /\ idx \in 0..(capacity - 1)
  BY DEF IInv, TypeOK
<1>3. Sound(entries) /\ Ordered(entries, capacity)
  BY DEF IInv, KnownKeys, Order, Place, Probing
<1>4. /\ cur.occupied /\ cur.key \in Keys
      /\ idx = Mask(Home[cur.key] + cur.distance, capacity)
      /\ \A d \in 0..(cur.distance - 1) : OnTheWay(entries, capacity, cur.key, d)
  BY DEF IInv, Carried, Place
<1>5. entries' = [entries EXCEPT ![idx] = cur] /\ ~entries[idx].occupied
  BY DEF Place
<1>6. Ordered(entries', capacity) /\ Sound(entries')
  BY <1>1, <1>2, <1>3, <1>4, <1>5, PutKeepsOrder
<1>7. entries' \in [0..(capacity - 1) -> Entry] /\ size' \in Nat
  BY <1>2, <1>5 DEF Place, IInv, TypeOK
<1> QED BY <1>6, <1>7, ReturnEmplaceInvariant DEF Place

LEMMA RefuseInvariant ==
  ASSUME IInv, Refuse
  PROVE  IInv'
<1>1. Sound(entries') /\ Ordered(entries', capacity)
  BY DEF IInv, KnownKeys, Order, Refuse, Probing
<1>2. entries' \in [0..(capacity - 1) -> Entry] /\ size' \in Nat
  BY DEF IInv, TypeOK, Refuse
<1> QED BY <1>1, <1>2, ReturnEmplaceInvariant DEF Refuse

(* After a swap the entry taken out goes on from where it was, which it had
   reached in its own right. *)
LEMMA AdvanceInvariant ==
  ASSUME IInv, Advance
  PROVE  IInv'
<1> DEFINE e == entries[idx]
           richer == cur.distance > e.distance
           carried == IF richer THEN e ELSE cur
<1>1. capacity \in Nat \ {0}
  BY CapacityRange DEF IInv, TypeOK
<1>2. /\ entries \in [0..(capacity - 1) -> Entry] /\ cur \in Entry
      /\ idx \in 0..(capacity - 1) /\ e \in Entry /\ e.occupied
  BY DEF IInv, TypeOK, Advance
<1>3. Sound(entries) /\ Ordered(entries, capacity)
  BY DEF IInv, KnownKeys, Order, Advance, Probing
<1>4. /\ cur.occupied /\ cur.key \in Keys
      /\ idx = Mask(Home[cur.key] + cur.distance, capacity)
      /\ \A d \in 0..(cur.distance - 1) : OnTheWay(entries, capacity, cur.key, d)
  BY DEF IInv, Carried, Advance
<1>5. /\ entries' = IF richer THEN [entries EXCEPT ![idx] = cur] ELSE entries
      /\ cur' = [carried EXCEPT !.distance = @ + 1]
      /\ idx' = Mask(idx + 1, capacity)
      /\ UNCHANGED <<size, capacity, load, threshold, pc, op, key, old, pos, ret>>
  BY DEF Advance, Displaces
<1>6. e.key \in Keys /\ Reached(entries, capacity, idx, e)
  BY <1>2, <1>3 DEF Sound, Ordered, Occupied
<1>7. cur.distance \in Nat /\ e.distance \in Nat
  BY <1>2 DEF Entry
<1>8. /\ carried \in Entry /\ carried.occupied /\ carried.key \in Keys
      /\ idx = Mask(Home[carried.key] + carried.distance, capacity)
      /\ \A d \in 0..(carried.distance) : OnTheWay(entries, capacity, carried.key, d)
  <2>1. CASE richer
    BY <1>2, <1>6, <2>1 DEF Reached
  <2>2. CASE ~richer
    <3>1. OnTheWay(entries, capacity, cur.key, cur.distance)
      BY <1>2, <1>4, <1>7, <2>2 DEF OnTheWay
    <3> QED BY <1>2, <1>4, <1>7, <2>2, <3>1
  <2> QED BY <2>1, <2>2
<1>9. /\ Sound(entries') /\ Ordered(entries', capacity)
      /\ entries' \in [0..(capacity - 1) -> Entry]
      /\ \A k \in Keys : \A d \in Nat :
           OnTheWay(entries, capacity, k, d) => OnTheWay(entries', capacity, k, d)
  <2>1. CASE richer
    <3>1. entries' = [entries EXCEPT ![idx] = cur] /\ e.distance < cur.distance
      BY <1>5, <1>7, <2>1
    <3>2. Ordered(entries', capacity) /\ Sound(entries')
      BY <1>1, <1>2, <1>3, <1>4, <3>1, PutKeepsOrder
    <3>3. \A k \in Keys : \A d \in Nat :
            OnTheWay(entries, capacity, k, d) => OnTheWay(entries', capacity, k, d)
      BY <1>1, <1>2, <1>4, <3>1, PutKeepsWay
    <3> QED BY <1>2, <3>1, <3>2, <3>3
  <2>2. CASE ~richer
    BY <1>2, <1>3, <1>5, <2>2
  <2> QED BY <2>1, <2>2
<1> HIDE DEF carried
<1>10. /\ cur' \in Entry /\ cur'.occupied /\ cur'.key = carried.key
       /\ cur'.distance = carried.distance + 1 /\ carried.distance \in Nat
  BY <1>5, <1>8 DEF Entry
<1>11. idx' = Mask(Home[cur'.key] + cur'.distance, capacity)
  BY <1>1, <1>5, <1>8, <1>10, WayNext
<1>12. idx' \in 0..(capacity - 1)
  BY <1>1, <1>8, <1>10, <1>11, WayRange
<1>13. TypeOK'
  BY <1>5, <1>9, <1>10, <1>12 DEF IInv, TypeOK
<1>14. KnownKeys'
  BY <1>5, <1>9 DEF IInv, KnownKeys
<1>15. Order' /\ Parked'
  BY <1>5, <1>9 DEF Order, Parked, Advance, Probing
<1>16. Carried'
  <2>1. \A d \in 0..(cur'.distance - 1) : OnTheWay(entries', capacity, cur'.key, d)
    BY <1>8, <1>9, <1>10
  <2> QED BY <1>5, <1>8, <1>10, <1>11, <2>1 DEF Carried
<1> QED BY <1>13, <1>14, <1>15, <1>16 DEF IInv

LEMMA RefillInvariant ==
  ASSUME IInv, Refill
  PROVE  IInv'
<1>1. PICK n \in Capacities \cup {0} : old \in [0..(n - 1) -> Entry] /\ pos \in 0..n
  BY DEF IInv, TypeOK
<1>2. PICK i \in Occupied(old) :
        pos' = i + 1 /\ StartProbe(old[i].key, old[i].value, "reinsert")
  BY DEF Refill
<1>3. i \in 0..(n - 1) /\ old[i].key \in Keys /\ old[i].value \in Values
  BY <1>1, <1>2 DEF IInv, KnownKeys, Sound, Occupied, Entry
<1>4. n \in Nat
  BY CapacityRange
<1>5. \E m \in Capacities \cup {0} : old' \in [0..(m - 1) -> Entry] /\ pos' \in 0..m
  BY <1>1, <1>2, <1>3, <1>4 DEF Refill
<1>6. op' \in Calls /\ (op'.call \in {"insert", "index"} => op'.key \in Keys) /\ Sound(old')
  BY DEF Refill, IInv, TypeOK, KnownKeys
<1> QED BY <1>2, <1>3, <1>5, <1>6, StartProbeInvariant DEF Refill

LEMMA EndRehashInvariant ==
  ASSUME IInv, EndRehash
  PROVE  IInv'
<1>1. /\ old' \in [0..(0 - 1) -> Entry] /\ pos' \in 0..0 /\ Sound(old')
      /\ \E m \in Capacities \cup {0} : old' \in [0..(m - 1) -> Entry] /\ pos' \in 0..m
  <2>1. old' \in [0..(0 - 1) -> Entry] /\ Occupied(old') = {} /\ pos' = 0
    BY BlankTable DEF EndRehash
  <2> QED BY <2>1 DEF Sound
<1>2. CASE /\ op.call \in {"insert", "index"}
           /\ StartProbe(op.key, op.value, "insert")
           /\ UNCHANGED <<op, ret>>
  <2>1. op \in Calls /\ op.key \in Keys /\ op.value \in Values
    BY <1>2 DEF IInv, TypeOK, KnownKeys, Calls
  <2> QED BY <1>1, <1>2, <2>1, StartProbeInvariant DEF EndRehash
<1>3. CASE /\ pc' = "idle"
           /\ op' = NoCall
           /\ UNCHANGED <<cur, key, idx>>
  <2>1. op' \in Calls /\ op'.call = "none"
    BY <1>3, DefaultAssumption DEF NoCall, Call, Calls
  <2>2. TypeOK'
    BY <1>1, <1>3, <2>1 DEF EndRehash, IInv, TypeOK
  <2>3. KnownKeys'
    BY <1>1, <2>1 DEF EndRehash, IInv, KnownKeys
  <2>4. Order'
    BY <1>3 DEF EndRehash, IInv, Order, Ordered, Reached, OnTheWay
  <2>5. Carried' /\ Parked'
    BY <1>3 DEF Carried, Parked, Probing, EndRehash, IInv
  <2> QED BY <2>2, <2>3, <2>4, <2>5 DEF IInv
<1> QED BY <1>2, <1>3 DEF EndRehash

LEMMA CallEraseInvariant ==
  ASSUME IInv, NEW k \in Keys, CallErase(k)
  PROVE  IInv'
<1> DEFINE i == FindIndex(entries, size, k)
<1>1. CASE i = NoSlot
  <2>1. UNCHANGED <<entries, size, capacity, load, threshold, pc, op, cur, key, idx, old, pos>>
    BY <1>1 DEF CallErase
  <2> QED BY <2>1, QuietInvariant DEF IInv, TypeOK
<1>2. CASE i # NoSlot
  <2>1. capacity \in Nat \ {0} /\ i \in 0..(capacity - 1) /\ size # 0
    BY <1>2, CapacityRange, FindIndexSlot DEF IInv, TypeOK
  <2> HIDE DEF i
  <2>2. /\ entries' = [entries EXCEPT ![i] = Fresh]
        /\ size' = size - 1
        /\ op' = Call("erase", k, DefaultValue)
        /\ idx' = i
        /\ pc' = "shift"
        /\ UNCHANGED <<capacity, load, threshold, cur, key, old, pos>>
    BY <1>2 DEF CallErase, i
  <2>3. entries \in [0..(capacity - 1) -> Entry]
    BY DEF IInv, TypeOK
  <2>4. Sound(entries) /\ Ordered(entries, capacity)
    BY DEF IInv, KnownKeys, Order, CallErase
  <2>5. OrderedBut(entries', capacity, i) /\ Sound(entries')
    BY <2>1, <2>2, <2>3, <2>4, FreeLeavesHole
  <2>6. entries' \in [0..(capacity - 1) -> Entry]
    BY <2>2, <2>3, DefaultAssumption DEF Fresh, Entry
  <2>7. op' \in Calls /\ op'.call = "erase"
    BY <2>2, DefaultAssumption DEF Call, Calls
  <2>8. TypeOK'
    BY <2>1, <2>2, <2>6, <2>7 DEF IInv, TypeOK
  <2>9. KnownKeys'
    BY <2>2, <2>5, <2>7 DEF IInv, KnownKeys
  <2>10. Order' /\ Carried' /\ Parked'
    BY <2>2, <2>5 DEF Order, Carried, Parked, Probing
  <2> QED BY <2>8, <2>9, <2>10 DEF IInv
<1> QED BY <1>1, <1>2

LEMMA ShiftInvariant ==
  ASSUME IInv, Shift
  PROVE  IInv'
<1> DEFINE next == Mask(idx + 1, capacity)
           moved == CloserHome(entries[next])
<1>1. /\ capacity \in Nat \ {0} /\ idx \in 0..(capacity - 1)
      /\ entries \in [0..(capacity - 1) -> Entry]
  BY CapacityRange DEF IInv, TypeOK
<1>2. OrderedBut(entries, capacity, idx) /\ Sound(entries)
  BY DEF IInv, Order, KnownKeys, Shift
<1>3. next \in 0..(capacity - 1)
  BY <1>1, MaskRange
<1>4. UNCHANGED <<size, capacity, load, threshold, cur, key, old, pos>>
  BY DEF Shift
<1>5. CASE /\ MovesUp(entries[next])
           /\ entries' = [entries EXCEPT ![idx] = moved, ![next] = Fresh]
           /\ idx' = next
           /\ UNCHANGED <<pc, op>>
  <2>1. next # idx
    BY <1>2, <1>5 DEF OrderedBut, MovesUp
  <2>2. entries[next] \in Entry
    BY <1>1, <1>3
  <2> HIDE DEF next
  <2>3. /\ moved \in Entry /\ moved.occupied /\ moved.key = entries[next].key
        /\ moved.distance = entries[next].distance - 1
    BY <1>5, <2>2 DEF Entry, CloserHome, MovesUp
  <2> HIDE DEF moved
  <2>4. Fresh \in Entry
    BY DefaultAssumption DEF Fresh, Entry
  <2>5. /\ entries' \in [0..(capacity - 1) -> Entry]
        /\ entries'[idx] = moved /\ entries'[next] = Fresh
        /\ \A w \in 0..(capacity - 1) : w # idx /\ w # next => entries'[w] = entries[w]
    BY <1>1, <1>3, <1>5, <2>1, <2>3, <2>4
  <2>6. next = Mask(idx + 1, capacity)
    BY DEF next
  <2>7. OrderedBut(entries', capacity, next) /\ Sound(entries')
    <3>1. next \in 0..(capacity - 1) /\ entries[next].occupied
      BY <1>3, <1>5 DEF next, MovesUp
    <3> QED BY <1>1, <1>2, <2>3, <2>5, <2>6, <3>1, ShiftMovesHole
  <2>8. TypeOK'
    BY <1>3, <1>4, <1>5, <2>5 DEF IInv, TypeOK
  <2>9. KnownKeys'
    BY <1>4, <1>5, <2>7 DEF IInv, KnownKeys
  <2>10. Order' /\ Carried' /\ Parked'
    BY <1>4, <1>5, <2>7 DEF Order, Carried, Parked, Probing, Shift
  <2> QED BY <2>8, <2>9, <2>10 DEF IInv
<1>6. CASE /\ ~MovesUp(entries[next])
           /\ pc' = "idle"
           /\ op' = NoCall
           /\ idx' = 0
           /\ UNCHANGED entries
  <2>1. Ordered(entries, capacity)
    <3>1. entries[next].occupied => entries[next].distance = 0
      BY <1>1, <1>3, <1>6 DEF MovesUp, Entry
    <3> QED BY <1>1, <1>2, <3>1, HoleCloses
  <2>2. op' \in Calls /\ op'.call = "none"
    BY <1>6, DefaultAssumption DEF NoCall, Call, Calls
  <2>3. 0 \in 0..(capacity - 1)
    BY <1>1, FirstSlot
  <2>4. TypeOK'
    BY <1>4, <1>6, <2>2, <2>3 DEF IInv, TypeOK
  <2>5. KnownKeys'
    BY <1>4, <1>6, <2>2 DEF IInv, KnownKeys
  <2>6. Order'
    BY <1>4, <1>6, <2>1 DEF Order
  <2>7. Carried' /\ Parked'
    BY <1>6 DEF Carried, Parked, Probing
  <2> QED BY <2>4, <2>5, <2>6, <2>7 DEF IInv
<1> QED BY <1>5, <1>6 DEF Shift

LEMMA CallClearInvariant ==
  ASSUME IInv, CallClear
  PROVE  IInv'
<1>1. /\ entries' \in [0..(capacity - 1) -> Entry]
      /\ Occupied(entries') = {}
  BY CapacityRange, BlankTable DEF CallClear, IInv, TypeOK
<1>2. TypeOK'
  BY <1>1 DEF CallClear, IInv, TypeOK
<1>3. KnownKeys' /\ Parked'
  BY <1>1 DEF CallClear, IInv, KnownKeys, Parked, Sound
<1>4. Order' /\ Carried'
  BY <1>1 DEF CallClear, Order, Ordered, Carried, Probing
<1> QED BY <1>2, <1>3, <1>4 DEF IInv

(* rehash from outside. *)
LEMMA TuneInvariant ==
  ASSUME IInv, BeginTune, NEW n, StartRehash(n), load' \in Loads
  PROVE  IInv'
<1>1. op' \in Calls /\ op'.call = "tune"
  BY DefaultAssumption DEF BeginTune, Call, Calls
<1> QED BY <1>1, StartRehashInvariant DEF BeginTune

LEMMA TuningInvariant ==
  ASSUME IInv,
         \/ \E n \in Requests : CallRehash(n) \/ CallReserve(n)
         \/ \E l \in Loads : CallMaxLoadFactor(l)
  PROVE  IInv'
<1>1. ASSUME NEW n \in Requests, CallRehash(n) PROVE IInv'
  BY <1>1, TuneInvariant DEF CallRehash, IInv, TypeOK
<1>2. ASSUME NEW n \in Requests, CallReserve(n) PROVE IInv'
  <2>1. load' \in Loads /\ threshold = Threshold(capacity, load')
    BY <1>2 DEF CallReserve, IInv, TypeOK
  <2>2. CASE BeginTune /\ StartRehash(Required(n))
    BY <2>1, <2>2, TuneInvariant
  <2>3. CASE NothingToTune /\ UNCHANGED threshold
    BY <2>1, <2>3, QuietInvariant DEF NothingToTune
  <2> QED BY <1>2, <2>2, <2>3 DEF CallReserve
<1>3. ASSUME NEW l \in Loads, CallMaxLoadFactor(l) PROVE IInv'
  <2>1. load' \in Loads /\ load' = l
    BY <1>3 DEF CallMaxLoadFactor
  <2>2. CASE BeginTune /\ StartRehash(capacity * 2)
    BY <2>1, <2>2, TuneInvariant
  <2>3. CASE NothingToTune /\ threshold' = Threshold(capacity, l)
    BY <2>1, <2>3, QuietInvariant DEF NothingToTune
  <2> QED BY <1>3, <2>2, <2>3 DEF CallMaxLoadFactor
<1> QED BY <1>1, <1>2, <1>3

-----------------------------------------------------------------------------
LEMMA StepInvariant ==
  ASSUME IInv, [Next]_vars
  PROVE  IInv'
<1>1. CASE Loop
  BY <1>1, PlaceInvariant, RefuseInvariant, AdvanceInvariant, RefillInvariant,
     EndRehashInvariant, ShiftInvariant DEF Loop
<1>2. CASE UNCHANGED vars
  BY <1>2, QuietInvariant DEF vars, IInv, TypeOK
<1>3. CASE CallClear
  BY <1>3, CallClearInvariant
<1>4. ASSUME NEW k \in Keys,
             \/ \E v \in Values : CallInsert(k, v)
             \/ CallIndex(k) \/ CallGet(k) \/ CallErase(k)
      PROVE  IInv'
  BY <1>4, CallInsertInvariant, CallIndexInvariant, CallGetInvariant, CallEraseInvariant
<1> QED BY <1>1, <1>2, <1>3, <1>4, TuningInvariant DEF Next

(* Every reachable state satisfies the inductive invariant. *)
THEOREM Invariance == Spec => []IInv
BY InitInvariant, StepInvariant, PTL DEF Spec

(* The capacity of a table of any size stays a power of two with as many slots,
   and every index of every loop of emplace, erase and rehash is inside it. *)
THEOREM TypeCorrect == Spec => []TypeOK
<1>1. IInv => TypeOK
  BY DEF IInv
<1> QED BY <1>1, Invariance, PTL

(* The Robin Hood order holds in every table: what find_index relies on to give
   up survives swapping, shifting, growing and clearing. *)
THEOREM RobinHoodKept == Spec => []RobinHood
<1>1. IInv => RobinHood
  BY DEF IInv, Order, Ordered, RobinHood
<1> QED BY <1>1, Invariance, PTL

-----------------------------------------------------------------------------
(* The inductive invariant, on top of IInv.  A key that is being inserted may
   well be in the table: what keeps it from getting there twice is that emplace
   has passed no slot that holds it.  An entry that was swapped out is in the
   table no more, so it may go anywhere. *)

UniqueIn(t) == \A i, j \in Occupied(t) : t[i].key = t[j].key => i = j

Passed ==
  Probing /\ cur.key = key =>
    \A d \in 0..(cur.distance - 1) : entries[Mask(Home[key] + d, capacity)].key # key

TakenOut ==
  Probing /\ cur.key # key =>
    \A i \in Occupied(entries) : entries[i].key # cur.key

Counted == size = Cardinality(Occupied(entries))

UInv == IInv /\ UniqueIn(entries) /\ Passed /\ TakenOut /\ Counted

-----------------------------------------------------------------------------
(* Tables. *)

LEMMA OccupiedFinite ==
  ASSUME NEW n \in Nat, NEW t \in [0..(n - 1) -> Entry]
  PROVE  IsFiniteSet(Occupied(t))
<1>1. IsFiniteSet(0..(n - 1))
  BY FS_Interval
<1>2. Occupied(t) \in SUBSET (0..(n - 1))
  BY DEF Occupied
<1> QED BY <1>1, <1>2, FS_Subset

(* A key none of the slots before distance d holds, on a way that a search
   would not follow beyond d, is not in the table: the Robin Hood order. *)
LEMMA NotPassedNotThere ==
  ASSUME NEW n \in Nat \ {0}, NEW t \in [0..(n - 1) -> Entry], Ordered(t, n),
         NEW k \in Keys, NEW d \in Nat,
         \A c \in 0..(d - 1) : t[Mask(Home[k] + c, n)].key # k,
         ~OnTheWay(t, n, k, d)
  PROVE  \A j \in Occupied(t) : t[j].key # k
<1> SUFFICES ASSUME NEW j \in Occupied(t), t[j].key = k
             PROVE  FALSE
  OBVIOUS
<1>1. t[j].distance \in Nat
  BY DEF Occupied, Entry
<1>2. Reached(t, n, j, t[j])
  BY DEF Ordered
<1>3. CASE t[j].distance < d
  <2>1. t[j].distance \in 0..(d - 1)
    BY <1>1, <1>3
  <2>2. j = Mask(Home[k] + t[j].distance, n)
    BY <1>2 DEF Reached
  <2>3. t[Mask(Home[k] + t[j].distance, n)].key # k
    BY <2>1
  <2> QED BY <2>2, <2>3
<1>4. CASE d <= t[j].distance
  <2>1. d \in 0..(t[j].distance)
    BY <1>1, <1>4
  <2> QED BY <1>2, <2>1 DEF Reached
<1> QED BY <1>1, <1>3, <1>4

LEMMA PutKeepsUnique ==
  ASSUME NEW n \in Nat, NEW t \in [0..(n - 1) -> Entry], UniqueIn(t),
         NEW e \in Entry, NEW i \in 0..(n - 1),
         \A j \in Occupied(t) : t[j].key # e.key
  PROVE  UniqueIn([t EXCEPT ![i] = e])
<1> DEFINE u == [t EXCEPT ![i] = e]
<1>1. u[i] = e /\ \A j \in 0..(n - 1) : j # i => u[j] = t[j]
  OBVIOUS
<1>2. ASSUME NEW j \in Occupied(u), j # i
      PROVE  j \in Occupied(t) /\ u[j] = t[j] /\ u[j].key # e.key
  BY <1>1, <1>2 DEF Occupied
<1> HIDE DEF u
<1>3. UniqueIn(u)
  BY <1>1, <1>2 DEF UniqueIn
<1> QED BY <1>3 DEF u

LEMMA FreeKeepsUnique ==
  ASSUME NEW n \in Nat, NEW t \in [0..(n - 1) -> Entry], UniqueIn(t),
         NEW i \in 0..(n - 1)
  PROVE  UniqueIn([t EXCEPT ![i] = Fresh])
<1> DEFINE u == [t EXCEPT ![i] = Fresh]
<1>1. ASSUME NEW j \in Occupied(u)
      PROVE  j \in Occupied(t) /\ u[j] = t[j]
  BY DEF Occupied, Fresh
<1> HIDE DEF u
<1>2. UniqueIn(u)
  BY <1>1 DEF UniqueIn
<1> QED BY <1>2 DEF u

(* What a shift does: the entry of one slot is in another one now. *)
LEMMA MoveKeepsUnique ==
  ASSUME NEW n \in Nat, NEW t \in [0..(n - 1) -> Entry], UniqueIn(t),
         NEW h \in 0..(n - 1), NEW next \in 0..(n - 1), h # next,
         ~t[h].occupied, t[next].occupied,
         NEW u \in [0..(n - 1) -> Entry],
         u[h].occupied, u[h].key = t[next].key, ~u[next].occupied,
         \A w \in 0..(n - 1) : w # h /\ w # next => u[w] = t[w]
  PROVE  UniqueIn(u) /\ Cardinality(Occupied(u)) = Cardinality(Occupied(t))
<1> DEFINE from(w) == IF w = h THEN next ELSE w
<1>1. ASSUME NEW w \in Occupied(u)
      PROVE  /\ w # next
             /\ from(w) \in Occupied(t)
             /\ t[from(w)].key = u[w].key
  BY DEF Occupied
<1>2. UniqueIn(u)
  <2> SUFFICES ASSUME NEW i \in Occupied(u), NEW j \in Occupied(u), u[i].key = u[j].key
               PROVE  i = j
    BY DEF UniqueIn
  <2>1. from(i) = from(j)
    <3>1. from(i) \in Occupied(t) /\ from(j) \in Occupied(t)
          /\ t[from(i)].key = t[from(j)].key
      BY <1>1
    <3> HIDE DEF from
    <3> QED BY <3>1 DEF UniqueIn
  <2> QED BY <1>1, <2>1
<1>3. Occupied(u) = (Occupied(t) \ {next}) \cup {h}
  BY DEF Occupied
<1>4. h \notin Occupied(t) /\ next \in Occupied(t)
  BY DEF Occupied
<1>5. IsFiniteSet(Occupied(t))
  BY OccupiedFinite
<1>6. /\ IsFiniteSet(Occupied(t) \ {next})
      /\ Cardinality(Occupied(t) \ {next}) = Cardinality(Occupied(t)) - 1
  BY <1>4, <1>5, FS_RemoveElement
<1>7. Cardinality((Occupied(t) \ {next}) \cup {h})
        = Cardinality(Occupied(t) \ {next}) + 1
  BY <1>4, <1>6, FS_AddElement
<1>8. Cardinality(Occupied(t)) \in Nat
  BY <1>5, FS_CardinalityType
<1> QED BY <1>2, <1>3, <1>6, <1>7, <1>8

-----------------------------------------------------------------------------
(* What find_index finds. *)

(* Once round the table, a way is where it was. *)
LEMMA MaskRound ==
  ASSUME NEW h \in Nat, NEW n \in Nat \ {0}
  PROVE  Mask(h + n, n) = Mask(h, n)
<1> DEFINE q == h \div n
           r == h % n
<1>1. q \in Int /\ r \in 0..(n - 1) /\ h = (n * q) + r
  OBVIOUS
<1>2. h + n = (n * (q + 1)) + r
  BY <1>1
<1> HIDE DEF q, r
<1>3. (h + n) % n = r
  BY <1>1, <1>2
<1> QED BY <1>3 DEF Mask, r

LEMMA LeastNatural ==
  ASSUME NEW S, S \subseteq Nat, S # {}
  PROVE  \E x \in S : \A y \in S : x <= y
<1>1. PICK x \in S : \A y \in S : ~(<<y, x>> \in OpToRel(<, Nat))
  BY WFMin, NatLessThanWellFounded, Zenon
<1>2. ASSUME NEW y \in S PROVE x <= y
  <2>1. x \in Nat /\ y \in Nat /\ ~(y < x)
    BY <1>1 DEF OpToRel
  <2> QED BY <2>1
<1> QED BY <1>2

(* In an ordered table that holds no key twice, every entry is found. *)
LEMMA EntryFound ==
  ASSUME capacity \in Nat \ {0}, NEW t \in [0..(capacity - 1) -> Entry],
         Sound(t), Ordered(t, capacity), UniqueIn(t),
         NEW i \in Occupied(t), NEW n, n # 0
  PROVE  FindIndex(t, n, t[i].key) = i
<1> DEFINE k == t[i].key
           far == t[i].distance
           slot(d) == Mask(Home[k] + d, capacity)
           S == {d \in 0..far : t[slot(d)].key = k}
           hits == {d \in 0..capacity :
                      /\ OnTheWay(t, capacity, k, d) /\ t[slot(d)].key = k
                      /\ \A c \in 0..(d - 1) : /\ OnTheWay(t, capacity, k, c)
                                              /\ t[slot(c)].key # k}
<1>1. k \in Keys /\ far \in Nat /\ Home[k] \in Nat
  BY HomeAssumption DEF Sound, Occupied, Entry
<1>2. i = slot(far) /\ \A d \in 0..far : OnTheWay(t, capacity, k, d)
  BY DEF Ordered, Reached
<1>3. far \in S /\ S \subseteq Nat
  BY <1>1, <1>2
<1>4. PICK d \in S : \A c \in S : d <= c
  BY <1>3, LeastNatural
<1>5. d \in 0..far /\ t[slot(d)].key = k /\ d \in Nat
  BY <1>1, <1>4
<1>6. \A c \in 0..(d - 1) : c \in 0..far /\ t[slot(c)].key # k
  <2> SUFFICES ASSUME NEW c \in 0..(d - 1)
               PROVE  c \in 0..far /\ t[slot(c)].key # k
    OBVIOUS
  <2>1. c \in 0..far /\ ~(d <= c)
    BY <1>1, <1>5
  <2> QED BY <1>4, <2>1
<1>7. d <= capacity
  <2> SUFFICES ASSUME d > capacity PROVE FALSE
    BY <1>5
  <2>1. d - capacity \in 0..(d - 1) /\ Home[k] + (d - capacity) \in Nat
    BY <1>1, <1>5
  <2>2. (Home[k] + (d - capacity)) + capacity = Home[k] + d
    BY <1>1, <1>5
  <2>3. slot(d - capacity) = slot(d)
    BY <2>1, <2>2, MaskRound
  <2> QED BY <1>5, <1>6, <2>1, <2>3
<1>8. d \in hits
  BY <1>2, <1>5, <1>6, <1>7, SMTT(20)
<1>9. ASSUME NEW c \in hits PROVE slot(c) = i
  <2>1. c \in Nat /\ t[slot(c)].occupied /\ t[slot(c)].key = k
    <3>1. c \in 0..capacity /\ OnTheWay(t, capacity, k, c) /\ t[slot(c)].key = k
      OBVIOUS
    <3> HIDE DEF hits, S, k, far
    <3>2. t[slot(c)].occupied
      BY <3>1 DEF OnTheWay
    <3> QED BY <3>1, <3>2
  <2>2. slot(c) \in 0..(capacity - 1)
    BY <1>1, <2>1, WayRange
  <2> HIDE DEF slot
  <2>3. slot(c) \in Occupied(t)
    BY <2>1, <2>2 DEF Occupied
  <2> QED BY <2>1, <2>3 DEF UniqueIn
<1>10. FindIndex(t, n, k) = slot(CHOOSE c \in hits : TRUE)
  <2>1. ~(n = 0 \/ hits = {})
    BY <1>8
  <2> QED BY <2>1 DEF FindIndex
<1>11. (CHOOSE c \in hits : TRUE) \in hits
  BY <1>8
<1> HIDE DEF hits, slot
<1> QED BY <1>9, <1>10, <1>11 DEF k

(* What is found is an entry with the key that was asked for. *)
LEMMA FoundOccupied ==
  ASSUME capacity \in Nat \ {0}, NEW t, NEW n, NEW k \in Keys,
         FindIndex(t, n, k) # NoSlot
  PROVE  /\ FindIndex(t, n, k) \in 0..(capacity - 1)
         /\ t[FindIndex(t, n, k)].occupied
         /\ t[FindIndex(t, n, k)].key = k
<1> DEFINE slot(d) == Mask(Home[k] + d, capacity)
           hits == {d \in 0..capacity :
                      /\ OnTheWay(t, capacity, k, d) /\ t[slot(d)].key = k
                      /\ \A c \in 0..(d - 1) : /\ OnTheWay(t, capacity, k, c)
                                              /\ t[slot(c)].key # k}
<1>1. hits # {} /\ FindIndex(t, n, k) = slot(CHOOSE d \in hits : TRUE)
  BY DEF FindIndex
<1>2. (CHOOSE d \in hits : TRUE) \in hits
  BY <1>1
<1>3. ASSUME NEW d \in hits
      PROVE  /\ slot(d) \in 0..(capacity - 1)
             /\ t[slot(d)].occupied /\ t[slot(d)].key = k
  <2>1. d \in Nat /\ t[slot(d)].occupied /\ t[slot(d)].key = k
    BY DEF OnTheWay
  <2> QED BY <2>1, WayRange
<1> HIDE DEF hits, slot
<1>4. PICK d \in hits : FindIndex(t, n, k) = slot(d)
  BY <1>1, <1>2
<1> QED BY <1>3, <1>4

-----------------------------------------------------------------------------
(* Steps that leave the table alone, but for what emplace carries: it starts
   with the key it was called with, and no slot behind it. *)
LEMMA SameTableUnique ==
  ASSUME UInv, IInv', UNCHANGED <<entries, size>>,
         \/ ~Probing'
         \/ cur'.key = key' /\ cur'.distance = 0
         \/ UNCHANGED <<capacity, pc, cur, key>>
  PROVE  UInv'
<1>1. UniqueIn(entries)' /\ Counted'
  BY DEF UInv, UniqueIn, Counted
<1>2. Passed' /\ TakenOut'
  <2>1. CASE ~Probing' \/ (cur'.key = key' /\ cur'.distance = 0)
    BY <2>1 DEF Passed, TakenOut
  <2>2. CASE UNCHANGED <<capacity, pc, cur, key>>
    BY <2>2 DEF UInv, Passed, TakenOut, Probing
  <2> QED BY <2>1, <2>2
<1> QED BY <1>1, <1>2 DEF UInv

LEMMA EmptyTableUnique ==
  ASSUME IInv', Occupied(entries') = {}, size' = 0, ~Probing'
  PROVE  UInv'
<1>1. Cardinality({}) = 0
  BY FS_EmptySet
<1> QED BY <1>1 DEF UInv, UniqueIn, Passed, TakenOut, Counted

LEMMA StartRehashUnique ==
  ASSUME IInv', NEW n, StartRehash(n)
  PROVE  UInv'
<1>1. RoundUp(Larger(n, size * 2)) \in Nat
  BY RoundUpCapacity, CapacityRange DEF StartRehash
<1>2. Occupied(entries') = {}
  BY <1>1, BlankTable DEF StartRehash
<1> QED BY <1>2, EmptyTableUnique DEF StartRehash, Probing

LEMMA StartProbeUnique ==
  ASSUME UInv, IInv', NEW k, NEW v, NEW loop, StartProbe(k, v, loop),
         UNCHANGED <<entries, size>>
  PROVE  UInv'
BY SameTableUnique DEF StartProbe, NewEntry

LEMMA StartEmplaceUnique ==
  ASSUME UInv, IInv', NEW k, NEW v, StartEmplace(k, v)
  PROVE  UInv'
BY StartRehashUnique, StartProbeUnique DEF StartEmplace

(* The key emplace carries is in no slot when it comes to one where a search
   for it ends. *)
LEMMA CarriedNotThere ==
  ASSUME UInv, Probing,
         entries[idx].occupied => entries[idx].distance < cur.distance
  PROVE  \A j \in Occupied(entries) : entries[j].key # cur.key
<1>1. CASE cur.key # key
  BY <1>1 DEF UInv, TakenOut
<1>2. CASE cur.key = key
  <2>1. /\ capacity \in Nat \ {0} /\ entries \in [0..(capacity - 1) -> Entry]
        /\ cur \in Entry /\ idx \in 0..(capacity - 1)
    BY CapacityRange DEF UInv, IInv, TypeOK
  <2>2. cur.key \in Keys /\ idx = Mask(Home[cur.key] + cur.distance, capacity)
    BY DEF UInv, IInv, Carried
  <2>3. Ordered(entries, capacity)
    BY DEF UInv, IInv, Order, Probing
  <2>4. cur.distance \in Nat /\ entries[idx].distance \in Nat
    BY <2>1 DEF Entry
  <2>5. ~OnTheWay(entries, capacity, cur.key, cur.distance)
    BY <2>2, <2>4 DEF OnTheWay
  <2>6. \A c \in 0..(cur.distance - 1) :
          entries[Mask(Home[cur.key] + c, capacity)].key # cur.key
    BY <1>2 DEF UInv, Passed
  <2> QED BY <2>1, <2>2, <2>3, <2>4, <2>5, <2>6, NotPassedNotThere
<1> QED BY <1>1, <1>2

LEMMA ReturnEmplaceStops ==
  ASSUME NEW answer, ReturnEmplace(answer)
  PROVE  ~Probing'
BY DEF ReturnEmplace, Probing

LEMMA PlaceUnique ==
  ASSUME UInv, IInv', Place
  PROVE  UInv'
<1>1. /\ capacity \in Nat \ {0} /\ entries \in [0..(capacity - 1) -> Entry]
      /\ cur \in Entry /\ idx \in 0..(capacity - 1) /\ cur.occupied
  BY CapacityRange DEF UInv, IInv, TypeOK, Carried, Place
<1>2. entries' = [entries EXCEPT ![idx] = cur] /\ ~entries[idx].occupied /\ size' = size + 1
  BY DEF Place
<1>3. UniqueIn(entries')
  <2>1. Probing
    BY DEF Place
  <2>2. \A j \in Occupied(entries) : entries[j].key # cur.key
    BY <1>2, <2>1, CarriedNotThere
  <2>3. UniqueIn(entries)
    BY DEF UInv
  <2> QED BY <1>1, <1>2, <2>2, <2>3, PutKeepsUnique
<1>4. Occupied(entries') = Occupied(entries) \cup {idx} /\ idx \notin Occupied(entries)
  BY <1>1, <1>2 DEF Occupied
<1>5. Cardinality(Occupied(entries) \cup {idx}) = Cardinality(Occupied(entries)) + 1
  BY <1>1, <1>4, OccupiedFinite, FS_AddElement
<1>6. Counted'
  BY <1>2, <1>4, <1>5 DEF UInv, Counted
<1>7. ~Probing'
  BY ReturnEmplaceStops DEF Place
<1> QED BY <1>3, <1>6, <1>7 DEF UInv, Passed, TakenOut

LEMMA RefuseUnique ==
  ASSUME UInv, IInv', Refuse
  PROVE  UInv'
BY ReturnEmplaceStops, SameTableUnique DEF Refuse

(* A swap puts the carried entry in the place of another one, whose key is
   then in no slot. *)
LEMMA AdvanceUnique ==
  ASSUME UInv, IInv', Advance
  PROVE  UInv'
<1> DEFINE e == entries[idx]
<1>1. /\ capacity \in Nat \ {0} /\ entries \in [0..(capacity - 1) -> Entry]
      /\ cur \in Entry /\ idx \in 0..(capacity - 1) /\ e \in Entry
      /\ cur.occupied /\ idx = Mask(Home[cur.key] + cur.distance, capacity)
  BY CapacityRange DEF UInv, IInv, TypeOK, Carried, Advance
<1>2. /\ e.occupied /\ e.key # key /\ Probing
      /\ UNCHANGED <<size, capacity, pc, key>>
  BY DEF Advance
<1>3. cur.distance \in Nat /\ e.distance \in Nat /\ idx \in Occupied(entries)
  BY <1>1, <1>2 DEF Entry, Occupied
<1>4. CASE /\ Displaces(e)
           /\ entries' = [entries EXCEPT ![idx] = cur]
           /\ cur' = [e EXCEPT !.distance = @ + 1]
  <2>1. cur'.key = e.key
    BY <1>1, <1>4 DEF Entry
  <2>2. \A j \in Occupied(entries) : entries[j].key # cur.key
    BY <1>2, <1>3, <1>4, CarriedNotThere DEF Displaces
  <2>3. UniqueIn(entries')
    BY <1>1, <1>4, <2>2, PutKeepsUnique DEF UInv
  <2>4. Occupied(entries') = Occupied(entries)
    BY <1>1, <1>3, <1>4 DEF Occupied
  <2>5. Counted'
    BY <1>2, <2>4 DEF UInv, Counted
  <2>6. Passed'
    BY <1>2, <2>1 DEF Passed
  <2>7. \A j \in Occupied(entries') : entries'[j].key # e.key
    <3> SUFFICES ASSUME NEW j \in Occupied(entries)
                 PROVE  entries'[j].key # e.key
      BY <2>4
    <3>1. CASE j = idx
      BY <1>1, <1>3, <1>4, <2>2, <3>1
    <3>2. CASE j # idx
      <4>1. entries'[j] = entries[j]
        BY <1>4, <3>2, <1>1 DEF Occupied
      <4>2. UniqueIn(entries)
        BY DEF UInv
      <4> QED BY <1>3, <3>2, <4>1, <4>2 DEF UniqueIn
    <3> QED BY <3>1, <3>2
  <2>8. TakenOut'
    BY <2>1, <2>7 DEF TakenOut
  <2> QED BY <2>3, <2>5, <2>6, <2>8 DEF UInv
<1>5. CASE cur' = [cur EXCEPT !.distance = @ + 1] /\ UNCHANGED entries
  <2>1. cur'.key = cur.key /\ cur'.distance = cur.distance + 1
    BY <1>1, <1>5 DEF Entry
  <2>2. UniqueIn(entries)' /\ Counted' /\ TakenOut'
    BY <1>2, <1>5, <2>1 DEF UInv, UniqueIn, Counted, TakenOut, Probing
  <2>3. Passed'
    <3> SUFFICES ASSUME cur.key = key, NEW d \in 0..(cur'.distance - 1)
                 PROVE  entries[Mask(Home[key] + d, capacity)].key # key
      BY <1>2, <1>5, <2>1 DEF Passed
    <3>1. CASE d = cur.distance
      BY <1>1, <1>2, <3>1
    <3>2. CASE d # cur.distance
      <4>1. d \in 0..(cur.distance - 1)
        BY <1>3, <2>1, <3>2
      <4> QED BY <1>2, <4>1 DEF UInv, Passed
    <3> QED BY <3>1, <3>2
  <2> QED BY <2>2, <2>3 DEF UInv
<1> QED BY <1>4, <1>5 DEF Advance

LEMMA RefillUnique ==
  ASSUME UInv, IInv', Refill
  PROVE  UInv'
BY StartProbeUnique DEF Refill

LEMMA EndRehashUnique ==
  ASSUME UInv, IInv', EndRehash
  PROVE  UInv'
BY StartProbeUnique, SameTableUnique DEF EndRehash, Probing

LEMMA CallEraseUnique ==
  ASSUME UInv, IInv', NEW k \in Keys, CallErase(k)
  PROVE  UInv'
<1> DEFINE i == FindIndex(entries, size, k)
<1>1. CASE i = NoSlot
  BY <1>1, SameTableUnique DEF CallErase
<1>2. CASE i # NoSlot
  <2>1. /\ capacity \in Nat \ {0} /\ entries \in [0..(capacity - 1) -> Entry]
        /\ i \in 0..(capacity - 1)
    BY <1>2, CapacityRange, FindIndexSlot DEF UInv, IInv, TypeOK
  <2>2. entries[i].occupied
    BY <1>2, <2>1, FoundOccupied
  <2> HIDE DEF i
  <2>3. entries' = [entries EXCEPT ![i] = Fresh] /\ size' = size - 1 /\ pc' = "shift"
    BY <1>2 DEF CallErase, i
  <2>4. UniqueIn(entries')
    BY <2>1, <2>3, FreeKeepsUnique DEF UInv
  <2>5. Occupied(entries') = Occupied(entries) \ {i} /\ i \in Occupied(entries)
    BY <2>1, <2>2, <2>3 DEF Occupied, Fresh
  <2>6. Cardinality(Occupied(entries) \ {i}) = Cardinality(Occupied(entries)) - 1
    BY <2>1, <2>5, OccupiedFinite, FS_RemoveElement
  <2>7. Counted'
    BY <2>3, <2>5, <2>6 DEF UInv, Counted
  <2> QED BY <2>3, <2>4, <2>7 DEF UInv, Passed, TakenOut, Probing
<1> QED BY <1>1, <1>2

LEMMA ShiftUnique ==
  ASSUME UInv, IInv', Shift
  PROVE  UInv'
<1> DEFINE next == Mask(idx + 1, capacity)
<1>1. /\ capacity \in Nat \ {0} /\ entries \in [0..(capacity - 1) -> Entry]
      /\ idx \in 0..(capacity - 1) /\ ~entries[idx].occupied
  BY CapacityRange DEF UInv, IInv, TypeOK, Order, OrderedBut, Shift
<1>2. next \in 0..(capacity - 1)
  BY <1>1, MaskRange
<1>3. pc = "shift" /\ UNCHANGED <<size, capacity>>
  BY DEF Shift
<1> HIDE DEF next
<1>4. CASE /\ MovesUp(entries[next])
           /\ entries' = [entries EXCEPT ![idx] = CloserHome(entries[next]), ![next] = Fresh]
           /\ UNCHANGED pc
  <2>1. entries[next].occupied /\ next # idx /\ entries[next] \in Entry
    BY <1>1, <1>2, <1>4 DEF MovesUp
  <2>2. /\ CloserHome(entries[next]).occupied
        /\ CloserHome(entries[next]).key = entries[next].key
    BY <2>1 DEF CloserHome, Entry
  <2> HIDE DEF CloserHome
  <2>3. /\ entries'[idx] = CloserHome(entries[next]) /\ ~entries'[next].occupied
        /\ \A w \in 0..(capacity - 1) : w # idx /\ w # next => entries'[w] = entries[w]
    BY <1>1, <1>2, <1>4, <2>1 DEF Fresh
  <2>4. entries' \in [0..(capacity - 1) -> Entry]
    BY <1>3 DEF IInv, TypeOK
  <2>5. UniqueIn(entries') /\ Cardinality(Occupied(entries')) = Cardinality(Occupied(entries))
    BY <1>1, <1>2, <2>1, <2>2, <2>3, <2>4, MoveKeepsUnique DEF UInv
  <2> QED BY <1>3, <1>4, <2>5 DEF UInv, Counted, Passed, TakenOut, Probing
<1>5. CASE pc' = "idle" /\ UNCHANGED entries
  BY <1>3, <1>5, SameTableUnique DEF Probing
<1> QED BY <1>4, <1>5 DEF Shift, next

LEMMA CallClearUnique ==
  ASSUME UInv, IInv', CallClear
  PROVE  UInv'
<1>1. Occupied(entries') = {}
  BY CapacityRange, BlankTable DEF CallClear, UInv, IInv, TypeOK
<1> QED BY <1>1, EmptyTableUnique DEF CallClear, Probing

LEMMA TuningUnique ==
  ASSUME UInv, IInv',
         \/ \E n \in Requests : CallRehash(n) \/ CallReserve(n)
         \/ \E l \in Loads : CallMaxLoadFactor(l)
  PROVE  UInv'
<1>1. CASE \E n : StartRehash(n)
  BY <1>1, StartRehashUnique
<1>2. CASE NothingToTune
  BY <1>2, SameTableUnique DEF NothingToTune, Probing
<1> QED BY <1>1, <1>2 DEF CallRehash, CallReserve, CallMaxLoadFactor

LEMMA CallUnique ==
  ASSUME UInv, IInv', NEW k \in Keys,
         \/ \E v \in Values : CallInsert(k, v)
         \/ CallIndex(k) \/ CallGet(k)
  PROVE  UInv'
<1>1. CASE \E v : StartEmplace(k, v)
  BY <1>1, StartEmplaceUnique
<1>2. CASE UNCHANGED <<entries, size, capacity, pc, cur, key>>
  BY <1>2, SameTableUnique
<1> QED BY <1>1, <1>2 DEF CallInsert, CallIndex, CallGet

-----------------------------------------------------------------------------
LEMMA InitUnique == Init => UInv
<1> SUFFICES ASSUME Init PROVE UInv
  OBVIOUS
<1>1. Occupied(entries) = {}
  BY RoundUpCapacity, CapacityRange, BlankTable DEF Init
<1>2. Cardinality({}) = 0
  BY FS_EmptySet
<1> QED BY <1>1, <1>2, InitInvariant
        DEF Init, UInv, UniqueIn, Passed, TakenOut, Counted, Probing

LEMMA StepUnique ==
  ASSUME UInv, [Next]_vars
  PROVE  UInv'
<1>1. IInv'
  BY StepInvariant DEF UInv
<1>2. CASE Loop
  BY <1>1, <1>2, PlaceUnique, RefuseUnique, AdvanceUnique, RefillUnique,
     EndRehashUnique, ShiftUnique DEF Loop
<1>3. CASE UNCHANGED vars
  BY <1>1, <1>3, SameTableUnique DEF vars
<1> QED BY <1>1, <1>2, <1>3, CallUnique, CallEraseUnique, CallClearUnique, TuningUnique
        DEF Next

(* No key is in the table twice, and m_size counts its entries, in every
   reachable state, in the middle of a call too. *)
THEOREM UniqueInvariance == Spec => []UInv
BY InitUnique, StepUnique, PTL DEF Spec

(* m_size is the number of entries whenever no call is running. *)
THEOREM SizeIsRight == Spec => []SizeCounts
<1>1. UInv => SizeCounts
  BY DEF UInv, Counted, SizeCounts
<1> QED BY <1>1, UniqueInvariance, PTL

(* Between calls find_index finds every entry, in the slot it is in: swaps,
   shifts and growths lose none, and no second entry hides the one that is
   meant. *)
THEOREM LookupIsComplete == Spec => []LookupFinds
<1>1. UInv => LookupFinds
  <2> SUFFICES ASSUME UInv, pc = "idle", NEW i \in Occupied(entries)
               PROVE  FindIndex(entries, size, entries[i].key) = i
    BY DEF LookupFinds
  <2>1. /\ capacity \in Nat \ {0} /\ entries \in [0..(capacity - 1) -> Entry]
        /\ Sound(entries) /\ Ordered(entries, capacity) /\ UniqueIn(entries)
    BY CapacityRange DEF UInv, IInv, TypeOK, KnownKeys, Order
  <2>2. size # 0
    <3>1. IsFiniteSet(Occupied(entries))
      BY <2>1, OccupiedFinite
    <3>2. Cardinality(Occupied(entries)) # 0
      BY <3>1, FS_EmptySet
    <3> QED BY <3>2 DEF UInv, Counted
  <2> QED BY <2>1, <2>2, EntryFound
<1> QED BY <1>1, UniqueInvariance, PTL

-----------------------------------------------------------------------------
(* The inductive invariant, on top of UInv: what a caller could tell of the
   table while a call runs is in it once, and emplace, which has no bound of its
   own, stops before it has gone round. *)

(* What rehash has yet to bring back is not in the new table. *)
Apart ==
  /\ UniqueIn(old)
  /\ pc \in {"refill", "reinsert"} =>
       \A j \in Occupied(old) : j >= pos =>
         \A i \in Occupied(entries) : entries[i].key # old[j].key
  /\ pc = "reinsert" =>
       /\ \A j \in Occupied(old) : j >= pos => cur.key # old[j].key
       /\ \A i \in Occupied(entries) : entries[i].key # cur.key

(* Emplace is about the key the caller asked for. *)
Asked ==
  /\ op.call = "index" => op.value = DefaultValue
  /\ pc = "insert" => /\ op.call \in {"insert", "index"}
                      /\ key = op.key
                      /\ cur.key = key => cur.value = op.value

(* Entry e answers the running call. *)
Requested(e) ==
  e.key = key /\ (pc = "insert" => e.value = op.value)

(* Emplace has gone s steps through occupied slots; once it carries another
   entry, its own is behind it. *)
WalkedFor(s) ==
  /\ s < capacity
  /\ idx = Mask(Home[key] + s, capacity)
  /\ \A d \in 0..(s - 1) : entries[Mask(Home[key] + d, capacity)].occupied
  /\ cur.key # key =>
       \E d \in 0..(s - 1) : Requested(entries[Mask(Home[key] + d, capacity)])

Walked == Probing => key \in Keys /\ \E s \in Nat : WalkedFor(s)

(* There is a free slot. *)
Room ==
  /\ Probing => size < capacity
  /\ pc = "refill" => size <= pos
  /\ pc = "reinsert" => size + 1 <= pos
  /\ pc \in {"refill", "reinsert"} /\ op.call \in {"insert", "index"} =>
       \E n \in Nat \ {0} : old \in [0..(n - 1) -> Entry] /\ pos \in 0..n /\ 2 * n <= capacity

RInv == UInv /\ Apart /\ Asked /\ Walked /\ Room

-----------------------------------------------------------------------------
(* Slots, once round the table: each of them once. *)

LEMMA MaskRemainder ==
  ASSUME NEW n \in Nat \ {0}, NEW q \in Int, NEW r \in 0..(n - 1)
  PROVE  Mask((n * q) + r, n) = r
BY DEF Mask

LEMMA MaskDistinct ==
  ASSUME NEW h \in Nat, NEW n \in Nat \ {0}, NEW t \in 1..(n - 1)
  PROVE  Mask(h + t, n) # Mask(h, n)
<1> DEFINE q == h \div n
           r == h % n
<1>1. q \in Int /\ r \in 0..(n - 1) /\ h = (n * q) + r
  OBVIOUS
<1>2. CASE r + t < n
  <2>1. h + t = (n * q) + (r + t)
    BY <1>1
  <2> HIDE DEF q, r
  <2>2. (h + t) % n = r + t
    BY <1>1, <1>2, <2>1
  <2> QED BY <1>1, <2>2 DEF Mask, r
<1>3. CASE r + t >= n
  <2> DEFINE w == r + t - n
             p == q + 1
  <2>1. h + t = (n * p) + w /\ p \in Int /\ w \in 0..(n - 1) /\ w # r
    BY <1>1, <1>3
  <2> HIDE DEF q, r, w, p
  <2>2. Mask(h + t, n) = w
    BY <2>1, MaskRemainder
  <2> QED BY <2>1, <2>2 DEF Mask, r
<1> QED BY <1>1, <1>2, <1>3

LEMMA WayDistinct ==
  ASSUME NEW n \in Nat \ {0}, NEW k \in Keys, NEW s \in Nat, s < n, NEW d \in 0..(s - 1)
  PROVE  Mask(Home[k] + d, n) # Mask(Home[k] + s, n)
<1>1. Home[k] + d \in Nat /\ (Home[k] + d) + (s - d) = Home[k] + s /\ s - d \in 1..(n - 1)
  BY HomeAssumption
<1> QED BY <1>1, MaskDistinct

LEMMA MaskOnto ==
  ASSUME NEW h \in Nat, NEW n \in Nat \ {0}, NEW i \in 0..(n - 1)
  PROVE  \E d \in 0..(n - 1) : Mask(h + d, n) = i
<1> DEFINE q == h \div n
           r == h % n
<1>1. q \in Int /\ r \in 0..(n - 1) /\ h = (n * q) + r
  OBVIOUS
<1>2. CASE r <= i
  <2>1. i - r \in 0..(n - 1) /\ h + (i - r) = (n * q) + i
    BY <1>1, <1>2
  <2> HIDE DEF q, r
  <2>2. (h + (i - r)) % n = i
    BY <1>1, <2>1
  <2> QED BY <2>1, <2>2 DEF Mask
<1>3. CASE r > i
  <2>1. i - r + n \in 0..(n - 1) /\ h + (i - r + n) = (n * (q + 1)) + i
    BY <1>1, <1>3
  <2> HIDE DEF q, r
  <2>2. (h + (i - r + n)) % n = i
    BY <1>1, <2>1
  <2> QED BY <2>1, <2>2 DEF Mask
<1> QED BY <1>1, <1>2, <1>3

(* A table that is not full has a free slot on any way. *)
LEMMA FreeOnTheWay ==
  ASSUME NEW n \in Nat \ {0}, NEW t \in [0..(n - 1) -> Entry],
         Cardinality(Occupied(t)) < n, NEW k \in Keys
  PROVE  \E d \in 0..(n - 1) : ~t[Mask(Home[k] + d, n)].occupied
<1>1. Cardinality(0..(n - 1)) = n
  BY FS_Interval
<1>2. Occupied(t) # 0..(n - 1)
  BY <1>1
<1>3. PICK i \in 0..(n - 1) : ~t[i].occupied
  BY <1>2 DEF Occupied
<1>4. \E d \in 0..(n - 1) : Mask(Home[k] + d, n) = i
  BY MaskOnto, HomeAssumption
<1> QED BY <1>3, <1>4

LEMMA ThresholdBound ==
  ASSUME NEW n \in Nat, NEW l \in Loads
  PROVE  Threshold(n, l) <= n
<1> DEFINE a == l[1]
           b == l[2]
           x == n * a
           q == x \div b
<1>1. a \in Nat /\ b \in Nat /\ 0 < a /\ a <= b
  BY LoadsAssumption
<1> HIDE DEF a, b
<1>2. x \in Nat /\ x <= n * b
  BY <1>1
<1> HIDE DEF x
<1>3. q \in Int /\ b * q <= x
  BY <1>1, <1>2
<1> HIDE DEF q
<1>4. q <= n
  BY <1>1, <1>2, <1>3
<1> QED BY <1>4 DEF Threshold, q, x, a, b

LEMMA RoundUpBound ==
  ASSUME NEW n, HasRoom(n)
  PROVE  n <= RoundUp(n)
BY DEF HasRoom, RoundUp

-----------------------------------------------------------------------------
(* Steps after which emplace and rehash do not run. *)
LEMMA StoppedR ==
  ASSUME UInv', UniqueIn(old'), op'.call = "index" => op'.value = DefaultValue,
         pc' \in {"idle", "shift"}
  PROVE  RInv'
BY DEF RInv, Apart, Asked, Walked, Room, Probing

(* rehash starts, and if it was emplace that called it, with a table at least
   twice as large. *)
LEMMA StartRehashR ==
  ASSUME RInv, UInv', NEW n \in Nat, StartRehash(n),
         op'.call = "index" => op'.value = DefaultValue,
         op'.call \in {"insert", "index"} => n = capacity * 2
  PROVE  RInv'
<1>1. capacity \in Nat \ {0} /\ entries \in [0..(capacity - 1) -> Entry] /\ size \in Nat
  BY CapacityRange DEF RInv, UInv, IInv, TypeOK
<1>2. RoundUp(Larger(n, size * 2)) \in Nat \ {0}
  BY RoundUpCapacity, CapacityRange DEF StartRehash
<1>3. Occupied(entries') = {}
  BY <1>2, BlankTable DEF StartRehash
<1>4. old' = entries /\ pos' = 0 /\ size' = 0 /\ pc' = "refill"
  BY DEF StartRehash
<1>5. Apart'
  BY <1>3, <1>4 DEF Apart, RInv, UInv
<1>6. Asked' /\ Walked'
  BY <1>4 DEF Asked, Walked, Probing
<1>7. op'.call \in {"insert", "index"} => 2 * capacity <= capacity'
  <2>1. Larger(n, size * 2) <= capacity'
    BY RoundUpBound DEF StartRehash
  <2>2. n <= Larger(n, size * 2) /\ Larger(n, size * 2) \in Nat
    BY <1>1 DEF Larger
  <2>3. capacity' \in Nat
    BY <1>2 DEF StartRehash
  <2> HIDE DEF Larger
  <2> QED BY <1>1, <2>1, <2>2, <2>3
<1>8. Room'
  BY <1>1, <1>4, <1>7 DEF Room, Probing
<1> QED BY <1>5, <1>6, <1>8 DEF RInv

(* emplace starts on the key of the call. *)
LEMMA StartProbeR ==
  ASSUME RInv, UInv', NEW k \in Keys, NEW v, StartProbe(k, v, "insert"),
         size < capacity, UNCHANGED <<entries, size, capacity>>, UniqueIn(old'),
         op'.call \in {"insert", "index"}, op'.key = k, op'.value = v,
         op'.call = "index" => v = DefaultValue
  PROVE  RInv'
<1>1. capacity \in Nat \ {0} /\ Home[k] \in Nat
  BY CapacityRange, HomeAssumption DEF RInv, UInv, IInv, TypeOK
<1>2. /\ cur'.key = k /\ cur'.value = v /\ key' = k /\ pc' = "insert"
      /\ idx' = Mask(Home[k], capacity)
  BY DEF StartProbe, NewEntry
<1>3. Apart' /\ Asked'
  BY <1>2 DEF Apart, Asked
<1>4. Home[k] + 0 = Home[k]
  BY <1>1
<1>5. WalkedFor(0)'
  BY <1>1, <1>2, <1>4 DEF WalkedFor
<1>6. Walked' /\ Room'
  BY <1>2, <1>5 DEF Walked, Room, Probing
<1> QED BY <1>3, <1>6 DEF RInv

LEMMA StartEmplaceR ==
  ASSUME RInv, UInv', pc = "idle", NEW k \in Keys, NEW v, StartEmplace(k, v), UNCHANGED load,
         op'.call \in {"insert", "index"}, op'.key = k, op'.value = v,
         op'.call = "index" => v = DefaultValue
  PROVE  RInv'
<1>1. capacity \in Nat \ {0} /\ size \in Nat /\ capacity * 2 \in Nat
      /\ threshold = Threshold(capacity, load) /\ load \in Loads
  <2>1. /\ capacity \in Capacities /\ size \in Nat
        /\ threshold = Threshold(capacity, load) /\ load \in Loads
    BY DEF RInv, UInv, IInv, TypeOK
  <2>2. capacity \in Nat \ {0}
    BY <2>1, CapacityRange
  <2> QED BY <2>1, <2>2
<1>2. CASE StartRehash(capacity * 2)
  BY <1>1, <1>2, StartRehashR
<1>3. CASE /\ size < threshold
           /\ StartProbe(k, v, "insert")
           /\ UNCHANGED <<entries, size, capacity, threshold, old, pos, ret>>
  <2>1. threshold <= capacity /\ threshold \in Int
    <3>1. load[1] \in Nat /\ load[2] \in Nat /\ 0 < load[2]
      BY <1>1, LoadsAssumption
    <3> QED BY <1>1, <3>1, ThresholdBound DEF Threshold
  <2>2. size < capacity
    BY <1>1, <1>3, <2>1
  <2>3. UniqueIn(old')
    BY <1>3 DEF RInv, Apart
  <2> QED BY <1>3, <2>2, <2>3, StartProbeR
<1> QED BY <1>2, <1>3 DEF StartEmplace
LEMMA ReturnEmplaceR ==
  ASSUME RInv, UInv', Probing, NEW answer, ReturnEmplace(answer),
         size' <= size + 1, size' \in Nat,
         pc = "reinsert" =>
           \A i \in Occupied(entries') : \/ i \in Occupied(entries) /\ entries'[i] = entries[i]
                                         \/ entries'[i] = cur
  PROVE  RInv'
<1>1. CASE pc = "insert" /\ pc' = "idle" /\ op' = NoCall
  <2>1. UniqueIn(old')
    BY DEF ReturnEmplace, RInv, Apart
  <2> QED BY <1>1, <2>1, StoppedR DEF NoCall, Call
<1>2. CASE pc = "reinsert" /\ pc' = "refill" /\ UNCHANGED <<op, ret>>
  <2>1. UNCHANGED <<capacity, old, pos>>
    BY DEF ReturnEmplace
  <2>2. Apart'
    BY <1>2, <2>1 DEF RInv, Apart
  <2>3. Asked' /\ Walked'
    BY <1>2 DEF RInv, Asked, Walked, Probing
  <2>4. size' <= pos'
    <3>1. pos \in Nat /\ size \in Nat
      BY CapacityRange DEF RInv, UInv, IInv, TypeOK
    <3> QED BY <1>2, <2>1, <3>1 DEF RInv, Room
  <2>5. Room'
    BY <1>2, <2>1, <2>4 DEF RInv, Room, Probing
  <2> QED BY <2>2, <2>3, <2>5 DEF RInv
<1> QED BY <1>1, <1>2 DEF ReturnEmplace

LEMMA PlaceR ==
  ASSUME RInv, UInv', Place
  PROVE  RInv'
<1>1. /\ entries \in [0..(capacity - 1) -> Entry] /\ size \in Nat
  BY DEF RInv, UInv, IInv, TypeOK
<1>2. entries' = [entries EXCEPT ![idx] = cur] /\ size' = size + 1 /\ Probing /\ ReturnEmplace("yes")
  BY DEF Place
<1>3. \A i \in Occupied(entries') : \/ i \in Occupied(entries) /\ entries'[i] = entries[i]
                                    \/ entries'[i] = cur
  BY <1>1, <1>2 DEF Occupied
<1>4. size' <= size + 1 /\ size' \in Nat
  BY <1>1, <1>2
<1> QED BY <1>2, <1>3, <1>4, ReturnEmplaceR

LEMMA RefuseR ==
  ASSUME RInv, UInv', Refuse
  PROVE  RInv'
<1>1. entries' = entries /\ size' = size /\ size \in Nat /\ Probing /\ ReturnEmplace("no")
  BY DEF Refuse, RInv, UInv, IInv, TypeOK
<1>2. size' <= size + 1 /\ size' \in Nat
  BY <1>1
<1> QED BY <1>1, <1>2, ReturnEmplaceR

(* One slot further round: there is a free one ahead, so that is not where
   emplace began. *)
LEMMA AdvanceR ==
  ASSUME RInv, UInv', Advance
  PROVE  RInv'
<1> DEFINE e == entries[idx]
           slot(d) == Mask(Home[key] + d, capacity)
<1>1. /\ capacity \in Nat \ {0} /\ entries \in [0..(capacity - 1) -> Entry]
      /\ cur \in Entry /\ idx \in 0..(capacity - 1) /\ e \in Entry /\ size \in Nat
  BY CapacityRange DEF RInv, UInv, IInv, TypeOK
<1>2. /\ e.occupied /\ e.key # key /\ Probing
      /\ UNCHANGED <<size, capacity, pc, key, op, old, pos>>
      /\ idx' = Mask(idx + 1, capacity)
  BY DEF Advance
<1>3. PICK s \in Nat : WalkedFor(s)
  BY <1>2 DEF RInv, Walked
<1>4. key \in Keys /\ s < capacity /\ idx = slot(s)
  BY <1>2, <1>3 DEF RInv, Walked, WalkedFor
<1>5. Home[key] \in Nat /\ slot(s + 1) = idx'
  BY <1>1, <1>2, <1>4, WayNext, HomeAssumption
<1>6. \A d \in 0..s : slot(d) \in 0..(capacity - 1) /\ entries[slot(d)].occupied
  <2> SUFFICES ASSUME NEW d \in 0..s
               PROVE  slot(d) \in 0..(capacity - 1) /\ entries[slot(d)].occupied
    OBVIOUS
  <2>1. slot(d) \in 0..(capacity - 1)
    BY <1>1, <1>4, WayRange, SMTT(20)
  <2>2. d = s \/ d \in 0..(s - 1)
    OBVIOUS
  <2> QED BY <1>2, <1>3, <1>4, <2>1, <2>2 DEF WalkedFor
<1>7. s + 1 < capacity
  <2> SUFFICES ASSUME s + 1 = capacity PROVE FALSE
    BY <1>1, <1>4
  <2>1. Cardinality(Occupied(entries)) < capacity
    BY <1>2 DEF RInv, UInv, Counted, Room
  <2>2. PICK d \in 0..(capacity - 1) : ~entries[slot(d)].occupied
    BY <1>1, <1>4, <2>1, FreeOnTheWay
  <2> QED BY <1>6, <2>2
<1>8. \A j \in Occupied(entries) : j # idx => entries[j].key # e.key
  BY <1>1, <1>2 DEF RInv, UInv, UniqueIn, Occupied
<1>9. /\ WalkedFor(s + 1)' /\ Asked' /\ Apart'
  <2>1. CASE /\ Displaces(e)
             /\ entries' = [entries EXCEPT ![idx] = cur]
             /\ cur' = [e EXCEPT !.distance = @ + 1]
    <3>1. cur'.key = e.key /\ cur'.key # key' /\ cur.occupied
      BY <1>1, <1>2, <2>1 DEF Entry, RInv, UInv, IInv, Carried
    <3>2. \A d \in 0..s : entries'[slot(d)].occupied
      BY <1>1, <1>2, <1>6, <2>1, <3>1
    <3>3. \E d \in 0..s : Requested(entries'[slot(d)])
      <4>1. CASE cur.key = key
        <5>1. Requested(cur)
          BY <4>1 DEF RInv, Asked, Requested
        <5>2. entries'[slot(s)] = cur /\ s \in 0..s
          BY <1>1, <1>4, <2>1
        <5> QED BY <5>1, <5>2
      <4>2. CASE cur.key # key
        <5>1. PICK d \in 0..(s - 1) : Requested(entries[slot(d)])
          BY <1>3, <4>2 DEF WalkedFor
        <5>2. slot(d) # idx
          BY <1>2, <5>1 DEF Requested
        <5>3. entries'[slot(d)] = entries[slot(d)] /\ d \in 0..s
          BY <1>1, <1>6, <2>1, <5>2
        <5> QED BY <5>1, <5>3
      <4> QED BY <4>1, <4>2
    <3>4. WalkedFor(s + 1)'
      <4>1. 0..((s + 1) - 1) = 0..s
        OBVIOUS
      <4> QED BY <1>2, <1>5, <1>7, <3>2, <3>3, <4>1 DEF WalkedFor, Requested
    <3>5. Asked'
      BY <1>2, <3>1 DEF RInv, Asked
    <3>6. idx \in Occupied(entries) /\ Occupied(entries') = Occupied(entries)
      BY <1>1, <1>2, <2>1, <3>1 DEF Occupied
    <3>7. \A i \in Occupied(entries') :
            entries'[i] = IF i = idx THEN cur ELSE entries[i]
      BY <1>1, <2>1, <3>6
    <3>8. UniqueIn(old') /\ pc # "refill"
      BY <1>2 DEF RInv, Apart, Probing
    <3>9. pc = "reinsert" =>
            \A j \in Occupied(old) : j >= pos =>
              /\ cur'.key # old[j].key
              /\ \A i \in Occupied(entries') : entries'[i].key # old[j].key
      BY <3>1, <3>6, <3>7 DEF RInv, Apart
    <3>10. pc = "reinsert" => \A i \in Occupied(entries') : entries'[i].key # cur'.key
      BY <1>8, <3>1, <3>6, <3>7 DEF RInv, Apart
    <3> QED BY <1>2, <3>4, <3>5, <3>8, <3>9, <3>10 DEF Apart
  <2>2. CASE cur' = [cur EXCEPT !.distance = @ + 1] /\ UNCHANGED entries
    <3>1. cur'.key = cur.key /\ cur'.value = cur.value
      BY <1>1, <2>2 DEF Entry
    <3>2. WalkedFor(s + 1)'
      <4>1. 0..((s + 1) - 1) = 0..s
        OBVIOUS
      <4>2. cur.key # key => \E d \in 0..s : Requested(entries[slot(d)])
        BY <1>3 DEF WalkedFor
      <4> QED BY <1>2, <1>5, <1>6, <1>7, <2>2, <3>1, <4>1, <4>2 DEF WalkedFor, Requested
    <3>3. Asked' /\ Apart'
      BY <1>2, <2>2, <3>1 DEF RInv, Asked, Apart
    <3> QED BY <3>2, <3>3
  <2> QED BY <2>1, <2>2 DEF Advance
<1>10. Walked'
  BY <1>2, <1>4, <1>9 DEF Walked, Probing
<1>11. Room'
  BY <1>2 DEF RInv, Room, Probing
<1> QED BY <1>9, <1>10, <1>11 DEF RInv
LEMMA RefillR ==
  ASSUME RInv, UInv', Refill
  PROVE  RInv'
<1>1. PICK i \in Occupied(old) :
        /\ i >= pos /\ pos' = i + 1
        /\ StartProbe(old[i].key, old[i].value, "reinsert")
  BY DEF Refill
<1>2. /\ pc = "refill" /\ size < threshold
      /\ UNCHANGED <<entries, size, capacity, load, threshold, op, old>>
  BY DEF Refill
<1>3. PICK n \in Capacities \cup {0} : old \in [0..(n - 1) -> Entry] /\ pos \in 0..n
  BY DEF RInv, UInv, IInv, TypeOK
<1>4. /\ n \in Nat /\ i \in 0..(n - 1) /\ old[i].key \in Keys /\ size \in Nat
      /\ capacity \in Nat \ {0} /\ load \in Loads /\ threshold = Threshold(capacity, load)
  BY <1>3, CapacityRange, SMTT(20) DEF RInv, UInv, IInv, TypeOK, KnownKeys, Sound, Occupied
<1>5. /\ cur'.key = old[i].key /\ key' = old[i].key /\ pc' = "reinsert"
      /\ idx' = Mask(Home[old[i].key], capacity)
  BY <1>1 DEF StartProbe, NewEntry
<1>6. Apart'
  <2>1. ASSUME NEW j \in Occupied(old), j >= pos'
        PROVE  /\ cur'.key # old[j].key
               /\ \A h \in Occupied(entries) : entries[h].key # old[j].key
    <3>1. j \in 0..(n - 1)
      BY <1>3 DEF Occupied
    <3>2. j # i /\ j >= pos
      BY <1>1, <1>3, <1>4, <2>1, <3>1
    <3>3. cur'.key # old[j].key
      BY <1>5, <3>2 DEF RInv, Apart, UniqueIn
    <3> QED BY <1>2, <3>2, <3>3 DEF RInv, Apart
  <2>2. \A h \in Occupied(entries) : entries[h].key # cur'.key
    BY <1>1, <1>2, <1>5 DEF RInv, Apart
  <2> QED BY <1>2, <1>5, <2>1, <2>2 DEF Apart, RInv
<1>7. Asked'
  BY <1>2, <1>5 DEF RInv, Asked
<1>8. Home[old[i].key] + 0 = Home[old[i].key]
  BY <1>4, HomeAssumption
<1>9. WalkedFor(0)'
  BY <1>2, <1>4, <1>5, <1>8 DEF WalkedFor
<1>10. Walked'
  BY <1>4, <1>5, <1>9 DEF Walked
<1>11. size < capacity
  <2>1. load[1] \in Nat /\ load[2] \in Nat /\ 0 < load[2]
    BY <1>4, LoadsAssumption
  <2>2. threshold <= capacity /\ threshold \in Int
    BY <1>4, <2>1, ThresholdBound DEF Threshold
  <2> QED BY <1>2, <1>4, <2>2
<1>12. size + 1 <= pos'
  BY <1>1, <1>2, <1>3, <1>4 DEF RInv, Room
<1>13. op'.call \in {"insert", "index"} =>
         \E m \in Nat \ {0} : old' \in [0..(m - 1) -> Entry] /\ pos' \in 0..m /\ 2 * m <= capacity'
  <2> SUFFICES ASSUME op.call \in {"insert", "index"}
               PROVE  \E m \in Nat \ {0} : /\ old \in [0..(m - 1) -> Entry]
                                           /\ pos' \in 0..m /\ 2 * m <= capacity
    BY <1>2
  <2>1. PICK m \in Nat \ {0} : old \in [0..(m - 1) -> Entry] /\ pos \in 0..m /\ 2 * m <= capacity
    BY <1>2 DEF RInv, Room
  <2>2. i \in 0..(m - 1)
    BY <2>1 DEF Occupied
  <2>3. pos' \in 0..m
    BY <1>1, <2>1, <2>2
  <2> QED BY <2>1, <2>3
<1>14. Room'
  BY <1>2, <1>5, <1>11, <1>12, <1>13 DEF Room
<1> QED BY <1>6, <1>7, <1>10, <1>14 DEF RInv

LEMMA BlankUnique ==
  UniqueIn(Blank(0))
<1>1. Occupied(Blank(0)) = {}
  BY BlankTable
<1> QED BY <1>1 DEF UniqueIn

LEMMA EndRehashR ==
  ASSUME RInv, UInv', EndRehash
  PROVE  RInv'
<1>1. UniqueIn(old')
  BY BlankUnique DEF EndRehash
<1>2. pc = "refill" /\ UNCHANGED <<entries, size, capacity, load, threshold>>
  BY DEF EndRehash
<1>3. CASE /\ op.call \in {"insert", "index"}
           /\ StartProbe(op.key, op.value, "insert")
           /\ UNCHANGED <<op, ret>>
  <2>1. op.key \in Keys /\ size \in Nat /\ capacity \in Nat
    BY <1>3, CapacityRange DEF RInv, UInv, IInv, TypeOK, KnownKeys
  <2>2. PICK n \in Nat \ {0} : pos \in 0..n /\ 2 * n <= capacity
    BY <1>2, <1>3 DEF RInv, Room
  <2>3. size < capacity
    BY <1>2, <2>1, <2>2 DEF RInv, Room
  <2>4. op'.call = "index" => op'.value = DefaultValue
    BY <1>3 DEF RInv, Asked
  <2> QED BY <1>1, <1>2, <1>3, <2>1, <2>3, <2>4, StartProbeR
<1>4. CASE pc' = "idle" /\ op' = NoCall
  BY <1>1, <1>4, StoppedR DEF NoCall, Call
<1> QED BY <1>3, <1>4 DEF EndRehash

LEMMA OtherR ==
  ASSUME RInv, UInv',
         \/ Shift
         \/ CallClear
         \/ \E k \in Keys : CallErase(k) \/ CallGet(k)
         \/ NothingToTune
  PROVE  RInv'
<1>1. UniqueIn(old)
  BY DEF RInv, Apart
<1>2. op.call = "index" => op.value = DefaultValue
  BY DEF RInv, Asked
<1>3. /\ UNCHANGED old /\ pc' \in {"idle", "shift"}
      /\ UNCHANGED op \/ op'.call # "index"
  <2>1. CASE Shift
    BY <2>1 DEF Shift, NoCall, Call
  <2>2. CASE CallClear \/ NothingToTune \/ \E k \in Keys : CallGet(k)
    BY <2>2 DEF CallClear, NothingToTune, CallGet
  <2>3. CASE \E k \in Keys : CallErase(k)
    BY <2>3 DEF CallErase, Call
  <2> QED BY <2>1, <2>2, <2>3
<1>4. UniqueIn(old')
  BY <1>1, <1>3
<1>5. op'.call = "index" => op'.value = DefaultValue
  BY <1>2, <1>3
<1> QED BY <1>3, <1>4, <1>5, StoppedR

LEMMA TuningR ==
  ASSUME RInv, UInv',
         \/ \E n \in Requests : CallRehash(n) \/ CallReserve(n)
         \/ \E l \in Loads : CallMaxLoadFactor(l)
  PROVE  RInv'
<1>1. CASE \E n \in Nat : BeginTune /\ StartRehash(n)
  <2>1. op'.call = "tune"
    BY <1>1 DEF BeginTune, Call
  <2> QED BY <1>1, <2>1, StartRehashR
<1>2. CASE NothingToTune
  BY <1>2, OtherR
<1>3. capacity * 2 \in Nat /\ load \in Nat \X Nat /\ load[1] > 0
  <2>1. capacity \in Capacities /\ load \in Loads
    BY DEF RInv, UInv, IInv, TypeOK
  <2>2. capacity \in Nat
    BY <2>1, CapacityRange
  <2>3. load \in Nat \X Nat /\ load[1] > 0
    BY <2>1, LoadsAssumption
  <2> QED BY <2>2, <2>3
<1>4. \A n \in Requests : n \in Nat /\ Required(n) \in Nat
  <2> SUFFICES ASSUME NEW n \in Requests PROVE n \in Nat /\ Required(n) \in Nat
    OBVIOUS
  <2>1. n \in Nat /\ n * load[2] \in Nat
    BY <1>3, ArgumentsAssumption
  <2> QED BY <1>3, <2>1 DEF Required
<1> QED BY <1>1, <1>2, <1>3, <1>4 DEF CallRehash, CallReserve, CallMaxLoadFactor

LEMMA CallInsertR ==
  ASSUME RInv, UInv', NEW k \in Keys,
         CallIndex(k) \/ \E v \in Values : CallInsert(k, v)
  PROVE  RInv'
<1>1. ASSUME NEW v \in Values, CallInsert(k, v) PROVE RInv'
  BY <1>1, StartEmplaceR DEF CallInsert, Call
<1>2. CASE pc = "idle" /\ UNCHANGED load /\ op' = Call("index", k, DefaultValue)
           /\ StartEmplace(k, DefaultValue)
  BY <1>2, StartEmplaceR DEF Call
<1>3. CASE pc = "idle" /\ UNCHANGED <<pc, op, old>>
  <2>1. UniqueIn(old') /\ (op'.call = "index" => op'.value = DefaultValue)
    BY <1>3 DEF RInv, Apart, Asked
  <2> QED BY <1>3, <2>1, StoppedR
<1> QED BY <1>1, <1>2, <1>3 DEF CallIndex

LEMMA InitR == Init => RInv
<1> SUFFICES ASSUME Init PROVE RInv
  OBVIOUS
<1>1. UniqueIn(old)
  BY BlankUnique DEF Init
<1> QED BY <1>1, InitUnique DEF Init, RInv, Apart, Asked, Walked, Room, Probing, NoCall, Call

LEMMA StepR ==
  ASSUME RInv, [Next]_vars
  PROVE  RInv'
<1>1. UInv'
  BY StepUnique DEF RInv
<1>2. CASE Loop
  BY <1>1, <1>2, PlaceR, RefuseR, AdvanceR, RefillR, EndRehashR, OtherR DEF Loop
<1>3. CASE UNCHANGED vars
  BY <1>1, <1>3 DEF vars, RInv, Apart, Asked, Walked, WalkedFor, Requested, Room, Probing
<1> QED BY <1>1, <1>2, <1>3, CallInsertR, OtherR, TuningR DEF Next

(* What a caller could tell of the table is in it once, and emplace stays ahead
   of its own tail, in every reachable state. *)
THEOREM RefinementInvariance == Spec => []RInv
BY InitR, StepR, PTL DEF Spec

-----------------------------------------------------------------------------
(* Sets of entries that hold no key twice, and the associations they make. *)

KeysOnce(S) == \A e, f \in S : e.key = f.key => e = f

Says(S, e) == \E f \in S : f.key = e.key /\ f.value = e.value

AssocOf(S) == [k \in {e.key : e \in S} |-> (CHOOSE e \in S : e.key = k).value]

LEMMA AssocDomain ==
  ASSUME NEW S
  PROVE  \A k : k \in DOMAIN AssocOf(S) <=> \E e \in S : e.key = k
BY DEF AssocOf

LEMMA AssocAt ==
  ASSUME NEW S, KeysOnce(S), NEW e \in S
  PROVE  e.key \in DOMAIN AssocOf(S) /\ AssocOf(S)[e.key] = e.value
<1>1. e.key \in {f.key : f \in S}
  OBVIOUS
<1>2. (CHOOSE f \in S : f.key = e.key) = e
  BY DEF KeysOnce
<1> QED BY <1>1, <1>2 DEF AssocOf

LEMMA SameAssoc ==
  ASSUME NEW S, NEW T, KeysOnce(S), KeysOnce(T),
         \A e \in S : Says(T, e), \A e \in T : Says(S, e)
  PROVE  AssocOf(S) = AssocOf(T)
<1>1. DOMAIN AssocOf(S) = DOMAIN AssocOf(T)
  <2>1. \A k : (\E e \in S : e.key = k) <=> (\E e \in T : e.key = k)
    BY DEF Says
  <2> QED BY <2>1, AssocDomain
<1>2. ASSUME NEW k \in DOMAIN AssocOf(S) PROVE AssocOf(S)[k] = AssocOf(T)[k]
  <2>1. PICK e \in S : e.key = k
    BY AssocDomain
  <2>2. PICK f \in T : f.key = k /\ f.value = e.value
    BY <2>1 DEF Says
  <2> QED BY <2>1, <2>2, AssocAt
<1>3. /\ AssocOf(S) = [k \in DOMAIN AssocOf(S) |-> AssocOf(S)[k]]
      /\ AssocOf(T) = [k \in DOMAIN AssocOf(T) |-> AssocOf(T)[k]]
  BY DEF AssocOf
<1> QED BY <1>1, <1>2, <1>3

LEMMA AddedAssoc ==
  ASSUME NEW S, NEW T, KeysOnce(S), KeysOnce(T), NEW f \in T,
         \A e \in S : e.key # f.key,
         \A e \in S : Says(T, e),
         \A e \in T : e = f \/ Says(S, e)
  PROVE  AssocOf(T) = [j \in DOMAIN AssocOf(S) \cup {f.key} |->
                         IF j = f.key THEN f.value ELSE AssocOf(S)[j]]
<1> DEFINE G == [j \in DOMAIN AssocOf(S) \cup {f.key} |->
                   IF j = f.key THEN f.value ELSE AssocOf(S)[j]]
<1>1. DOMAIN AssocOf(T) = DOMAIN AssocOf(S) \cup {f.key}
  <2>1. \A k : (\E e \in T : e.key = k) <=> k = f.key \/ \E e \in S : e.key = k
    <3>1. ASSUME NEW e \in T PROVE e.key = f.key \/ \E g \in S : g.key = e.key
      BY DEF Says
    <3>2. ASSUME NEW e \in S PROVE \E g \in T : g.key = e.key
      BY DEF Says
    <3> QED BY <3>1, <3>2
  <2>2. /\ \A k : k \in DOMAIN AssocOf(T) <=> \E e \in T : e.key = k
        /\ \A k : k \in DOMAIN AssocOf(S) <=> \E e \in S : e.key = k
    BY AssocDomain
  <2>3. \A k : k \in DOMAIN AssocOf(T) <=> k \in DOMAIN AssocOf(S) \cup {f.key}
    BY <2>1, <2>2
  <2> QED BY <2>3
<1>2. ASSUME NEW k \in DOMAIN AssocOf(T) PROVE AssocOf(T)[k] = G[k]
  <2>1. CASE k = f.key
    <3>1. AssocOf(T)[f.key] = f.value
      BY AssocAt
    <3>2. G[k] = f.value
      BY <1>1, <2>1
    <3> QED BY <2>1, <3>1, <3>2
  <2>2. CASE k # f.key
    <3>1. PICK e \in S : e.key = k
      BY <1>1, <2>2, AssocDomain
    <3>2. PICK g \in T : g.key = k /\ g.value = e.value
      BY <3>1 DEF Says
    <3>3. AssocOf(T)[k] = e.value /\ AssocOf(S)[k] = e.value
      BY <3>1, <3>2, AssocAt
    <3> QED BY <1>1, <2>2, <3>3
  <2> QED BY <2>1, <2>2
<1>3. AssocOf(T) = [k \in DOMAIN AssocOf(T) |-> AssocOf(T)[k]]
  BY DEF AssocOf
<1> QED BY <1>1, <1>2, <1>3

LEMMA RemovedAssoc ==
  ASSUME NEW S, NEW T, KeysOnce(S), KeysOnce(T), NEW k,
         T = {e \in S : e.key # k}
  PROVE  AssocOf(T) = [j \in DOMAIN AssocOf(S) \ {k} |-> AssocOf(S)[j]]
<1>1. DOMAIN AssocOf(T) = DOMAIN AssocOf(S) \ {k}
  <2>1. \A j : (\E e \in T : e.key = j) <=> j # k /\ \E e \in S : e.key = j
    OBVIOUS
  <2> QED BY <2>1, AssocDomain
<1>2. ASSUME NEW j \in DOMAIN AssocOf(T) PROVE AssocOf(T)[j] = AssocOf(S)[j]
  <2>1. PICK e \in T : e.key = j
    BY AssocDomain
  <2> QED BY <2>1, AssocAt
<1>3. AssocOf(T) = [j \in DOMAIN AssocOf(T) |-> AssocOf(T)[j]]
  BY DEF AssocOf
<1> QED BY <1>1, <1>2, <1>3

LEMMA AssociationIs ==
  Association = AssocOf(Seen) /\ Association' = AssocOf(Seen')
BY DEF Association, AssocOf

-----------------------------------------------------------------------------
(* What can be told of the table at each point of a call. *)

All(t) == {t[i] : i \in Occupied(t)}

LEMMA AllPairs ==
  ASSUME NEW n \in Nat, NEW t \in [0..(n - 1) -> Entry]
  PROVE  Pairs(t, 0) = All(t)
<1>1. {j \in Occupied(t) : j >= 0} = Occupied(t)
  BY DEF Occupied
<1> QED BY <1>1 DEF Pairs, All

LEMMA SeenIs ==
  ASSUME RInv
  PROVE  /\ pc \in {"idle", "shift"} => Seen = All(entries)
         /\ pc = "refill" => Seen = All(entries) \cup Pairs(old, pos)
         /\ pc = "reinsert" => Seen = All(entries) \cup Pairs(old, pos) \cup {cur}
         /\ pc = "insert" /\ cur.key = key => Seen = All(entries)
         /\ pc = "insert" /\ cur.key # key =>
              Seen = {e \in All(entries) \cup {cur} : e.key # key}
<1>1. Pairs(entries, 0) = All(entries)
  BY AllPairs, CapacityRange DEF RInv, UInv, IInv, TypeOK
<1> QED BY <1>1 DEF Seen, Held

LEMMA SeenIsNext ==
  ASSUME RInv'
  PROVE  /\ pc' \in {"idle", "shift"} => Seen' = All(entries')
         /\ pc' = "refill" => Seen' = All(entries') \cup Pairs(old', pos')
         /\ pc' = "reinsert" => Seen' = All(entries') \cup Pairs(old', pos') \cup {cur'}
         /\ pc' = "insert" /\ cur'.key = key' => Seen' = All(entries')
         /\ pc' = "insert" /\ cur'.key # key' =>
              Seen' = {e \in All(entries') \cup {cur'} : e.key # key'}
<1>1. Pairs(entries', 0) = All(entries')
  BY AllPairs, CapacityRange DEF RInv, UInv, IInv, TypeOK
<1> QED BY <1>1 DEF Seen, Held

(* No key is there twice. *)
LEMMA SeenOnce == RInv => KeysOnce(Seen)
<1> SUFFICES ASSUME RInv PROVE KeysOnce(Seen)
  OBVIOUS
<1>1. \A e, f \in All(entries) : e.key = f.key => e = f
  BY DEF RInv, UInv, UniqueIn, All
<1>2. \A e, f \in Pairs(old, pos) : e.key = f.key => e = f
  BY DEF RInv, Apart, UniqueIn, Pairs
<1>3. CASE pc \in {"idle", "shift"} \/ (pc = "insert" /\ cur.key = key)
  BY <1>1, <1>3, SeenIs DEF KeysOnce
<1>4. CASE pc = "insert" /\ cur.key # key
  <2>1. \A e \in All(entries) : e.key # cur.key
    BY <1>4 DEF RInv, UInv, TakenOut, Probing, All
  <2> QED BY <1>1, <1>4, <2>1, SeenIs DEF KeysOnce
<1>5. CASE pc \in {"refill", "reinsert"}
  <2>1. \A e \in All(entries), f \in Pairs(old, pos) : e.key # f.key
    BY <1>5 DEF RInv, Apart, All, Pairs
  <2>2. pc = "reinsert" => \A e \in All(entries) \cup Pairs(old, pos) : e.key # cur.key
    BY DEF RInv, Apart, All, Pairs
  <2> QED BY <1>1, <1>2, <1>5, <2>1, <2>2, SeenIs DEF KeysOnce
<1> QED BY <1>3, <1>4, <1>5 DEF RInv, UInv, IInv, TypeOK

-----------------------------------------------------------------------------
(* Steps that no caller can tell from no step. *)

LEMMA InvariantTable ==
  ASSUME RInv
  PROVE  /\ capacity \in Nat \ {0} /\ entries \in [0..(capacity - 1) -> Entry]
         /\ size = Cardinality(Occupied(entries)) /\ UniqueIn(entries)
         /\ Sound(entries) /\ (pc # "shift" => Ordered(entries, capacity))
         /\ \E n \in Nat : old \in [0..(n - 1) -> Entry] /\ pos \in 0..n
BY CapacityRange DEF RInv, UInv, Counted, IInv, TypeOK, KnownKeys, Order

LEMMA SameSeen ==
  ASSUME Seen' = Seen
  PROVE  UNCHANGED Association
BY AssociationIs

LEMMA StartRehashUnseen ==
  ASSUME RInv, RInv', pc = "idle", NEW n, StartRehash(n)
  PROVE  UNCHANGED <<Association, ret>>
<1>1. RoundUp(Larger(n, size * 2)) \in Nat
  BY RoundUpCapacity, CapacityRange DEF StartRehash
<1>2. All(entries') = {}
  BY <1>1, BlankTable DEF StartRehash, All
<1>3. Pairs(old', pos') = All(entries)
  BY InvariantTable, AllPairs DEF StartRehash
<1>4. Seen' = Seen
  BY <1>2, <1>3, SeenIs, SeenIsNext DEF StartRehash
<1> QED BY <1>4, SameSeen DEF StartRehash

LEMMA StartEmplaceUnseen ==
  ASSUME RInv, RInv', pc = "idle", NEW k, NEW v, StartEmplace(k, v)
  PROVE  UNCHANGED <<Association, ret>>
<1>1. CASE StartProbe(k, v, "insert") /\ UNCHANGED <<entries, ret>>
  <2>1. pc' = "insert" /\ cur'.key = key'
    BY <1>1 DEF StartProbe, NewEntry
  <2>2. Seen' = Seen
    BY <1>1, <2>1, SeenIs, SeenIsNext
  <2> QED BY <1>1, <2>2, SameSeen
<1> QED BY <1>1, StartRehashUnseen DEF StartEmplace

(* From the old table into emplace. *)
LEMMA RefillUnseen ==
  ASSUME RInv, RInv', KeysOnce(Seen), KeysOnce(Seen'), Refill
  PROVE  UNCHANGED <<Association, ret>>
<1>1. PICK i \in Occupied(old) :
        /\ i >= pos /\ \A j \in Occupied(old) : j >= pos => i <= j
        /\ pos' = i + 1
        /\ StartProbe(old[i].key, old[i].value, "reinsert")
  BY DEF Refill
<1>2. pc = "refill" /\ UNCHANGED <<entries, old, ret>>
  BY DEF Refill
<1>3. pc' = "reinsert" /\ cur'.key = old[i].key /\ cur'.value = old[i].value
  BY <1>1 DEF StartProbe, NewEntry
<1>4. PICK n \in Nat : old \in [0..(n - 1) -> Entry] /\ pos \in 0..n
  BY InvariantTable
<1>5. Occupied(old) \subseteq 0..(n - 1)
  BY <1>4 DEF Occupied
<1>6. /\ Seen = All(entries) \cup Pairs(old, pos)
      /\ Seen' = All(entries) \cup Pairs(old, i + 1) \cup {cur'}
  BY <1>1, <1>2, <1>3, SeenIs, SeenIsNext
<1>7. old[i] \in Pairs(old, pos)
  BY <1>1 DEF Pairs
<1>8. ASSUME NEW e \in Pairs(old, pos)
      PROVE  e = old[i] \/ e \in Pairs(old, i + 1)
  <2>1. PICK j \in Occupied(old) : j >= pos /\ e = old[j]
    BY DEF Pairs
  <2>2. j = i \/ j >= i + 1
    BY <1>1, <1>5, <2>1
  <2> QED BY <2>1, <2>2 DEF Pairs
<1>9. Pairs(old, i + 1) \subseteq Pairs(old, pos)
  <2> SUFFICES ASSUME NEW j \in Occupied(old), j >= i + 1
               PROVE  old[j] \in Pairs(old, pos)
    BY DEF Pairs
  <2>1. j >= pos
    BY <1>1, <1>4, <1>5
  <2> QED BY <2>1 DEF Pairs
<1>10. \A e \in Seen : Says(Seen', e)
  BY <1>3, <1>6, <1>8 DEF Says
<1>11. \A e \in Seen' : Says(Seen, e)
  BY <1>3, <1>6, <1>7, <1>9 DEF Says
<1>12. AssocOf(Seen) = AssocOf(Seen')
  BY <1>10, <1>11, SameAssoc
<1> QED BY <1>2, <1>12, AssociationIs

(* At the end of rehash nothing is left in the old table. *)
LEMMA EndRehashUnseen ==
  ASSUME RInv, RInv', EndRehash
  PROVE  UNCHANGED Association
<1>1. pc = "refill" /\ entries' = entries
  BY DEF EndRehash
<1>2. Pairs(old, pos) = {}
  <2>1. PICK n \in Nat : old \in [0..(n - 1) -> Entry] /\ pos \in 0..n
    BY InvariantTable
  <2>2. \A j \in Occupied(old) : j \in 0..(n - 1) /\ j < pos
    BY <2>1 DEF EndRehash, Occupied
  <2>3. \A j \in Occupied(old) : ~(j >= pos)
    BY <2>1, <2>2
  <2> QED BY <2>3 DEF Pairs
<1>3. pc' = "idle" \/ (pc' = "insert" /\ cur'.key = key')
  BY DEF EndRehash, StartProbe, NewEntry
<1>4. Seen' = Seen
  BY <1>1, <1>2, <1>3, SeenIs, SeenIsNext
<1> QED BY <1>4, SameSeen

(* What a swap takes out of the table is carried, and the other way round. *)
LEMMA AdvanceUnseen ==
  ASSUME RInv, RInv', KeysOnce(Seen), KeysOnce(Seen'), Advance
  PROVE  UNCHANGED <<Association, ret>>
<1> DEFINE e == entries[idx]
<1>1. /\ capacity \in Nat \ {0} /\ entries \in [0..(capacity - 1) -> Entry]
      /\ cur \in Entry /\ idx \in 0..(capacity - 1) /\ e \in Entry
      /\ cur.occupied /\ cur.distance \in Nat /\ e.distance \in Nat
  BY CapacityRange DEF RInv, UInv, IInv, TypeOK, Carried, Advance, Entry
<1>2. /\ e.occupied /\ e.key # key /\ Probing
      /\ UNCHANGED <<pc, key, old, pos, ret>>
  BY DEF Advance
<1>3. e \in All(entries)
  BY <1>1, <1>2 DEF All, Occupied
<1>4. CASE /\ Displaces(e)
           /\ entries' = [entries EXCEPT ![idx] = cur]
           /\ cur' = [e EXCEPT !.distance = @ + 1]
  <2>1. cur'.key = e.key /\ cur'.value = e.value
    BY <1>1, <1>4 DEF Entry
  <2>2. \A f \in All(entries) : f.key # cur.key
    <3>1. e.distance < cur.distance
      BY <1>1, <1>4 DEF Displaces
    <3>2. \A j \in Occupied(entries) : entries[j].key # cur.key
      BY <1>2, <3>1, CarriedNotThere DEF RInv
    <3> QED BY <3>2 DEF All
  <2>3. /\ cur \in All(entries')
        /\ \A f \in All(entries') : f = cur \/ f \in All(entries)
        /\ \A f \in All(entries) : f = e \/ f \in All(entries')
    <3>1. Occupied(entries') = Occupied(entries) /\ idx \in Occupied(entries)
      BY <1>1, <1>2, <1>4 DEF Occupied
    <3>2. \A j \in Occupied(entries) : entries'[j] = IF j = idx THEN cur ELSE entries[j]
      BY <1>1, <1>4, <3>1 DEF Occupied
    <3> QED BY <3>1, <3>2 DEF All
  <2>4. Says(Seen', e) /\ \A f \in Seen : f # e => f \in Seen'
    <3>1. CASE pc = "insert"
      <4>1. Seen' = {f \in All(entries') \cup {cur'} : f.key # key}
        BY <1>2, <2>1, <3>1, SeenIsNext
      <4>2. cur' \in Seen'
        BY <1>2, <2>1, <4>1
      <4>3. Says(Seen', e)
        BY <2>1, <4>2 DEF Says
      <4>4. CASE cur.key = key
        BY <2>2, <2>3, <3>1, <4>1, <4>3, <4>4, SeenIs
      <4>5. CASE cur.key # key
        BY <2>2, <2>3, <3>1, <4>1, <4>3, <4>5, SeenIs
      <4> QED BY <4>4, <4>5
    <3>2. CASE pc = "reinsert"
      <4>1. Seen' = All(entries') \cup Pairs(old, pos) \cup {cur'}
        BY <1>2, <3>2, SeenIsNext
      <4>2. Says(Seen', e)
        BY <2>1, <4>1 DEF Says
      <4> QED BY <2>3, <3>2, <4>1, <4>2, SeenIs
    <3> QED BY <1>2, <3>1, <3>2 DEF Probing
  <2>5. e \in Seen /\ \A f \in Seen' : f # cur' => f \in Seen
    <3>1. CASE pc = "insert"
      <4>1. Seen' = {f \in All(entries') \cup {cur'} : f.key # key}
        BY <1>2, <2>1, <3>1, SeenIsNext
      <4>2. CASE cur.key = key
        BY <1>3, <2>3, <3>1, <4>1, <4>2, SeenIs
      <4>3. CASE cur.key # key
        BY <1>2, <1>3, <2>3, <3>1, <4>1, <4>3, SeenIs
      <4> QED BY <4>2, <4>3
    <3>2. CASE pc = "reinsert"
      <4>1. Seen' = All(entries') \cup Pairs(old, pos) \cup {cur'}
        BY <1>2, <3>2, SeenIsNext
      <4> QED BY <1>3, <2>3, <3>2, <4>1, SeenIs
    <3> QED BY <1>2, <3>1, <3>2 DEF Probing
  <2>6. (\A f \in Seen : Says(Seen', f)) /\ (\A f \in Seen' : Says(Seen, f))
    BY <2>1, <2>4, <2>5 DEF Says
  <2> QED BY <1>2, <2>6, SameAssoc, AssociationIs
<1>5. CASE cur' = [cur EXCEPT !.distance = @ + 1] /\ UNCHANGED entries
  <2>1. cur'.key = cur.key /\ cur'.value = cur.value
    BY <1>1, <1>5 DEF Entry
  <2>2. (\A f \in Seen : Says(Seen', f)) /\ (\A f \in Seen' : Says(Seen, f))
    <3>1. CASE pc = "insert"
      BY <1>2, <1>5, <2>1, <3>1, SeenIs, SeenIsNext DEF Says
    <3>2. CASE pc = "reinsert"
      BY <1>2, <1>5, <2>1, <3>2, SeenIs, SeenIsNext DEF Says
    <3> QED BY <1>2, <3>1, <3>2 DEF Probing
  <2> QED BY <1>2, <2>2, SameAssoc, AssociationIs
<1> QED BY <1>4, <1>5 DEF Advance

LEMMA ShiftUnseen ==
  ASSUME RInv, RInv', KeysOnce(Seen), KeysOnce(Seen'), Shift
  PROVE  UNCHANGED <<Association, ret>>
<1> DEFINE next == Mask(idx + 1, capacity)
<1>1. /\ capacity \in Nat \ {0} /\ entries \in [0..(capacity - 1) -> Entry]
      /\ idx \in 0..(capacity - 1) /\ ~entries[idx].occupied
      /\ pc = "shift" /\ ret' = ret
  BY CapacityRange DEF RInv, UInv, IInv, TypeOK, Order, OrderedBut, Shift
<1>2. next \in 0..(capacity - 1)
  BY <1>1, MaskRange
<1> HIDE DEF next
<1>3. CASE /\ MovesUp(entries[next])
           /\ entries' = [entries EXCEPT ![idx] = CloserHome(entries[next]), ![next] = Fresh]
           /\ UNCHANGED pc
  <2>1. entries[next].occupied /\ next # idx /\ entries[next] \in Entry
    BY <1>1, <1>2, <1>3 DEF MovesUp
  <2> DEFINE moved == CloserHome(entries[next])
  <2>2. moved.occupied /\ moved.key = entries[next].key /\ moved.value = entries[next].value
    BY <2>1 DEF CloserHome, Entry
  <2> HIDE DEF moved
  <2>3. /\ entries'[idx] = moved /\ ~entries'[next].occupied
        /\ DOMAIN entries' = DOMAIN entries
        /\ \A w \in 0..(capacity - 1) : w # idx /\ w # next => entries'[w] = entries[w]
    BY <1>1, <1>2, <1>3, <2>1 DEF Fresh, moved
  <2>4. /\ Occupied(entries') = (Occupied(entries) \ {next}) \cup {idx}
        /\ next \in Occupied(entries) /\ idx \notin Occupied(entries)
    BY <1>1, <1>2, <2>1, <2>2, <2>3 DEF Occupied
  <2>5. \A w \in Occupied(entries) \ {next} : entries'[w] = entries[w]
    BY <1>1, <2>3, <2>4 DEF Occupied
  <2>6. ASSUME NEW f \in All(entries) PROVE Says(All(entries'), f)
    <3>1. PICK w \in Occupied(entries) : f = entries[w]
      BY DEF All
    <3>2. CASE w = next
      BY <2>2, <2>3, <2>4, <3>1, <3>2 DEF All, Says
    <3>3. CASE w # next
      BY <2>4, <2>5, <3>1, <3>3 DEF All, Says
    <3> QED BY <3>2, <3>3
  <2>7. ASSUME NEW f \in All(entries') PROVE Says(All(entries), f)
    <3>1. PICK w \in Occupied(entries') : f = entries'[w]
      BY DEF All
    <3>2. CASE w = idx
      BY <2>2, <2>3, <2>4, <3>1, <3>2 DEF All, Says
    <3>3. CASE w # idx
      BY <2>4, <2>5, <3>1, <3>3 DEF All, Says
    <3> QED BY <3>2, <3>3
  <2>8. Seen = All(entries) /\ Seen' = All(entries')
    BY <1>1, <1>3, SeenIs, SeenIsNext
  <2> QED BY <1>1, <2>6, <2>7, <2>8, SameAssoc, AssociationIs
<1>4. CASE pc' = "idle" /\ UNCHANGED entries
  <2>1. Seen' = Seen
    BY <1>1, <1>4, SeenIs, SeenIsNext
  <2> QED BY <1>1, <2>1, SameSeen
<1> QED BY <1>3, <1>4 DEF Shift, next

-----------------------------------------------------------------------------
(* Steps that answer. *)

(* A lookup between calls answers what the association says. *)
LEMMA LookupAnswers ==
  ASSUME RInv, KeysOnce(Seen), pc = "idle", NEW k \in Keys
  PROVE  /\ FindIndex(entries, size, k) = NoSlot <=> k \notin DOMAIN Association
         /\ ValueOf(entries, size, k) =
              IF k \in DOMAIN Association THEN Association[k] ELSE Absent
<1> DEFINE i == FindIndex(entries, size, k)
<1>1. Seen = All(entries) /\ Association = AssocOf(Seen)
  BY SeenIs, AssociationIs
<1>2. /\ capacity \in Nat \ {0} /\ entries \in [0..(capacity - 1) -> Entry]
      /\ size = Cardinality(Occupied(entries)) /\ UniqueIn(entries)
      /\ Sound(entries) /\ Ordered(entries, capacity)
  BY InvariantTable
<1>3. CASE i # NoSlot
  <2>1. i \in 0..(capacity - 1) /\ entries[i].occupied /\ entries[i].key = k
    BY <1>2, <1>3, FoundOccupied
  <2>2. ValueOf(entries, size, k) = entries[i].value
    BY <1>3 DEF ValueOf
  <2> HIDE DEF i
  <2>3. entries[i] \in Seen
    BY <1>1, <1>2, <2>1 DEF All, Occupied
  <2>4. k \in DOMAIN Association /\ Association[k] = entries[i].value
    BY <1>1, <2>1, <2>3, AssocAt
  <2> QED BY <1>3, <2>2, <2>4 DEF i
<1>4. CASE i = NoSlot
  <2>1. ASSUME k \in DOMAIN Association PROVE FALSE
    <3>1. PICK e \in Seen : e.key = k
      BY <1>1, <2>1, AssocDomain
    <3>2. PICK j \in Occupied(entries) : entries[j].key = k
      BY <1>1, <3>1 DEF All
    <3>3. size # 0
      BY <1>2, <3>2, OccupiedFinite, FS_EmptySet
    <3>4. i = j
      BY <1>2, <3>2, <3>3, EntryFound
    <3>5. j # NoSlot
      BY <1>2, <3>2 DEF Occupied, NoSlot
    <3> QED BY <1>4, <3>4, <3>5
  <2>2. ValueOf(entries, size, k) = Absent
    BY <1>4 DEF ValueOf
  <2> QED BY <1>4, <2>1, <2>2
<1> QED BY <1>3, <1>4

(* Where an emplace called from outside ends, in a table t that holds entry f
   for the key that was asked for, a lookup in t finds f. *)
LEMMA EmplaceAnswers ==
  ASSUME RInv, RInv', Probing, UNCHANGED capacity, pc' # "shift",
         NEW f \in All(entries')
  PROVE  ValueOf(entries', size', f.key) = f.value
<1>1. /\ capacity \in Nat \ {0} /\ entries' \in [0..(capacity - 1) -> Entry]
      /\ size' = Cardinality(Occupied(entries')) /\ UniqueIn(entries')
      /\ Sound(entries') /\ Ordered(entries', capacity)
  BY CapacityRange DEF RInv, UInv, Counted, IInv, TypeOK, KnownKeys, Order
<1>2. PICK i \in Occupied(entries') : entries'[i] = f
  BY DEF All
<1>3. size' # 0
  BY <1>1, <1>2, OccupiedFinite, FS_EmptySet
<1>4. FindIndex(entries', size', f.key) = i
  BY <1>1, <1>2, <1>3, EntryFound
<1>5. i # NoSlot
  BY <1>1, <1>2 DEF Occupied, NoSlot
<1> QED BY <1>2, <1>4, <1>5 DEF ValueOf

(* The carried entry comes to a free slot: the association has one key more. *)
LEMMA PlaceAnswers ==
  ASSUME RInv, RInv', KeysOnce(Seen), KeysOnce(Seen'), Place
  PROVE  \/ UNCHANGED <<Association, ret>>
         \/ \E k \in Keys : Abstract!Index(k) \/ \E v \in Values : Abstract!Insert(k, v)
<1>1. /\ entries \in [0..(capacity - 1) -> Entry] /\ idx \in 0..(capacity - 1)
      /\ cur \in Entry /\ cur.occupied /\ capacity \in Nat \ {0} /\ op \in Calls
  BY CapacityRange DEF RInv, UInv, IInv, TypeOK, Carried, Place
<1>2. /\ entries' = [entries EXCEPT ![idx] = cur] /\ ~entries[idx].occupied /\ Probing
      /\ ReturnEmplace("yes")
  BY DEF Place
<1>3. /\ Occupied(entries') = Occupied(entries) \cup {idx} /\ idx \notin Occupied(entries)
      /\ \A j \in Occupied(entries) : entries'[j] = entries[j]
      /\ entries'[idx] = cur
  BY <1>1, <1>2 DEF Occupied
<1>4. All(entries') = All(entries) \cup {cur}
  BY <1>3 DEF All
<1>5. CASE pc = "reinsert" /\ pc' = "refill" /\ UNCHANGED <<ret, old, pos>>
  <2>1. Seen' = Seen
    BY <1>4, <1>5, SeenIs, SeenIsNext
  <2> QED BY <1>5, <2>1, SameSeen
<1>6. CASE pc = "insert" /\ pc' = "idle" /\ ret' = EmplaceAnswer("yes") /\ UNCHANGED capacity
  <2>1. /\ key = op.key /\ op.key \in Keys /\ op.value \in Values
        /\ op.call \in {"insert", "index"} /\ (op.call = "index" => op.value = DefaultValue)
    BY <1>1, <1>6 DEF RInv, Asked, UInv, IInv, KnownKeys, Calls
  <2>2. \E f \in All(entries') : f.key = key /\ f.value = op.value
    <3>1. CASE cur.key = key
      BY <1>4, <1>6, <3>1 DEF RInv, Asked
    <3>2. CASE cur.key # key
      <4>1. PICK s \in Nat : WalkedFor(s)
        BY <1>2 DEF RInv, Walked
      <4>2. PICK d \in 0..(s - 1) : Requested(entries[Mask(Home[key] + d, capacity)])
        BY <3>2, <4>1 DEF WalkedFor
      <4> DEFINE w == Mask(Home[key] + d, capacity)
      <4>3. entries[w].occupied
        BY <4>1, <4>2 DEF WalkedFor
      <4>4. w \in 0..(capacity - 1)
        <5>1. d \in Nat /\ key \in Keys
          BY <2>1
        <5> QED BY <1>1, <5>1, WayRange
      <4> HIDE DEF w
      <4>5. w \in Occupied(entries)
        BY <1>1, <4>3, <4>4 DEF Occupied
      <4>6. entries[w] \in All(entries')
        BY <1>4, <4>5 DEF All
      <4> QED BY <1>6, <4>2, <4>6 DEF Requested, w
    <3> QED BY <3>1, <3>2
  <2>3. PICK f \in All(entries') : f.key = key /\ f.value = op.value
    BY <2>2
  <2>4. Seen' = All(entries')
    BY <1>6, SeenIsNext
  <2>5. /\ \A e \in Seen : e.key # key
        /\ \A e \in Seen : e \in Seen'
        /\ \A e \in Seen' : e.key = key \/ e \in Seen
    <3>1. CASE cur.key = key
      <4>1. \A e \in All(entries) : e.key # key
        BY <1>2, <3>1, CarriedNotThere DEF RInv, All
      <4> QED BY <1>4, <1>6, <2>4, <3>1, <4>1, SeenIs
    <3>2. CASE cur.key # key
      BY <1>4, <1>6, <2>4, <3>2, SeenIs
    <3> QED BY <3>1, <3>2
  <2>6. AssocOf(Seen') = [j \in DOMAIN AssocOf(Seen) \cup {f.key} |->
                            IF j = f.key THEN f.value ELSE AssocOf(Seen)[j]]
    <3>1. \A e \in Seen' : e = f \/ e \in Seen
      BY <2>3, <2>4, <2>5 DEF KeysOnce
    <3>2. (\A e \in Seen : Says(Seen', e)) /\ (\A e \in Seen' : e = f \/ Says(Seen, e))
      BY <2>5, <3>1 DEF Says
    <3>3. \A e \in Seen : e.key # f.key
      BY <2>3, <2>5
    <3> QED BY <2>3, <2>4, <3>2, <3>3, AddedAssoc
  <2>7. Association' = Abstract!Extended(op.key, op.value) /\ op.key \notin DOMAIN Association
    <3>1. op.key \notin DOMAIN Association
      BY <2>1, <2>5, AssocDomain, AssociationIs
    <3>2. Association' = [j \in DOMAIN Association \cup {op.key} |->
                            IF j = op.key THEN op.value ELSE Association[j]]
      BY <2>1, <2>3, <2>6, AssociationIs
    <3> QED BY <3>1, <3>2 DEF Abstract!Extended
  <2>8. CASE op.call = "insert"
    <3>1. ret' = Abstract!Answer("insert", op.key, "yes")
      BY <1>6, <2>8 DEF EmplaceAnswer, Answer, Abstract!Answer
    <3>2. Abstract!Insert(op.key, op.value)
      BY <2>7, <3>1 DEF Abstract!Insert
    <3> QED BY <2>1, <3>2
  <2>9. CASE op.call = "index"
    <3>1. ValueOf(entries', size', op.key) = op.value
      BY <1>2, <1>6, <2>1, <2>3, EmplaceAnswers
    <3>2. ret' = Abstract!Answer("index", op.key, DefaultValue)
      BY <1>6, <2>1, <2>9, <3>1 DEF EmplaceAnswer, Answer, Abstract!Answer
    <3>3. Abstract!Index(op.key)
      BY <2>1, <2>7, <2>9, <3>2 DEF Abstract!Index
    <3> QED BY <2>1, <3>3
  <2> QED BY <2>1, <2>8, <2>9
<1> QED BY <1>2, <1>5, <1>6 DEF ReturnEmplace

(* Emplace gives up only for the key it was called with, and only while it
   carries the entry for that key: no other entry is ever dropped. *)
LEMMA RefusedEntry ==
  ASSUME RInv, Refuse
  PROVE  pc = "insert" /\ cur.key = key
<1>1. /\ entries \in [0..(capacity - 1) -> Entry] /\ idx \in 0..(capacity - 1)
      /\ capacity \in Nat \ {0}
  BY CapacityRange DEF RInv, UInv, IInv, TypeOK
<1>2. idx \in Occupied(entries) /\ entries[idx].key = key /\ Probing
  BY <1>1 DEF Refuse, Occupied
<1>3. ASSUME cur.key # key PROVE FALSE
  <2>1. PICK s \in Nat : WalkedFor(s)
    BY <1>2 DEF RInv, Walked
  <2>2. PICK d \in 0..(s - 1) : Requested(entries[Mask(Home[key] + d, capacity)])
    BY <1>3, <2>1 DEF WalkedFor
  <2> DEFINE w == Mask(Home[key] + d, capacity)
  <2>3. w \in 0..(capacity - 1) /\ w # idx /\ entries[w].occupied
    <3>1. d \in Nat /\ key \in Keys /\ s < capacity /\ idx = Mask(Home[key] + s, capacity)
      BY <1>2, <2>1 DEF RInv, Walked, WalkedFor
    <3>2. w \in 0..(capacity - 1)
      BY <1>1, <3>1, WayRange
    <3>3. w # idx
      BY <1>1, <3>1, WayDistinct
    <3>4. entries[w].occupied
      BY <2>1 DEF WalkedFor
    <3> QED BY <3>2, <3>3, <3>4
  <2>4. entries[w].key = key
    BY <2>2 DEF Requested
  <2> HIDE DEF w
  <2>5. w \in Occupied(entries)
    BY <1>1, <2>3 DEF Occupied
  <2> QED BY <1>2, <2>3, <2>4, <2>5 DEF RInv, UInv, UniqueIn
<1>4. ASSUME pc = "reinsert" PROVE FALSE
  BY <1>2, <1>3, <1>4 DEF RInv, Apart
<1> QED BY <1>2, <1>3, <1>4 DEF Probing

LEMMA RefuseAnswers ==
  ASSUME RInv, RInv', KeysOnce(Seen), KeysOnce(Seen'), Refuse
  PROVE  \E k \in Keys : Abstract!Index(k) \/ \E v \in Values : Abstract!Insert(k, v)
<1>1. /\ pc = "insert" /\ cur.key = key
      /\ Probing /\ entries' = entries /\ ReturnEmplace("no")
      /\ entries[idx].occupied /\ entries[idx].key = key
  BY RefusedEntry DEF Refuse
<1>2. pc' = "idle" /\ ret' = EmplaceAnswer("no") /\ UNCHANGED capacity
  BY <1>1 DEF ReturnEmplace
<1>3. /\ entries \in [0..(capacity - 1) -> Entry] /\ idx \in 0..(capacity - 1) /\ op \in Calls
  BY DEF RInv, UInv, IInv, TypeOK
<1>4. /\ key = op.key /\ op.key \in Keys /\ op.value \in Values
      /\ op.call \in {"insert", "index"}
  BY <1>1, <1>3 DEF RInv, Asked, UInv, IInv, KnownKeys, Calls
<1>5. entries[idx] \in All(entries)
  BY <1>1, <1>3 DEF All, Occupied
<1>6. Seen = All(entries) /\ Seen' = All(entries)
  BY <1>1, <1>2, SeenIs, SeenIsNext
<1>7. Association' = Association
  BY <1>6, SameSeen
<1>8. op.key \in DOMAIN Association /\ Association[op.key] = entries[idx].value
  BY <1>1, <1>4, <1>5, <1>6, AssocAt, AssociationIs
<1>9. CASE op.call = "insert"
  <2>1. ret' = Abstract!Answer("insert", op.key, "no")
    BY <1>2, <1>9 DEF EmplaceAnswer, Answer, Abstract!Answer
  <2>2. Abstract!Insert(op.key, op.value)
    BY <1>7, <1>8, <2>1 DEF Abstract!Insert
  <2> QED BY <1>4, <2>2
<1>10. CASE op.call = "index"
  <2>1. ValueOf(entries', size', op.key) = entries[idx].value
    BY <1>1, <1>2, <1>4, <1>5, EmplaceAnswers
  <2>2. ret' = Abstract!Answer("index", op.key, Association[op.key])
    BY <1>2, <1>8, <1>10, <2>1 DEF EmplaceAnswer, Answer, Abstract!Answer
  <2>3. Association = [j \in DOMAIN Association |-> Association[j]]
    BY DEF Association
  <2>4. Association' = [j \in DOMAIN Association \cup {op.key} |->
                          IF j = op.key THEN Association[op.key] ELSE Association[j]]
    <3>1. DOMAIN Association \cup {op.key} = DOMAIN Association
      BY <1>8
    <3> QED BY <1>7, <2>3, <3>1
  <2>5. Abstract!Index(op.key)
    BY <1>8, <2>2, <2>4 DEF Abstract!Index, Abstract!Extended
  <2> QED BY <1>4, <2>5
<1> QED BY <1>4, <1>9, <1>10

LEMMA NothingSeen ==
  ASSUME NEW S, S = {}
  PROVE  AssocOf(S) = [k \in {} |-> DefaultValue]
<1>1. DOMAIN AssocOf(S) = {} /\ AssocOf(S) = [k \in DOMAIN AssocOf(S) |-> AssocOf(S)[k]]
  BY DEF AssocOf
<1> QED BY <1>1

LEMMA EraseAnswers ==
  ASSUME RInv, RInv', KeysOnce(Seen), KeysOnce(Seen'), NEW k \in Keys, CallErase(k)
  PROVE  Abstract!Erase(k)
<1> DEFINE i == FindIndex(entries, size, k)
<1>1. pc = "idle" /\ Seen = All(entries) /\ Association = AssocOf(Seen)
      /\ Association' = AssocOf(Seen')
  BY SeenIs, AssociationIs DEF CallErase
<1>2. (i = NoSlot <=> k \notin DOMAIN Association)
  BY <1>1, LookupAnswers
<1>3. CASE i = NoSlot
  <2>1. ret' = Answer("erase", k, "no") /\ UNCHANGED <<entries, pc>>
    BY <1>3 DEF CallErase
  <2>2. Association' = Association
    BY <1>1, <2>1, SeenIsNext, SameSeen
  <2>3. Association = [j \in DOMAIN Association |-> Association[j]]
    BY DEF Association
  <2>4. DOMAIN Association \ {k} = DOMAIN Association
    BY <1>2, <1>3
  <2>5. Association' = [j \in DOMAIN Association \ {k} |-> Association[j]]
    BY <2>2, <2>3, <2>4
  <2> QED BY <1>2, <1>3, <2>1, <2>5 DEF Abstract!Erase, Abstract!Answer, Answer
<1>4. CASE i # NoSlot
  <2>1. /\ capacity \in Nat \ {0} /\ entries \in [0..(capacity - 1) -> Entry]
        /\ UniqueIn(entries)
    BY InvariantTable
  <2>2. i \in 0..(capacity - 1) /\ entries[i].occupied /\ entries[i].key = k
    BY <1>4, <2>1, FoundOccupied
  <2>3. /\ entries' = [entries EXCEPT ![i] = Fresh] /\ pc' = "shift"
        /\ ret' = Answer("erase", k, "yes")
    BY <1>4 DEF CallErase
  <2>4. k \in DOMAIN Association
    BY <1>2, <1>4
  <2> HIDE DEF i
  <2>5. Occupied(entries') = Occupied(entries) \ {i} /\ i \in Occupied(entries)
    BY <2>1, <2>2, <2>3 DEF Occupied, Fresh
  <2>6. \A j \in Occupied(entries') : entries'[j] = entries[j] /\ entries[j].key # k
    BY <2>1, <2>2, <2>3, <2>5 DEF UniqueIn, Occupied
  <2>7. All(entries') = {e \in All(entries) : e.key # k}
    <3>1. All(entries') \subseteq {e \in All(entries) : e.key # k}
      BY <2>5, <2>6 DEF All
    <3>2. ASSUME NEW e \in All(entries), e.key # k PROVE e \in All(entries')
      <4>1. PICK j \in Occupied(entries) : e = entries[j]
        BY DEF All
      <4>2. j \in Occupied(entries')
        BY <2>2, <2>5, <3>2, <4>1
      <4> QED BY <2>6, <4>1, <4>2 DEF All
    <3> QED BY <3>1, <3>2
  <2>8. Seen' = All(entries')
    BY <2>3, SeenIsNext
  <2>9. Association' = [j \in DOMAIN Association \ {k} |-> Association[j]]
    <3>1. Seen' = {e \in Seen : e.key # k}
      BY <1>1, <2>7, <2>8
    <3>2. AssocOf(Seen') = [j \in DOMAIN AssocOf(Seen) \ {k} |-> AssocOf(Seen)[j]]
      BY <3>1, RemovedAssoc
    <3> QED BY <1>1, <3>2
  <2> QED BY <2>3, <2>4, <2>9 DEF Abstract!Erase, Abstract!Answer, Answer
<1> QED BY <1>3, <1>4

LEMMA ClearAnswers ==
  ASSUME RInv, RInv', CallClear
  PROVE  Abstract!Clear
<1>1. All(entries') = {}
  BY InvariantTable, BlankTable DEF CallClear, All
<1>2. Seen' = {}
  BY <1>1, SeenIsNext DEF CallClear
<1>3. Association' = [k \in {} |-> DefaultValue]
  BY <1>2, NothingSeen, AssociationIs
<1>4. ret' = Abstract!Answer("clear", "none", "none")
  BY DEF CallClear, Answer, Abstract!Answer
<1> QED BY <1>3, <1>4 DEF Abstract!Clear

LEMMA QuietUnseen ==
  ASSUME RInv, RInv', pc = "idle", UNCHANGED <<entries, pc>>
  PROVE  UNCHANGED Association
BY SeenIs, SeenIsNext, SameSeen

LEMMA GetAnswers ==
  ASSUME RInv, RInv', KeysOnce(Seen), NEW k \in Keys, CallGet(k)
  PROVE  Abstract!Get(k)
<1>1. pc = "idle" /\ UNCHANGED <<entries, pc>>
      /\ ret' = Answer("get", k, ValueOf(entries, size, k))
  BY DEF CallGet
<1>2. UNCHANGED Association
  BY <1>1, QuietUnseen
<1>3. ValueOf(entries, size, k) = IF k \in DOMAIN Association THEN Association[k] ELSE Absent
  BY <1>1, LookupAnswers
<1> QED BY <1>1, <1>2, <1>3 DEF Abstract!Get, Abstract!Answer, Answer, Abstract!Absent, Absent

LEMMA IndexAnswers ==
  ASSUME RInv, RInv', KeysOnce(Seen), NEW k \in Keys, CallIndex(k)
  PROVE  Abstract!Index(k) \/ UNCHANGED <<Association, ret>>
<1>1. CASE pc = "idle" /\ StartEmplace(k, DefaultValue)
  BY <1>1, StartEmplaceUnseen
<1>2. CASE /\ pc = "idle" /\ FindIndex(entries, size, k) # NoSlot
           /\ ret' = Answer("index", k, ValueOf(entries, size, k))
           /\ UNCHANGED <<entries, pc>>
  <2>1. UNCHANGED Association
    BY <1>2, QuietUnseen
  <2>2. k \in DOMAIN Association /\ ValueOf(entries, size, k) = Association[k]
    BY <1>2, LookupAnswers
  <2>3. Association = [j \in DOMAIN Association |-> Association[j]]
    BY DEF Association
  <2>4. DOMAIN Association \cup {k} = DOMAIN Association
    BY <2>2
  <2>5. Association' = [j \in DOMAIN Association \cup {k} |->
                          IF j = k THEN Association[k] ELSE Association[j]]
    BY <2>1, <2>3, <2>4
  <2>6. ret' = Abstract!Answer("index", k, Association[k])
    BY <1>2, <2>2 DEF Answer, Abstract!Answer
  <2> QED BY <2>2, <2>5, <2>6 DEF Abstract!Index, Abstract!Extended
<1> QED BY <1>1, <1>2 DEF CallIndex

LEMMA EndRehashAnswers ==
  ASSUME RInv, RInv', EndRehash
  PROVE  Abstract!Tune \/ UNCHANGED <<Association, ret>>
<1>1. UNCHANGED Association
  BY EndRehashUnseen
<1>2. ret' = ret \/ ret' = Answer("tune", "none", "none")
  BY DEF EndRehash
<1> QED BY <1>1, <1>2 DEF Abstract!Tune, Abstract!Answer, Answer

LEMMA TuningAnswers ==
  ASSUME RInv, RInv',
         \/ \E n \in Requests : CallRehash(n) \/ CallReserve(n)
         \/ \E l \in Loads : CallMaxLoadFactor(l)
  PROVE  Abstract!Tune \/ UNCHANGED <<Association, ret>>
<1>1. CASE \E n : BeginTune /\ StartRehash(n)
  BY <1>1, StartRehashUnseen DEF BeginTune
<1>2. CASE NothingToTune
  <2>1. UNCHANGED Association
    BY <1>2, QuietUnseen DEF NothingToTune
  <2>2. ret' = Abstract!Answer("tune", "none", "none")
    BY <1>2 DEF NothingToTune, Answer, Abstract!Answer
  <2> QED BY <2>1, <2>2 DEF Abstract!Tune
<1> QED BY <1>1, <1>2 DEF CallRehash, CallReserve, CallMaxLoadFactor

-----------------------------------------------------------------------------
LEMMA InitMaps == Init => Abstract!Init
<1> SUFFICES ASSUME Init PROVE Abstract!Init
  OBVIOUS
<1>1. RInv
  BY InitR
<1>2. All(entries) = {}
  BY <1>1, InvariantTable, BlankTable DEF Init, All
<1>3. Seen = {}
  BY <1>1, <1>2, SeenIs DEF Init
<1>4. Association = [k \in {} |-> DefaultValue]
  BY <1>3, NothingSeen, AssociationIs
<1>5. ret = Abstract!Answer("new", "none", "none")
  BY DEF Init, Answer, Abstract!Answer
<1> QED BY <1>4, <1>5 DEF Abstract!Init

LEMMA StepMaps ==
  ASSUME RInv, RInv', KeysOnce(Seen), KeysOnce(Seen'), [Next]_vars
  PROVE  [Abstract!Next]_Abstract!vars
<1> DEFINE Unseen == UNCHANGED <<Association, ret>>
<1>1. Unseen => UNCHANGED Abstract!vars
  BY DEF Abstract!vars
<1>2. CASE Loop
  <2>1. CASE Place
    <3>1. Unseen \/ Abstract!Next
      BY <2>1, PlaceAnswers, Zenon DEF Abstract!Next
    <3> QED BY <1>1, <3>1
  <2>2. CASE Refuse
    BY <2>2, RefuseAnswers, Zenon DEF Abstract!Next
  <2>3. CASE EndRehash
    <3>1. Unseen \/ Abstract!Next
      BY <2>3, EndRehashAnswers, Zenon DEF Abstract!Next
    <3> QED BY <1>1, <3>1
  <2>4. CASE Advance \/ Refill \/ Shift
    BY <1>1, <2>4, AdvanceUnseen, RefillUnseen, ShiftUnseen
  <2> QED BY <1>2, <2>1, <2>2, <2>3, <2>4 DEF Loop
<1>3. ASSUME NEW k \in Keys, CallErase(k) \/ CallGet(k)
      PROVE  Abstract!Next
  BY <1>3, EraseAnswers, GetAnswers, Zenon DEF Abstract!Next
<1>4. ASSUME NEW k \in Keys, CallIndex(k)
      PROVE  Unseen \/ Abstract!Next
  BY <1>4, IndexAnswers, Zenon DEF Abstract!Next
<1>5. ASSUME NEW k \in Keys, NEW v \in Values, CallInsert(k, v)
      PROVE  Unseen
  BY <1>5, StartEmplaceUnseen DEF CallInsert
<1>6. CASE CallClear
  BY <1>6, ClearAnswers, Zenon DEF Abstract!Next
<1>7. CASE \/ \E n \in Requests : CallRehash(n) \/ CallReserve(n)
           \/ \E l \in Loads : CallMaxLoadFactor(l)
  <2>1. Unseen \/ Abstract!Next
    BY <1>7, TuningAnswers, Zenon DEF Abstract!Next
  <2> QED BY <1>1, <2>1
<1>8. CASE UNCHANGED vars
  <2>1. Unseen
    BY <1>8 DEF vars, Association, Seen, Held
  <2> QED BY <1>1, <2>1
<1> HIDE DEF Unseen
<1> QED BY <1>1, <1>2, <1>3, <1>4, <1>5, <1>6, <1>7, <1>8 DEF Next

(* The hash map is a map, for any keys, hashes, capacities and load factors:
   every call answers as a plain partial function would, and what happens in
   between cannot be told from nothing. *)
THEOREM HashMapIsAMap == Spec => IsAMap
<1>1. Init => Abstract!Init
  BY InitMaps
<1>2. RInv /\ RInv' /\ KeysOnce(Seen) /\ KeysOnce(Seen)' /\ [Next]_vars
        => [Abstract!Next]_Abstract!vars
  BY StepMaps DEF KeysOnce
<1>3. RInv => KeysOnce(Seen)
  BY SeenOnce
<1> QED BY <1>1, <1>2, <1>3, RefinementInvariance, PTL DEF Spec, IsAMap, Abstract!Spec
=============================================================================
