------------------------------ MODULE HashMap ------------------------------
(* src/utils/containers/hashmap/hashmap.h: the open-addressing hash map with
   Robin Hood displacement that property tables are kept in.  One iteration of
   a loop of emplace, erase or rehash is one step; find_index, which changes
   nothing, is an operator. *)
EXTENDS Integers, FiniteSets

CONSTANTS
  Keys, Values,
  DefaultKey, DefaultValue,  \* Key{} and Value{}: what a fresh slot holds
  Home,                      \* hash(key), a number for each key
  Capacities,                \* the powers of two that memory has room for
  InitialCapacities,         \* arguments of the constructor
  Requests,                  \* arguments of rehash and reserve
  Loads                      \* maximal load factors, <<3, 4>> for 0.75

ASSUME HomeAssumption == Home \in [Keys -> Nat]
(* Bound: a probe distance, a uint16_t in the code, never wraps. *)
MaxCapacity == 32768
ASSUME CapacitiesAssumption ==
  /\ Capacities \subseteq 1..MaxCapacity
  /\ \A p, q \in Capacities : p < q => 2 * p <= q
(* HashMap(0), and rehash(0) of an empty map, leave a table without slots that
   no later call checks for: callers have to avoid both. *)
ASSUME ArgumentsAssumption ==
  InitialCapacities \subseteq Nat \ {0} /\ Requests \subseteq Nat \ {0}
(* Factors below 1/2 make rehash call itself, factors above 1 fill the table
   so that an insertion has nowhere to go. *)
ASSUME LoadsAssumption ==
  \A l \in Loads : /\ l \in Nat \X Nat
                   /\ 0 < l[1] /\ l[1] <= l[2] /\ l[2] <= 2 * l[1]
ASSUME DefaultAssumption == DefaultValue \in Values

VARIABLES
  entries,    \* m_entries
  size,       \* m_size
  capacity,   \* m_capacity
  load,       \* m_max_load_factor
  threshold,  \* m_resize_threshold
  pc,         \* the loop the running call is in, or "idle"
  op,         \* the running call and its arguments
  cur,        \* new_entry: what emplace carries
  key,        \* the key emplace was called with
  idx,        \* index, in emplace and in erase
  old,        \* old_entries of a rehash
  pos,        \* i, in rehash
  ret         \* the last call that was answered, and its answer

vars == <<entries, size, capacity, load, threshold,
          pc, op, cur, key, idx, old, pos, ret>>

Entry == [key : Keys \cup {DefaultKey}, value : Values,
          distance : Nat, occupied : BOOLEAN]

(* An unoccupied slot; the stale key and value one may hold are never read. *)
Fresh == [key |-> DefaultKey, value |-> DefaultValue,
          distance |-> 0, occupied |-> FALSE]

NewEntry(k, v) == [key |-> k, value |-> v, distance |-> 0, occupied |-> TRUE]

NoSlot == -1
Absent == "absent"

Call(name, k, v) == [call |-> name, key |-> k, value |-> v]
Answer(name, k, answer) == [call |-> name, key |-> k, answer |-> answer]
NoCall == Call("none", DefaultKey, DefaultValue)

-----------------------------------------------------------------------------
(* h & (n - 1), for an n that is a power of two. *)
Mask(h, n) == h % n

(* roundUpToPowerOfTwo: the one power of two p with n <= p < 2n. *)
RoundUp(n) == CHOOSE p \in Capacities : n <= p /\ p < 2 * n

(* Bound: requests memory has no room for throw and are left out. *)
HasRoom(n) == \E p \in Capacities : n <= p /\ p < 2 * n

Threshold(cap, l) == (cap * l[1]) \div l[2]

Blank(cap) == [i \in 0..(cap - 1) |-> Fresh]

Occupied(t) == {i \in DOMAIN t : t[i].occupied}

Larger(a, b) == IF a >= b THEN a ELSE b

(* Mutant: the search gives up one entry early. *)
OnTheWayShort(t, n, k, d) ==
  LET e == t[Mask(Home[k] + d, n)] IN e.occupied /\ d < e.distance

(* find_index has not given up on k at distance d: the slot there is occupied,
   by an entry at least as far from its own home. *)
OnTheWay(t, n, k, d) ==
  LET e == t[Mask(Home[k] + d, n)] IN e.occupied /\ d <= e.distance

(* find_index, with the size of the table: the loop ends at the first distance
   where the key is met. *)
FindIndex(t, n, k) ==
  LET slot(d) == Mask(Home[k] + d, capacity)
      hits == {d \in 0..capacity :
                 /\ OnTheWay(t, capacity, k, d) /\ t[slot(d)].key = k
                 /\ \A c \in 0..(d - 1) : /\ OnTheWay(t, capacity, k, c)
                                         /\ t[slot(c)].key # k}
  IN IF n = 0 \/ hits = {} THEN NoSlot ELSE slot(CHOOSE d \in hits : TRUE)

ValueOf(t, n, k) ==
  IF FindIndex(t, n, k) = NoSlot THEN Absent ELSE t[FindIndex(t, n, k)].value

-----------------------------------------------------------------------------
Init ==
  /\ load \in Loads
  /\ \E n \in InitialCapacities :
       /\ HasRoom(n)
       /\ capacity = RoundUp(n)
  /\ entries = Blank(capacity)
  /\ size = 0
  /\ threshold = Threshold(capacity, load)
  /\ pc = "idle"
  /\ op = NoCall
  /\ cur = Fresh
  /\ key = DefaultKey
  /\ idx = 0
  /\ old = Blank(0)
  /\ pos = 0
  /\ ret = Answer("new", "none", "none")

-----------------------------------------------------------------------------
(* rehash up to its loop; requested is at least what the caller asked for. *)
StartRehash(n) ==
  LET cap == RoundUp(Larger(n, size * 2)) IN
  /\ HasRoom(Larger(n, size * 2))
  /\ old' = entries
  /\ capacity' = cap
  /\ threshold' = Threshold(cap, load')
  /\ entries' = Blank(cap)
  /\ size' = 0
  /\ pos' = 0
  /\ pc' = "refill"
  /\ UNCHANGED <<cur, key, idx, ret>>

(* emplace up to its loop, where there is no need to grow. *)
StartProbe(k, v, loop) ==
  /\ cur' = NewEntry(k, v)
  /\ key' = k
  /\ idx' = Mask(Home[k], capacity)
  /\ pc' = loop

(* emplace called from outside: it may have to grow the table first. *)
StartEmplace(k, v) ==
  \/ /\ size >= threshold
     /\ StartRehash(capacity * 2)
  \/ /\ size < threshold
     /\ StartProbe(k, v, "insert")
     /\ UNCHANGED <<entries, size, capacity, threshold, old, pos, ret>>

CallInsert(k, v) ==
  /\ pc = "idle"
  /\ op' = Call("insert", k, v)
  /\ UNCHANGED load
  /\ StartEmplace(k, v)

(* operator[] *)
CallIndex(k) ==
  /\ pc = "idle"
  /\ UNCHANGED load
  /\ \/ /\ FindIndex(entries, size, k) = NoSlot
        /\ op' = Call("index", k, DefaultValue)
        /\ StartEmplace(k, DefaultValue)
     \/ /\ FindIndex(entries, size, k) # NoSlot
        /\ ret' = Answer("index", k, ValueOf(entries, size, k))
        /\ UNCHANGED <<entries, size, capacity, threshold,
                       pc, op, cur, key, idx, old, pos>>

(* contains, at and get, which differ in how they report the same lookup. *)
CallGet(k) ==
  /\ pc = "idle"
  /\ ret' = Answer("get", k, ValueOf(entries, size, k))
  /\ UNCHANGED <<entries, size, capacity, load, threshold,
                 pc, op, cur, key, idx, old, pos>>

(* The answer to the running call once emplace returns inserted. *)
EmplaceAnswer(inserted) ==
  Answer(op.call, op.key,
         IF op.call = "index" THEN ValueOf(entries', size', op.key) ELSE inserted)

(* emplace returns: to the caller, or to the loop of rehash. *)
ReturnEmplace(inserted) ==
  /\ \/ /\ pc = "insert"
        /\ pc' = "idle"
        /\ op' = NoCall
        /\ ret' = EmplaceAnswer(inserted)
     \/ /\ pc = "reinsert"
        /\ pc' = "refill"
        /\ UNCHANGED <<op, ret>>
  /\ cur' = Fresh
  /\ key' = DefaultKey
  /\ idx' = 0
  /\ UNCHANGED <<capacity, load, threshold, old, pos>>

Probing == pc \in {"insert", "reinsert"}

(* An iteration of emplace's loop that finds a free slot. *)
Place ==
  /\ Probing
  /\ ~entries[idx].occupied
  /\ entries' = [entries EXCEPT ![idx] = cur]
  /\ size' = size + 1
  /\ ReturnEmplace("yes")

(* An iteration that meets the key it was called with. *)
Refuse ==
  /\ Probing
  /\ entries[idx].occupied
  /\ entries[idx].key = key
  /\ UNCHANGED <<entries, size>>
  /\ ReturnEmplace("no")

(* Mutant: no swap on the way. *)
DisplacesNothing(e) == FALSE

(* Entry e gives way to the carried one, which is further from its home. *)
Displaces(e) == cur.distance > e.distance

(* An iteration that moves on, after swapping with an entry closer to home. *)
Advance ==
  /\ Probing
  /\ entries[idx].occupied
  /\ entries[idx].key # key
  /\ \/ /\ Displaces(entries[idx])
        /\ entries' = [entries EXCEPT ![idx] = cur]
        /\ cur' = [entries[idx] EXCEPT !.distance = @ + 1]
     \/ /\ ~Displaces(entries[idx])
        /\ cur' = [cur EXCEPT !.distance = @ + 1]
        /\ UNCHANGED entries
  /\ idx' = Mask(idx + 1, capacity)
  /\ UNCHANGED <<size, capacity, load, threshold, pc, op, key, old, pos, ret>>

(* The iteration of rehash's loop for the next occupied slot, which calls
   emplace; those for free slots do nothing.  An emplace that had to grow would
   call rehash from within rehash: there is no step for it, and LoadsAssumption
   is why none is needed. *)
Refill ==
  /\ pc = "refill"
  /\ \E i \in Occupied(old) :
       /\ i >= pos
       /\ \A j \in Occupied(old) : j >= pos => i <= j
       /\ pos' = i + 1
       /\ StartProbe(old[i].key, old[i].value, "reinsert")
  /\ size < threshold
  /\ UNCHANGED <<entries, size, capacity, load, threshold, op, old, ret>>

(* rehash returns: to emplace, which goes on with its own key, or outside. *)
EndRehash ==
  /\ pc = "refill"
  /\ \A j \in Occupied(old) : j < pos
  /\ old' = Blank(0)
  /\ pos' = 0
  /\ \/ /\ op.call \in {"insert", "index"}
        /\ StartProbe(op.key, op.value, "insert")
        /\ UNCHANGED <<op, ret>>
     \/ /\ op.call = "tune"
        /\ pc' = "idle"
        /\ op' = NoCall
        /\ ret' = Answer("tune", "none", "none")
        /\ UNCHANGED <<cur, key, idx>>
  /\ UNCHANGED <<entries, size, capacity, load, threshold>>

(* erase up to its loop; its answer, 0 or 1, is decided here. *)
CallErase(k) ==
  /\ pc = "idle"
  /\ LET i == FindIndex(entries, size, k) IN
     \/ /\ i = NoSlot
        /\ ret' = Answer("erase", k, "no")
        /\ UNCHANGED <<entries, size, pc, op, idx>>
     \/ /\ i # NoSlot
        /\ entries' = [entries EXCEPT ![i] = Fresh]
        /\ size' = size - 1
        /\ op' = Call("erase", k, DefaultValue)
        /\ idx' = i
        /\ pc' = "shift"
        /\ ret' = Answer("erase", k, "yes")
  /\ UNCHANGED <<capacity, load, threshold, cur, key, old, pos>>

(* Mutants: entries at home are moved, too; none is. *)
MovesUpFromHome(e) == e.occupied
MovesUpNever(e) == FALSE

(* The condition of erase's loop, of the entry behind the hole. *)
MovesUp(e) == e.occupied /\ e.distance > 0

(* Mutant: a moved entry keeps its distance. *)
AsBefore(e) == e

CloserHome(e) == [e EXCEPT !.distance = @ - 1]

(* An iteration of erase's loop: the next entry moves one slot towards home. *)
Shift ==
  /\ pc = "shift"
  /\ LET next == Mask(idx + 1, capacity) IN
     \/ /\ MovesUp(entries[next])
        /\ entries' = [entries EXCEPT ![idx] = CloserHome(entries[next]), ![next] = Fresh]
        /\ idx' = next
        /\ UNCHANGED <<pc, op>>
     \/ /\ ~MovesUp(entries[next])
        /\ pc' = "idle"
        /\ op' = NoCall
        /\ idx' = 0
        /\ UNCHANGED entries
  /\ UNCHANGED <<size, capacity, load, threshold, cur, key, old, pos, ret>>

(* Mutant: what was cleared stays counted. *)
ClearUncounted ==
  /\ pc = "idle"
  /\ entries' = Blank(capacity)
  /\ ret' = Answer("clear", "none", "none")
  /\ UNCHANGED <<size, capacity, load, threshold, pc, op, cur, key, idx, old, pos>>

CallClear ==
  /\ pc = "idle"
  /\ entries' = Blank(capacity)
  /\ size' = 0
  /\ ret' = Answer("clear", "none", "none")
  /\ UNCHANGED <<capacity, load, threshold, pc, op, cur, key, idx, old, pos>>

BeginTune == pc = "idle" /\ op' = Call("tune", DefaultKey, DefaultValue)

NothingToTune ==
  /\ pc = "idle"
  /\ ret' = Answer("tune", "none", "none")
  /\ UNCHANGED <<entries, size, capacity, pc, op, cur, key, idx, old, pos>>

CallRehash(n) ==
  /\ BeginTune
  /\ UNCHANGED load
  /\ StartRehash(n)

(* The capacity count entries need under the load factor. *)
Required(count) == (count * load[2]) \div load[1] + 1

CallReserve(count) ==
  /\ UNCHANGED load
  /\ \/ /\ Required(count) > capacity
        /\ BeginTune
        /\ StartRehash(Required(count))
     \/ /\ Required(count) <= capacity
        /\ NothingToTune
        /\ UNCHANGED threshold

(* max_load_factor with an argument; the test is load_factor() > l. *)
CallMaxLoadFactor(l) ==
  /\ load' = l
  /\ \/ /\ size * l[2] > capacity * l[1]
        /\ BeginTune
        /\ StartRehash(capacity * 2)
     \/ /\ size * l[2] <= capacity * l[1]
        /\ NothingToTune
        /\ threshold' = Threshold(capacity, l)

Loop == Place \/ Refuse \/ Advance \/ Refill \/ EndRehash \/ Shift

Next ==
  \/ \E k \in Keys : \/ \E v \in Values : CallInsert(k, v)
                     \/ CallIndex(k)
                     \/ CallGet(k)
                     \/ CallErase(k)
  \/ CallClear
  \/ \E n \in Requests : CallRehash(n) \/ CallReserve(n)
  \/ \E l \in Loads : CallMaxLoadFactor(l)
  \/ Loop

(* A call runs on the caller's thread, which does not stop in the middle. *)
Spec == Init /\ [][Next]_vars /\ WF_vars(Loop)

-----------------------------------------------------------------------------
Calls == [call : {"none", "insert", "index", "erase", "tune"},
          key : Keys \cup {DefaultKey}, value : Values]

(* Type correctness.  A capacity is a power of two, a table has that many
   slots, and indices stay inside it. *)
TypeOK ==
  /\ capacity \in Capacities
  /\ entries \in [0..(capacity - 1) -> Entry]
  /\ size \in Nat
  /\ load \in Loads
  /\ threshold = Threshold(capacity, load)
  /\ pc \in {"idle", "insert", "reinsert", "refill", "shift"}
  /\ op \in Calls
  /\ cur \in Entry
  /\ key \in Keys \cup {DefaultKey}
  /\ idx \in 0..(capacity - 1)
  /\ \E n \in Capacities \cup {0} : old \in [0..(n - 1) -> Entry] /\ pos \in 0..n

(* Between calls, m_size is the number of occupied slots: rehash counts again
   from zero, and a refused insertion or an erased entry must not be
   miscounted, or the table fills up or grows for nothing. *)
SizeCounts == pc = "idle" => size = Cardinality(Occupied(entries))

(* Entry e is in slot i of the n slots of table t and a search gets there. *)
Reached(t, n, i, e) ==
  /\ i = Mask(Home[e.key] + e.distance, n)
  /\ \A d \in 0..e.distance : OnTheWay(t, n, e.key, d)

(* The Robin Hood order.  find_index gives up where this fails, so swaps,
   shifts and rehashes all have to keep it.  While erase shifts there is a
   hole, so not then. *)
RobinHood ==
  pc # "shift" =>
    \A i \in Occupied(entries) : Reached(entries, capacity, i, entries[i])

(* Between calls, looking a key up finds the slot that holds it. *)
LookupFinds ==
  pc = "idle" =>
    \A i \in Occupied(entries) : FindIndex(entries, size, entries[i].key) = i

(* Every call returns: emplace always comes to a free slot, and erase's shift
   does not go round the table for ever. *)
Returns == pc # "idle" ~> pc = "idle"

-----------------------------------------------------------------------------
(* What a caller could tell of the table while a call runs: the entries in it,
   those rehash has yet to bring back, and the one emplace carries, but for
   the key that is being inserted and has not been answered for. *)
Pairs(t, from) == {t[i] : i \in {j \in Occupied(t) : j >= from}}

Held ==
  Pairs(entries, 0) \cup
    CASE pc = "idle" -> {}
      [] pc = "shift" -> {}
      [] pc = "refill" -> Pairs(old, pos)
      [] pc = "reinsert" -> Pairs(old, pos) \cup {cur}
      [] pc = "insert" -> IF cur.key = key THEN {} ELSE {cur}

Seen == IF pc = "insert" /\ cur.key # key
        THEN {e \in Held : e.key # key}
        ELSE Held

Association ==
  [k \in {e.key : e \in Seen} |-> (CHOOSE e \in Seen : e.key = k).value]

Abstract == INSTANCE AbstractMap WITH map <- Association

(* The hash map is a map: whatever the order of probing, growing and shifting,
   no call loses, duplicates or mixes up an association, and every answer is
   the one a plain partial function gives. *)
IsAMap == Abstract!Spec
=============================================================================
