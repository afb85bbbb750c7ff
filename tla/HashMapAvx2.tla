---------------------------- MODULE HashMapAvx2 ----------------------------
(* find_index as a build with AVX2 does it for int32_t keys, here for
   HashMap<int, int>: eight slots at a time from the home slot on.  The build
   compiles with -mavx2, so that these maps have no other lookup.  Keys and
   values are integers.  The operations of HashMap keep their own lookup: up to
   the first state where the two differ, both builds are in the same state.
   Padding counts as zero, and so do the words an erased entry leaves behind:
   the shortest counterexample has none of them. *)
EXTENDS HashMap

Lanes == 0..7
Words == 3      \* an entry is three 32-bit words: key, value, and the rest

(* distance and occupied share the third word. *)
Rest(e) == e.distance + (IF e.occupied THEN 65536 ELSE 0)

(* The 32 bytes from the key of slot i on: a contiguous load, not one of the
   keys of eight slots. *)
Lane(t, i, n) ==
  LET e == t[i + n \div Words] IN
  CASE n % Words = 0 -> e.key
    [] n % Words = 1 -> e.value
    [] n % Words = 2 -> Rest(e)

ChunkStart(k, c) == Mask(Home[k] + 8 * c, capacity)
Whole(i) == i + 7 < capacity
Chunk(i) == IF Whole(i) THEN i..(i + 7) ELSE i..(capacity - 1)

(* The slots of a chunk that the comparison reports for key k. *)
Hits(t, k, i) ==
  {j \in Chunk(i) : /\ t[j].occupied
                    /\ (IF Whole(i) THEN Lane(t, i, j - i) ELSE t[j].key) = k}

(* The search goes on to the next chunk when this one is full. *)
Full(t, i) == \A j \in Chunk(i) : t[j].occupied

Chunks == {c \in 0..(capacity - 1) : 8 * c < capacity}

FindIndexAvx2(t, n, k) ==
  LET searched(c) == \A b \in 0..(c - 1) :
                       LET i == ChunkStart(k, b) IN Hits(t, k, i) = {} /\ Full(t, i)
      hits == {c \in Chunks : searched(c) /\ Hits(t, k, ChunkStart(k, c)) # {}}
  IN IF n = 0 \/ hits = {} THEN NoSlot
     ELSE LET found == Hits(t, k, ChunkStart(k, CHOOSE c \in hits : TRUE))
          IN CHOOSE j \in found : \A m \in found : j <= m

(* hashmap.h says of contains that it is true when the key exists: for int
   keys too, a key that is in the table is found, in its slot. *)
ContainsFinds ==
  pc = "idle" =>
    \A i \in Occupied(entries) : FindIndexAvx2(entries, size, entries[i].key) = i
=============================================================================
