-------------------------- MODULE MapObjectProofs --------------------------
(* Proofs about MapObject for any keys, values and bounds. *)
EXTENDS MapObject, SequenceTheorems, FiniteSetTheorems, TLAPS

---------------------------------------------------------------------------
(* The library's RemoveAt, element by element. *)
LEMMA RemoveAtIs ==
  ASSUME NEW S, NEW s \in Seq(S), NEW i \in 1..Len(s)
  PROVE  /\ RemoveAt(s, i) \in Seq(S)
         /\ Len(RemoveAt(s, i)) = Len(s) - 1
         /\ \A j \in 1..(Len(s) - 1) :
              RemoveAt(s, i)[j] = IF j < i THEN s[j] ELSE s[j + 1]
<1> DEFINE l == SubSeq(s, 1, i - 1)
           r == SubSeq(s, i + 1, Len(s))
<1>1. Len(s) \in Nat /\ i \in Nat /\ 1 <= i /\ i <= Len(s)
  OBVIOUS
<1>2. l \in Seq(S) /\ Len(l) = i - 1
  OBVIOUS
<1>3. r \in Seq(S) /\ Len(r) = Len(s) - i
  OBVIOUS
<1>4. \A j \in 1..(i - 1) : l[j] = s[j]
  OBVIOUS
<1>5. \A j \in 1..(Len(s) - i) : r[j] = s[i + j]
  OBVIOUS
<1>6. RemoveAt(s, i) = l \o r
  BY DEF RemoveAt
<1> HIDE DEF l, r
<1>7. /\ l \o r \in Seq(S)
      /\ Len(l \o r) = Len(l) + Len(r)
      /\ \A j \in 1..(Len(l) + Len(r)) :
           (l \o r)[j] = IF j <= Len(l) THEN l[j] ELSE r[j - Len(l)]
  BY <1>2, <1>3, ConcatProperties
<1>8. ASSUME NEW j \in 1..(Len(s) - 1)
      PROVE  (l \o r)[j] = IF j < i THEN s[j] ELSE s[j + 1]
  <2>1. CASE j < i
    BY <1>1, <1>2, <1>3, <1>4, <1>7, <2>1
  <2>2. CASE ~(j < i)
    <3>1. (l \o r)[j] = r[j - (i - 1)]
      BY <1>1, <1>2, <1>3, <1>7, <2>2
    <3>2. j - (i - 1) \in 1..(Len(s) - i) /\ i + (j - (i - 1)) = j + 1
      BY <1>1, <2>2
    <3> QED BY <1>5, <2>2, <3>1, <3>2
  <2> QED BY <2>1, <2>2
<1>9. Len(l \o r) = Len(s) - 1
  BY <1>1, <1>2, <1>3, <1>7
<1> QED BY <1>6, <1>7, <1>8, <1>9

---------------------------------------------------------------------------
(* The entries stand in the order in which they were made. *)
Ascending ==
  /\ \A i, j \in 1..Len(m_entries) :
       i < j => m_entries[i].born < m_entries[j].born
  /\ \A i \in 1..Len(m_entries) : m_entries[i].born <= born

MapInv == TypeOK /\ IndexAgrees /\ Ascending

LEMMA InitMapInv == Init => MapInv
BY MapObjectAssumption
   DEF Init, MapInv, TypeOK, IndexAgrees, Ascending, has, LastCall, Absent

(* Where the table points. *)
LEMMA Position ==
  ASSUME MapInv, NEW k \in Keys, m_keyMap[k] # Absent
  PROVE  m_keyMap[k] \in 1..Len(m_entries) /\ m_entries[m_keyMap[k]].key = k
BY DEF MapInv, TypeOK, IndexAgrees, has, Absent

(* set keeps the two records in agreement. *)
LEMMA PutMapInv ==
  ASSUME MapInv, NEW k \in Keys, NEW v \in Values, Put(k, v), building' \in BOOLEAN
  PROVE  MapInv'
<1> USE MapObjectAssumption
<1>0. /\ m_entries \in Seq(Entry) /\ Len(m_entries) \in Nat
      /\ m_keyMap \in [Keys -> Nat] /\ m_size \in Nat /\ born \in 0..MaxBorn
  BY DEF MapInv, TypeOK
<1>1. passes' \in Seq(Pass) /\ last' \in LastCall
  BY DEF Put, MapInv, TypeOK, LastCall
<1>2. CASE m_keyMap[k] # Absent
  <2> DEFINE n == m_keyMap[k]
  <2>1. n \in 1..Len(m_entries) /\ m_entries[n].key = k /\ m_entries[n] \in Entry
    BY <1>0, <1>2, Position
  <2>2. /\ m_entries' = [m_entries EXCEPT ![n].value = v]
        /\ m_keyMap' = m_keyMap /\ m_size' = m_size /\ born' = born
    BY <1>2 DEF Put
  <2> HIDE DEF n
  <2>3. /\ m_entries' \in Seq(Entry) /\ Len(m_entries') = Len(m_entries)
    <3>1. [m_entries[n] EXCEPT !.value = v] \in Entry
      BY <2>1 DEF Entry
    <3> QED BY <1>0, <2>1, <2>2, <3>1
  <2>4. ASSUME NEW i \in 1..Len(m_entries)
        PROVE  /\ m_entries'[i].key = m_entries[i].key
               /\ m_entries'[i].born = m_entries[i].born
    <3>1. m_entries[i] \in Entry
      BY <1>0
    <3> QED BY <1>0, <2>1, <2>2, <3>1, SMTT(20) DEF Entry
  <2> QED BY <1>0, <1>1, <2>2, <2>3, <2>4 DEF MapInv, TypeOK, IndexAgrees, Ascending, has
<1>3. CASE m_keyMap[k] = Absent
  <2> DEFINE e == [key |-> k, value |-> v, born |-> born + 1]
             n == Len(m_entries) + 1
  <2>1. /\ born < MaxBorn /\ born' = born + 1
        /\ m_entries' = Append(m_entries, e)
        /\ m_keyMap' = [m_keyMap EXCEPT ![k] = n]
        /\ m_size' = m_size + 1
    BY <1>3 DEF Put, Absent
  <2>2. e \in Entry /\ born' \in 0..MaxBorn
    BY <1>0, <2>1 DEF Entry
  <2>e. e.key = k /\ e.born = born'
    BY <2>1
  <2> HIDE DEF e
  <2>3. /\ m_entries' \in Seq(Entry) /\ Len(m_entries') = n
        /\ m_entries'[n] = e
        /\ \A i \in 1..Len(m_entries) : m_entries'[i] = m_entries[i]
    BY <1>0, <2>1, <2>2
  <2>4. IndexAgrees'
    <3>1. m_size' = Len(m_entries')
      BY <1>0, <2>1, <2>3 DEF MapInv, IndexAgrees
    <3>2. ASSUME NEW j \in Keys, m_keyMap'[j] # Absent
          PROVE  m_keyMap'[j] <= Len(m_entries') /\ m_entries'[m_keyMap'[j]].key = j
      <4>1. CASE j = k
        BY <1>0, <2>1, <2>e, <2>3, <4>1
      <4>2. CASE j # k
        BY <1>0, <2>1, <2>3, <3>2, <4>2, Position
      <4> QED BY <4>1, <4>2
    <3>3. ASSUME NEW i \in 1..Len(m_entries')
          PROVE  m_keyMap'[m_entries'[i].key] = i
      <4>1. CASE i = n
        BY <1>0, <2>1, <2>e, <2>3, <4>1
      <4>2. CASE i # n
        <5>1. i \in 1..Len(m_entries)
          BY <1>0, <2>3, <4>2
        <5>5. m_entries[i] \in Entry
          BY <1>0, <5>1
        <5>2. m_entries[i].key \in Keys
          BY <5>5 DEF Entry
        <5>4. m_keyMap[m_entries[i].key] = i
          BY <5>1 DEF MapInv, IndexAgrees
        <5>3. m_entries[i].key # k
          BY <1>3, <5>1, <5>4 DEF Absent
        <5> QED BY <1>0, <2>1, <2>3, <5>1, <5>2, <5>3, <5>4
      <4> QED BY <4>1, <4>2
    <3> QED BY <3>1, <3>2, <3>3 DEF IndexAgrees, has
  <2>5. Ascending'
    <3>1. Ascending
      BY DEF MapInv
    <3>2. \A i \in 1..Len(m_entries) : m_entries[i].born <= born
      BY <3>1 DEF Ascending
    <3>3. \A i \in 1..Len(m_entries) : m_entries[i] \in Entry
      BY <1>0
    <3>4. \A i \in 1..Len(m_entries) : m_entries[i].born \in Nat
      BY <3>3 DEF Entry
    <3>5. ASSUME NEW i \in 1..n PROVE m_entries'[i].born <= born'
      <4>1. CASE i = n
        BY <1>0, <2>1, <2>e, <2>3, <4>1
      <4>2. CASE i # n
        <5>1. i \in 1..Len(m_entries)
          BY <1>0, <4>2
        <5> QED BY <1>0, <2>1, <2>3, <3>2, <3>4, <5>1
      <4> QED BY <4>1, <4>2
    <3>6. ASSUME NEW i \in 1..n, NEW j \in 1..n, i < j
          PROVE  m_entries'[i].born < m_entries'[j].born
      <4>1. i \in 1..Len(m_entries)
        BY <1>0, <3>6
      <4>2. CASE j = n
        BY <1>0, <2>1, <2>e, <2>3, <3>2, <3>4, <4>1, <4>2
      <4>3. CASE j # n
        <5>1. j \in 1..Len(m_entries)
          BY <1>0, <4>3
        <5> QED BY <2>3, <3>1, <3>6, <4>1, <5>1 DEF Ascending
      <4> QED BY <4>2, <4>3
    <3> QED BY <2>3, <3>5, <3>6 DEF Ascending
  <2>6. m_keyMap' \in [Keys -> Nat] /\ m_size' \in Nat
    BY <1>0, <2>1
  <2> QED BY <1>1, <2>2, <2>3, <2>4, <2>5, <2>6 DEF MapInv, TypeOK
<1> QED BY <1>2, <1>3

(* Removing one entry keeps the order of the others. *)
LEMMA RemovedAscending ==
  ASSUME MapInv, NEW n \in 1..Len(m_entries),
         m_entries' = RemoveAt(m_entries, n), born' = born
  PROVE  Ascending'
<1> DEFINE from(j) == IF j < n THEN j ELSE j + 1
<1>0. m_entries \in Seq(Entry) /\ Len(m_entries) \in Nat /\ Ascending
  BY DEF MapInv, TypeOK
<1>1. /\ Len(m_entries') = Len(m_entries) - 1
      /\ \A j \in 1..(Len(m_entries) - 1) :
           m_entries'[j] = IF j < n THEN m_entries[j] ELSE m_entries[j + 1]
  BY <1>0, RemoveAtIs
<1>2. \A j \in 1..Len(m_entries') :
        from(j) \in 1..Len(m_entries) /\ m_entries'[j] = m_entries[from(j)]
  BY <1>0, <1>1
<1>3. \A i, j \in 1..Len(m_entries') : i < j => from(i) < from(j)
  BY <1>0, <1>1
<1> HIDE DEF from
<1> QED BY <1>0, <1>2, <1>3 DEF Ascending

LEMMA HorizonType ==
  ASSUME NEW p \in Pass
  PROVE  Horizon(p) \in Nat /\ p.i \in Nat /\ p.gone \in Nat /\ Len(p.seen) \in Nat
         /\ \A m \in 1..Len(p.seen) : p.seen[m] \in Nat
<1>1. p.i \in Nat /\ p.gone \in Nat /\ p.seen \in Seq(1..MaxBorn)
  BY DEF Pass
<1>2. \A m \in 1..Len(p.seen) : p.seen[m] \in 1..MaxBorn
  BY <1>1, ElementOfSeq
<1> QED BY <1>1, <1>2, MapObjectAssumption DEF Horizon

(* How many of the positions S a loop has come to. *)
Reached(p, S) == Cardinality(S \cap (1..Horizon(p)))

LEMMA ReachedType ==
  ASSUME NEW p \in Pass, NEW S
  PROVE  Reached(p, S) \in Nat
<1>1. IsFiniteSet(1..Horizon(p))
  BY HorizonType, FS_Interval
<1>2. (S \cap (1..Horizon(p))) \in SUBSET (1..Horizon(p))
  OBVIOUS
<1>3. IsFiniteSet(S \cap (1..Horizon(p)))
  BY <1>1, <1>2, FS_Subset
<1> QED BY <1>3, FS_CardinalityType DEF Reached

(* Counting the lost entries leaves every loop well formed. *)
LEMMA LostTyped ==
  ASSUME MapInv, NEW S, Lost(S)
  PROVE  /\ passes' \in Seq(Pass)
         /\ Len(passes') = Len(passes)
         /\ \A d \in 1..Len(passes) :
              passes'[d] = [passes[d] EXCEPT !.gone = @ + Reached(passes[d], S)]
<1>1. passes \in Seq(Pass)
  BY DEF MapInv, TypeOK
<1>2. \A d \in 1..Len(passes) :
        [passes[d] EXCEPT !.gone = @ + Reached(passes[d], S)] \in Pass
  <2>1. ASSUME NEW p \in Pass PROVE [p EXCEPT !.gone = @ + Reached(p, S)] \in Pass
    BY ReachedType DEF Pass
  <2>2. \A d \in 1..Len(passes) : passes[d] \in Pass
    BY <1>1
  <2> QED BY <2>1, <2>2
<1>3. DOMAIN passes = 1..Len(passes) /\ Len(passes) \in Nat
  BY <1>1
<1>4. passes' = [d \in 1..Len(passes) |->
                   [passes[d] EXCEPT !.gone = @ + Reached(passes[d], S)]]
  BY <1>3 DEF Lost, Reached
<1> QED BY <1>2, <1>3, <1>4

LEMMA DeleteMapInv ==
  ASSUME MapInv, NEW k \in Keys, Delete(k)
  PROVE  MapInv'
<1> USE MapObjectAssumption
<1>0. /\ m_entries \in Seq(Entry) /\ Len(m_entries) \in Nat
      /\ m_keyMap \in [Keys -> Nat] /\ m_size \in Nat /\ born \in 0..MaxBorn
      /\ building' \in BOOLEAN /\ born' = born
  BY DEF MapInv, TypeOK, Delete
<1>1. last' \in LastCall
  <2>1. last' = <<"delete", k, FALSE>> \/ last' = <<"delete", k, TRUE>>
    BY DEF Delete
  <2>2. ASSUME NEW b \in BOOLEAN PROVE <<"delete", k, b>> \in LastCall
    BY DEF LastCall
  <2> QED BY <2>1, <2>2
<1>2. CASE m_keyMap[k] = Absent
  <2>1. UNCHANGED <<m_entries, m_keyMap, m_size, passes>>
    BY <1>2 DEF Delete
  <2> QED BY <1>0, <1>1, <2>1 DEF MapInv, TypeOK, IndexAgrees, Ascending, has
<1>3. CASE m_keyMap[k] # Absent
  <2> DEFINE n == m_keyMap[k]
  <2>1. n \in 1..Len(m_entries) /\ m_entries[n].key = k
    BY <1>3, Position
  <2>2. /\ m_entries' = RemoveAt(m_entries, n)
        /\ m_keyMap' = [j \in Keys |-> IF j = k THEN Absent
                         ELSE IF m_keyMap[j] > n THEN m_keyMap[j] - 1
                         ELSE m_keyMap[j]]
        /\ m_size' = m_size - 1
        /\ Lost({n})
    BY <1>3 DEF Delete
  <2>3. /\ m_entries' \in Seq(Entry)
        /\ Len(m_entries') = Len(m_entries) - 1
        /\ \A j \in 1..(Len(m_entries) - 1) :
             m_entries'[j] = IF j < n THEN m_entries[j] ELSE m_entries[j + 1]
    BY <1>0, <2>1, <2>2, RemoveAtIs
  <2>4. passes' \in Seq(Pass)
    BY <2>2, LostTyped
  <2>5. Ascending'
    BY <1>0, <2>1, <2>2, RemovedAscending
  <2>6. IndexAgrees
    BY DEF MapInv
  <2> HIDE DEF n
  <2>7. m_keyMap' \in [Keys -> Nat] /\ m_size' \in Nat
    BY <1>0, <2>1, <2>2, <2>6 DEF Absent, IndexAgrees
  <2>8. IndexAgrees'
    <3>1. m_size' = Len(m_entries')
      BY <2>2, <2>3, <2>6 DEF IndexAgrees
    <3>2. ASSUME NEW j \in Keys, m_keyMap'[j] # Absent
          PROVE  m_keyMap'[j] <= Len(m_entries') /\ m_entries'[m_keyMap'[j]].key = j
      <4>1. j # k /\ m_keyMap[j] # Absent
        BY <1>0, <2>1, <2>2, <3>2 DEF Absent
      <4>2. m_keyMap[j] \in 1..Len(m_entries) /\ m_entries[m_keyMap[j]].key = j
        BY <4>1, Position
      <4>3. m_keyMap[j] # n
        BY <2>1, <4>1, <4>2
      <4>4. m_keyMap'[j] = IF m_keyMap[j] > n THEN m_keyMap[j] - 1 ELSE m_keyMap[j]
        BY <2>2, <4>1
      <4>5. CASE m_keyMap[j] > n
        <5>1. m_keyMap'[j] = m_keyMap[j] - 1
          BY <4>4, <4>5
        <5>2. /\ m_keyMap'[j] \in 1..(Len(m_entries) - 1)
              /\ ~(m_keyMap'[j] < n) /\ m_keyMap'[j] + 1 = m_keyMap[j]
          BY <1>0, <2>1, <4>2, <4>5, <5>1
        <5> QED BY <2>3, <4>2, <5>2
      <4>6. CASE m_keyMap[j] < n
        <5>1. m_keyMap'[j] = m_keyMap[j]
          BY <1>0, <2>1, <4>2, <4>4, <4>6
        <5>2. m_keyMap'[j] \in 1..(Len(m_entries) - 1) /\ m_keyMap'[j] < n
          BY <1>0, <2>1, <4>2, <4>6, <5>1
        <5> QED BY <2>3, <4>2, <5>1, <5>2
      <4> QED BY <1>0, <2>1, <4>2, <4>3, <4>5, <4>6
    <3>3. ASSUME NEW i \in 1..Len(m_entries')
          PROVE  m_keyMap'[m_entries'[i].key] = i
      <4> DEFINE o == IF i < n THEN i ELSE i + 1
      <4>1. o \in 1..Len(m_entries) /\ m_entries'[i] = m_entries[o] /\ o # n
        BY <1>0, <2>1, <2>3
      <4>2. m_entries[o] \in Entry /\ m_keyMap[m_entries[o].key] = o
        BY <1>0, <2>6, <4>1 DEF IndexAgrees
      <4>3. m_entries[o].key \in Keys
        BY <4>2 DEF Entry
      <4>4. m_entries[o].key # k
        BY <4>1, <4>2 DEF n
      <4>5. m_keyMap'[m_entries[o].key] = IF o > n THEN o - 1 ELSE o
        BY <2>2, <4>2, <4>3, <4>4
      <4>6. (IF o > n THEN o - 1 ELSE o) = i
        BY <1>0, <2>1
      <4> QED BY <4>1, <4>5, <4>6
    <3> QED BY <3>1, <3>2, <3>3 DEF IndexAgrees, has
  <2> QED BY <1>0, <1>1, <2>3, <2>4, <2>5, <2>7, <2>8 DEF MapInv, TypeOK
<1> QED BY <1>2, <1>3

LEMMA ClearMapInv ==
  ASSUME MapInv, Clear
  PROVE  MapInv'
<1> USE MapObjectAssumption
<1>1. Lost(1..Len(m_entries))
  BY DEF Clear
<1>2. passes' \in Seq(Pass)
  BY <1>1, LostTyped
<1> QED BY <1>2 DEF MapInv, TypeOK, IndexAgrees, Ascending, has, Clear, LastCall, Absent

(* The steps of a loop change nothing but the loops. *)
LEMMA LoopMapInv ==
  ASSUME MapInv, ForEach \/ Visit \/ Return \/ Throw \/ Finish
  PROVE  MapInv'
<1>0. passes \in Seq(Pass) /\ m_entries \in Seq(Entry)
  BY DEF MapInv, TypeOK
<1>1. passes' \in Seq(Pass)
  <2>1. CASE ForEach
    <3>1. [i |-> 0, calling |-> FALSE, seen |-> <<>>, gone |-> 0] \in Pass
      BY DEF Pass
    <3> QED BY <1>0, <2>1, <3>1 DEF ForEach
  <2>2. CASE Visit
    <3> DEFINE h == Head(passes)
    <3>1. /\ h \in Pass /\ passes # <<>> /\ h.i < Len(m_entries)
          /\ h = passes[1] /\ 1 \in DOMAIN passes
      BY <1>0, <2>2 DEF Visit
    <3>2. h.i \in Nat /\ h.seen \in Seq(1..MaxBorn)
      BY <3>1 DEF Pass
    <3>3. m_entries[h.i + 1] \in Entry
      BY <1>0, <3>1, <3>2
    <3>4. m_entries[h.i + 1].born \in 1..MaxBorn
      BY <3>3 DEF Entry
    <3>5. Append(h.seen, m_entries[h.i + 1].born) \in Seq(1..MaxBorn)
      BY <3>2, <3>4
    <3>6. passes' = [passes EXCEPT ![1] = [h EXCEPT !.calling = TRUE,
                 !.seen = Append(h.seen, m_entries[h.i + 1].born)]]
      BY <2>2, <3>1 DEF Visit
    <3>7. [h EXCEPT !.calling = TRUE,
                    !.seen = Append(h.seen, m_entries[h.i + 1].born)] \in Pass
      BY <3>1, <3>5 DEF Pass
    <3> QED BY <1>0, <3>1, <3>6, <3>7
  <2>3. CASE Return
    <3>1. passes[1] \in Pass /\ 1 \in DOMAIN passes
      BY <1>0, <2>3 DEF Return
    <3>2. Turned(passes[1]) \in Pass
      BY <3>1 DEF Pass, Turned
    <3>3. passes' = [passes EXCEPT ![1] = Turned(passes[1])]
      BY <2>3 DEF Return
    <3> QED BY <1>0, <3>1, <3>2, <3>3
  <2>4. CASE Throw \/ Finish
    BY <1>0, <2>4, SMTT(20) DEF Throw, Finish
  <2> QED BY <2>1, <2>2, <2>3, <2>4
<1>2. UNCHANGED <<m_entries, m_keyMap, m_size, building, born, last>>
  BY DEF ForEach, Visit, Return, Throw, Finish
<1> QED BY <1>1, <1>2 DEF MapInv, TypeOK, IndexAgrees, Ascending, has

LEMMA StepMapInv == MapInv /\ [Next]_vars => MapInv'
<1> SUFFICES ASSUME MapInv, [Next]_vars PROVE MapInv'
  OBVIOUS
<1>1. ASSUME NEW k \in Keys, NEW v \in Values, FromIterable(k, v) \/ Set(k, v)
      PROVE  MapInv'
  <2>1. Put(k, v) /\ building' \in BOOLEAN
    BY <1>1 DEF FromIterable, Set, MapInv, TypeOK
  <2> QED BY <2>1, PutMapInv
<1>2. CASE Constructed
  BY <1>2 DEF Constructed, MapInv, TypeOK, IndexAgrees, Ascending, has
<1>3. ASSUME NEW k \in Keys, Delete(k) PROVE MapInv'
  BY <1>3, DeleteMapInv
<1>4. CASE Clear
  BY <1>4, ClearMapInv
<1>5. CASE ForEach \/ Visit \/ Return \/ Throw \/ Finish
  BY <1>5, LoopMapInv
<1>6. CASE UNCHANGED vars
  BY <1>6 DEF vars, MapInv, TypeOK, IndexAgrees, Ascending, has
<1> QED BY <1>1, <1>2, <1>3, <1>4, <1>5, <1>6 DEF Next

(* Types, the agreement of vector, table and size, and the order of birth in *)
(* the vector hold after any calls: the invariant the rest builds on.       *)
THEOREM SpecMapInv == Spec => []MapInv
BY InitMapInv, StepMapInv, PTL DEF Spec

(* Type correctness. *)
THEOREM MapTypeOK == Spec => []TypeOK
<1>1. MapInv => TypeOK
  BY DEF MapInv
<1> QED BY SpecMapInv, <1>1, PTL

(* The vector and the table agree after any sequence of calls. *)
THEOREM MapIndexAgrees == Spec => []IndexAgrees
<1>1. MapInv => IndexAgrees
  BY DEF MapInv
<1> QED BY SpecMapInv, <1>1, PTL

---------------------------------------------------------------------------
(* The loops.  Positions up to the horizon are done with; what a loop has   *)
(* seen is older than what stands beyond; and it has missed no more of the  *)
(* positions up to the horizon than entries have gone from there.          *)
Behind(p, es, b) ==
  /\ \A m, n \in 1..Len(p.seen) : m < n => p.seen[m] < p.seen[n]
  /\ \A m \in 1..Len(p.seen) : p.seen[m] <= b
  /\ \A m \in 1..Len(p.seen) : \A i \in 1..Len(es) :
       i > Horizon(p) => p.seen[m] < es[i].born

Sees(p, e) == \E m \in 1..Len(p.seen) : p.seen[m] = e.born

Missed(p, es) ==
  {j \in 1..Horizon(p) : j <= Len(es) => ~Sees(p, es[j])}

LoopOK(p, es, b) == Behind(p, es, b) /\ Cardinality(Missed(p, es)) <= p.gone

(* The same loop, after the entries at positions S have gone. *)
Since(p, q, S) ==
  /\ q.i = p.i /\ q.calling = p.calling /\ q.seen = p.seen
  /\ q.gone = p.gone + Reached(p, S)

LEMMA MissedFinite ==
  ASSUME NEW p \in Pass, NEW es
  PROVE  IsFiniteSet(Missed(p, es)) /\ Cardinality(Missed(p, es)) \in Nat
<1>1. IsFiniteSet(1..Horizon(p))
  BY HorizonType, FS_Interval
<1>2. Missed(p, es) \in SUBSET (1..Horizon(p))
  BY DEF Missed
<1>3. IsFiniteSet(Missed(p, es))
  BY <1>1, <1>2, FS_Subset
<1> QED BY <1>3, FS_CardinalityType

LEMMA MissesNoMore ==
  ASSUME NEW p \in Pass, NEW q \in Pass, NEW es, NEW fs,
         Missed(q, fs) \subseteq Missed(p, es), q.gone = p.gone,
         Cardinality(Missed(p, es)) <= p.gone
  PROVE  Cardinality(Missed(q, fs)) <= q.gone
<1>1. Missed(q, fs) \in SUBSET Missed(p, es)
  OBVIOUS
<1>2. Cardinality(Missed(q, fs)) <= Cardinality(Missed(p, es))
  BY <1>1, MissedFinite, FS_Subset
<1> QED BY <1>2, MissedFinite, HorizonType

LEMMA LoopAppended ==
  ASSUME NEW p \in Pass, NEW es \in Seq(Entry), NEW b \in Nat, NEW e \in Entry,
         e.born = b + 1, LoopOK(p, es, b)
  PROVE  LoopOK(p, Append(es, e), b + 1)
<1> DEFINE fs == Append(es, e)
<1>1. /\ Len(es) \in Nat /\ Len(fs) = Len(es) + 1 /\ fs[Len(es) + 1] = e
      /\ \A i \in 1..Len(es) : fs[i] = es[i]
  OBVIOUS
<1> HIDE DEF fs
<1>2. Behind(p, fs, b + 1)
  <2>1. ASSUME NEW m \in 1..Len(p.seen), NEW i \in 1..Len(fs), i > Horizon(p)
        PROVE  p.seen[m] < fs[i].born
    <3>1. p.seen[m] <= b /\ p.seen[m] \in Nat
      BY HorizonType DEF LoopOK, Behind
    <3>2. CASE i = Len(es) + 1
      BY <1>1, <3>1, <3>2
    <3>3. CASE i # Len(es) + 1
      <4>1. i \in 1..Len(es)
        BY <1>1, <3>3
      <4> QED BY <1>1, <2>1, <4>1 DEF LoopOK, Behind
    <3> QED BY <3>2, <3>3
  <2>2. ASSUME NEW m \in 1..Len(p.seen) PROVE p.seen[m] <= b + 1
    <3>1. p.seen[m] <= b
      BY DEF LoopOK, Behind
    <3>2. p.seen[m] \in Nat
      BY HorizonType
    <3> QED BY <3>1, <3>2
  <2> QED BY <2>1, <2>2 DEF LoopOK, Behind
<1>3. Missed(p, fs) \subseteq Missed(p, es)
  BY <1>1, HorizonType DEF Missed
<1>4. Cardinality(Missed(p, fs)) <= p.gone
  BY <1>3, MissesNoMore DEF LoopOK
<1> QED BY <1>2, <1>4 DEF LoopOK, fs

LEMMA LoopSameBorn ==
  ASSUME NEW p \in Pass, NEW es, NEW fs, NEW b, LoopOK(p, es, b),
         Len(fs) = Len(es),
         \A i \in 1..Len(es) : fs[i].born = es[i].born,
         Len(es) \in Nat
  PROVE  LoopOK(p, fs, b)
<1>1. Behind(p, fs, b)
  BY DEF LoopOK, Behind
<1>2. Missed(p, fs) \subseteq Missed(p, es)
  <2>1. ASSUME NEW j \in 1..Horizon(p), j <= Len(es)
        PROVE  Sees(p, es[j]) => Sees(p, fs[j])
    <3>1. j \in 1..Len(es)
      BY <2>1, HorizonType
    <3> QED BY <3>1 DEF Sees
  <2> QED BY <2>1 DEF Missed
<1> QED BY <1>1, <1>2, MissesNoMore DEF LoopOK

LEMMA LoopRemoved ==
  ASSUME NEW p \in Pass, NEW q \in Pass,
         NEW es \in Seq(Entry), NEW fs \in Seq(Entry), NEW b, LoopOK(p, es, b),
         NEW n \in 1..Len(es), Since(p, q, {n}), Len(fs) = Len(es) - 1,
         \A j \in 1..(Len(es) - 1) : fs[j] = IF j < n THEN es[j] ELSE es[j + 1]
  PROVE  LoopOK(q, fs, b)
<1> DEFINE h == Horizon(p)
           M == Missed(p, es)
           N == Missed(q, fs)
           g == [j \in M |-> IF j <= n THEN j ELSE j - 1]
<1>1. Horizon(q) = h /\ h \in Nat /\ Len(es) \in Nat /\ n \in Nat
      /\ q.seen = p.seen /\ q.gone = p.gone + Reached(p, {n}) /\ p.gone \in Nat
  BY HorizonType DEF Since, Horizon
<1>2. Behind(q, fs, b)
  <2>1. ASSUME NEW m \in 1..Len(q.seen), NEW i \in 1..Len(fs), i > h
        PROVE  q.seen[m] < fs[i].born
    <3>1. CASE i < n
      <4>1. i \in 1..Len(es) /\ fs[i] = es[i]
        BY <1>1, <2>1, <3>1, SMTT(20)
      <4> QED BY <1>1, <2>1, <4>1 DEF LoopOK, Behind
    <3>2. CASE ~(i < n)
      <4>1. i + 1 \in 1..Len(es) /\ i + 1 > h /\ fs[i] = es[i + 1]
        BY <1>1, <2>1, <3>2
      <4> QED BY <1>1, <4>1 DEF LoopOK, Behind
    <3> QED BY <3>1, <3>2
  <2> QED BY <1>1, <2>1 DEF LoopOK, Behind
<1>s. \A e : Sees(q, e) <=> Sees(p, e)
  BY <1>1 DEF Sees
<1>b. CASE n > h
  <2>1. {n} \cap (1..h) = {}
    BY <1>1, <1>b
  <2>2. Reached(p, {n}) = 0
    BY <2>1, FS_EmptySet DEF Reached
  <2>3. ASSUME NEW j \in N PROVE j \in M
    <3>1. j \in 1..h /\ (j <= Len(fs) => ~Sees(q, fs[j]))
      BY <1>1 DEF Missed
    <3>2. j \in 1..(Len(es) - 1) /\ j < n /\ j <= Len(fs)
      BY <1>1, <1>b, <3>1
    <3>3. fs[j] = es[j]
      BY <3>2
    <3> QED BY <1>s, <3>1, <3>2, <3>3 DEF Missed
  <2>4. q.gone = p.gone
    BY <1>1, <2>2
  <2> HIDE DEF M, N
  <2>5. N \subseteq M
    BY <2>3
  <2>6. Cardinality(N) <= q.gone
    BY <2>4, <2>5, MissesNoMore DEF LoopOK, M, N
  <2> QED BY <1>2, <2>6 DEF LoopOK, N
<1>c. CASE ~(n > h)
  <2>3. ASSUME NEW j \in N, j # h
        PROVE  \E k \in M : g[k] = j
    <3>1. j \in 1..h /\ (j <= Len(fs) => ~Sees(q, fs[j]))
      BY <1>1 DEF Missed
    <3>2. \A e : Sees(q, e) <=> Sees(p, e)
      BY <1>1 DEF Sees
    <3>3. CASE j < n
      <4>1. j <= Len(fs) /\ j \in 1..(Len(es) - 1) /\ fs[j] = es[j]
        BY <1>1, <3>1, <3>3
      <4>2. j \in M
        BY <1>1, <3>1, <3>2, <4>1 DEF Missed
      <4> QED BY <1>1, <3>1, <3>3, <4>2
    <3>4. CASE ~(j < n)
      <4>1. j + 1 \in 1..h
        BY <1>1, <2>3, <3>1
      <4>2. j + 1 <= Len(es) => j \in 1..(Len(es) - 1) /\ j <= Len(fs) /\ fs[j] = es[j + 1]
        BY <1>1, <3>1, <3>4
      <4>3. j + 1 \in M
        BY <1>1, <3>1, <3>2, <4>1, <4>2 DEF Missed
      <4>4. g[j + 1] = j
        BY <1>1, <3>1, <3>4, <4>3
      <4> QED BY <4>3, <4>4
    <3> QED BY <3>3, <3>4
  <2>4. IsFiniteSet(M) /\ IsFiniteSet(N) /\ Cardinality(M) \in Nat /\ Cardinality(N) \in Nat
    BY MissedFinite
  <2> DEFINE T == {g[k] : k \in M}
  <2>5. g \in Surjection(M, T)
    BY DEF Surjection
  <2> HIDE DEF g
  <2>6. IsFiniteSet(T) /\ Cardinality(T) <= Cardinality(M)
    BY <2>4, <2>5, FS_Surjection
  <2>7. N \subseteq T \cup {h}
    BY <2>3
  <2>8. q.gone = p.gone + 1
    <3>1. {n} \cap (1..h) = {n}
      BY <1>1, <1>c
    <3>2. Cardinality({n}) = 1
      BY FS_Singleton
    <3> QED BY <1>1, <3>1, <3>2 DEF Reached
  <2> HIDE DEF T, M, N
  <2>9. IsFiniteSet(T \cup {h}) /\ Cardinality(T \cup {h}) <= Cardinality(T) + 1
    <3>1. Cardinality(T) \in Nat
      BY <2>6, FS_CardinalityType
    <3>2. /\ IsFiniteSet(T \cup {h})
          /\ Cardinality(T \cup {h}) = IF h \in T THEN Cardinality(T)
                                       ELSE Cardinality(T) + 1
      BY <2>6, FS_AddElement
    <3> QED BY <3>1, <3>2
  <2>10. Cardinality(N) <= Cardinality(T \cup {h})
    BY <2>7, <2>9, FS_Subset
  <2>11. Cardinality(T) \in Nat /\ Cardinality(T \cup {h}) \in Nat
    BY <2>6, <2>9, FS_CardinalityType
  <2>12. Cardinality(M) <= p.gone
    BY DEF LoopOK, M
  <2>13. Cardinality(N) <= q.gone
    BY <1>1, <2>4, <2>6, <2>8, <2>9, <2>10, <2>11, <2>12
  <2> QED BY <1>2, <2>13 DEF LoopOK, N
<1> QED BY <1>b, <1>c

LEMMA LoopCleared ==
  ASSUME NEW p \in Pass, NEW q \in Pass, NEW es \in Seq(Entry), NEW b,
         Since(p, q, 1..Len(es)), LoopOK(p, es, b)
  PROVE  LoopOK(q, <<>>, b)
<1> DEFINE h == Horizon(p)
           l == Len(es)
           M == Missed(p, es)
           N == Missed(q, <<>>)
<1>1. /\ Horizon(q) = h /\ h \in Nat /\ l \in Nat
      /\ q.seen = p.seen /\ q.gone = p.gone + Reached(p, 1..l) /\ p.gone \in Nat
  BY HorizonType DEF Since, Horizon
<1>2. Behind(q, <<>>, b)
  BY <1>1 DEF LoopOK, Behind
<1>0. \A x, y \in Int : IsFiniteSet(x..y)
                        /\ Cardinality(x..y) = IF x > y THEN 0 ELSE y - x + 1
  BY FS_Interval
<1>3. N \in SUBSET (1..h) /\ ((l + 1)..h) \in SUBSET M
  BY <1>1 DEF Missed
<1>4. Reached(p, 1..l) = Cardinality((1..l) \cap (1..h))
  BY DEF Reached
<1>5. Cardinality(M) <= p.gone
  BY DEF LoopOK
<1>6. IsFiniteSet(M) /\ Cardinality(M) \in Nat /\ Cardinality(N) \in Nat
  BY MissedFinite
<1> HIDE DEF h, l, M, N
<1>7. IsFiniteSet(1..h) /\ Cardinality(1..h) = h
  BY <1>0, <1>1
<1>8. Cardinality(N) <= h
  BY <1>3, <1>7, FS_Subset
<1>9. CASE l >= h
  <2>1. (1..l) \cap (1..h) = 1..h
    BY <1>1, <1>9
  <2>2. q.gone = p.gone + h
    BY <1>1, <1>4, <1>7, <2>1
  <2>3. Cardinality(N) <= q.gone
    BY <1>1, <1>6, <1>8, <2>2
  <2> QED BY <1>2, <2>3 DEF LoopOK, N
<1>10. CASE ~(l >= h)
  <2>1. (1..l) \cap (1..h) = 1..l
    BY <1>1, <1>10
  <2>2. Cardinality(1..l) = l
    BY <1>0, <1>1
  <2>3. q.gone = p.gone + l
    BY <1>1, <1>4, <2>1, <2>2
  <2>4. Cardinality((l + 1)..h) = h - l
    BY <1>0, <1>1, <1>10
  <2>5. Cardinality((l + 1)..h) <= Cardinality(M)
    BY <1>3, <1>6, FS_Subset
  <2>6. Cardinality(N) <= q.gone
    BY <1>1, <1>5, <1>6, <1>8, <2>3, <2>4, <2>5
  <2> QED BY <1>2, <2>6 DEF LoopOK, N
<1> QED BY <1>9, <1>10

LEMMA LoopNew ==
  ASSUME NEW p \in Pass, p.i = 0, ~p.calling, p.seen = <<>>, p.gone = 0,
         NEW es, NEW b
  PROVE  LoopOK(p, es, b)
<1>1. Horizon(p) = 0
  BY DEF Horizon
<1>2. Missed(p, es) = {}
  BY <1>1 DEF Missed
<1>3. Cardinality(Missed(p, es)) = 0
  BY <1>2, FS_EmptySet
<1> QED BY <1>3 DEF LoopOK, Behind

(* Calling back for the next entry moves the horizon over it. *)
LEMMA LoopVisited ==
  ASSUME NEW p \in Pass, NEW q \in Pass, NEW es \in Seq(Entry), NEW b,
         LoopOK(p, es, b), ~p.calling, p.i < Len(es),
         \A i, j \in 1..Len(es) : i < j => es[i].born < es[j].born,
         \A i \in 1..Len(es) : es[i].born <= b,
         q.i = p.i, q.calling, q.gone = p.gone,
         q.seen = Append(p.seen, es[p.i + 1].born)
  PROVE  LoopOK(q, es, b)
<1> DEFINE n == p.i + 1
           l == Len(p.seen) + 1
<1>1. Horizon(p) = p.i /\ Horizon(q) = n /\ p.i \in Nat /\ n \in 1..Len(es)
      /\ Len(es) \in Nat
  BY HorizonType DEF Horizon
<1>2. /\ Len(q.seen) = l /\ q.seen[l] = es[n].born /\ Len(p.seen) \in Nat
      /\ \A m \in 1..Len(p.seen) : q.seen[m] = p.seen[m]
  BY DEF Pass
<1>3. \A m \in 1..Len(p.seen) : p.seen[m] < es[n].born
  <2>1. n \in 1..Len(es) /\ n > Horizon(p)
    BY <1>1
  <2> HIDE DEF n
  <2> QED BY <2>1 DEF LoopOK, Behind
<1> HIDE DEF n, l
<1>4. Behind(q, es, b)
  <2>1. ASSUME NEW m \in 1..Len(q.seen), NEW k \in 1..Len(q.seen), m < k
        PROVE  q.seen[m] < q.seen[k]
    <3>1. m \in 1..Len(p.seen)
      BY <1>2, <2>1 DEF l
    <3>2. CASE k = l
      BY <1>2, <1>3, <3>1, <3>2
    <3>3. CASE k # l
      <4>1. k \in 1..Len(p.seen)
        BY <1>2, <3>3 DEF l
      <4> QED BY <1>2, <2>1, <3>1, <4>1 DEF LoopOK, Behind
    <3> QED BY <3>2, <3>3
  <2>2. ASSUME NEW m \in 1..Len(q.seen)
        PROVE  /\ q.seen[m] <= b
               /\ \A i \in 1..Len(es) : i > n => q.seen[m] < es[i].born
    <3>1. CASE m = l
      BY <1>1, <1>2, <3>1
    <3>2. CASE m # l
      <4>1. m \in 1..Len(p.seen) /\ q.seen[m] = p.seen[m]
        BY <1>2, <3>2 DEF l
      <4>2. \A i \in 1..Len(es) : i > n => i > p.i
        BY <1>1 DEF n
      <4> QED BY <1>1, <4>1, <4>2 DEF LoopOK, Behind
    <3> QED BY <3>1, <3>2
  <2> QED BY <1>1, <2>1, <2>2 DEF Behind
<1>5. Missed(q, es) \subseteq Missed(p, es)
  <2>1. Sees(q, es[n])
    BY <1>2 DEF Sees, l
  <2>2. \A e : Sees(p, e) => Sees(q, e)
    BY <1>2 DEF Sees, l
  <2>3. \A j \in 1..n : j # n => j \in 1..p.i
    BY <1>1 DEF n
  <2>4. n <= Len(es)
    BY <1>1
  <2> QED BY <1>1, <2>1, <2>2, <2>3, <2>4 DEF Missed
<1>6. Cardinality(Missed(q, es)) <= q.gone
  BY <1>5, MissesNoMore DEF LoopOK
<1> QED BY <1>4, <1>6 DEF LoopOK

LEMMA LoopReturned ==
  ASSUME NEW p \in Pass, p.calling, NEW es, NEW b, LoopOK(p, es, b)
  PROVE  LoopOK(Turned(p), es, b)
<1>1. Horizon(Turned(p)) = Horizon(p) /\ Turned(p).seen = p.seen
      /\ Turned(p).gone = p.gone
  BY DEF Horizon, Turned
<1>2. Missed(Turned(p), es) = Missed(p, es)
  BY <1>1 DEF Missed, Sees
<1>3. Behind(Turned(p), es, b)
  BY <1>1 DEF LoopOK, Behind
<1> QED BY <1>1, <1>2, <1>3 DEF LoopOK

LoopsOK == \A d \in 1..Len(passes) : LoopOK(passes[d], m_entries, born)

LEMMA PutLoops ==
  ASSUME MapInv, LoopsOK, NEW k \in Keys, NEW v \in Values, Put(k, v)
  PROVE  LoopsOK'
<1>0. /\ m_entries \in Seq(Entry) /\ Len(m_entries) \in Nat
      /\ born \in Nat /\ passes' = passes
  BY DEF MapInv, TypeOK, Put
<1>p. \A d \in 1..Len(passes) : passes[d] \in Pass
  BY DEF MapInv, TypeOK
<1>1. CASE m_keyMap[k] # Absent
  <2> DEFINE n == m_keyMap[k]
  <2>1. n \in 1..Len(m_entries)
    BY <1>1, Position
  <2>2. m_entries' = [m_entries EXCEPT ![n].value = v] /\ born' = born
    BY <1>1 DEF Put
  <2> HIDE DEF n
  <2>3. Len(m_entries') = Len(m_entries)
    BY <1>0, <2>2
  <2>4. ASSUME NEW i \in 1..Len(m_entries)
        PROVE  m_entries'[i].born = m_entries[i].born
    <3>1. m_entries[i] \in Entry
      BY <1>0
    <3> QED BY <1>0, <2>1, <2>2, <3>1 DEF Entry
  <2> QED BY <1>0, <1>p, <2>2, <2>3, <2>4, LoopSameBorn DEF LoopsOK
<1>2. CASE m_keyMap[k] = Absent
  <2> DEFINE e == [key |-> k, value |-> v, born |-> born + 1]
  <2>1. born < MaxBorn /\ born' = born + 1 /\ m_entries' = Append(m_entries, e)
    BY <1>2 DEF Put
  <2>2. e \in Entry /\ e.born = born + 1
    BY <1>0, <2>1, MapObjectAssumption DEF Entry
  <2> HIDE DEF e
  <2> QED BY <1>0, <1>p, <2>1, <2>2, LoopAppended DEF LoopsOK
<1> QED BY <1>1, <1>2

LEMMA RemovalLoops ==
  ASSUME MapInv, LoopsOK, (\E k \in Keys : Delete(k)) \/ Clear
  PROVE  LoopsOK'
<1>0. /\ m_entries \in Seq(Entry) /\ Len(m_entries) \in Nat /\ born' = born
  <2>1. born' = born
    BY Zenon DEF Delete, Clear
  <2> QED BY <2>1 DEF MapInv, TypeOK
<1>p. /\ passes \in Seq(Pass)
      /\ \A d \in 1..Len(passes) : passes[d] \in Pass
  BY DEF MapInv, TypeOK
<1>l. ASSUME NEW S, Lost(S)
      PROVE  /\ Len(passes') = Len(passes)
             /\ \A d \in 1..Len(passes) :
                  passes'[d] \in Pass /\ Since(passes[d], passes'[d], S)
  <2>1. /\ passes' \in Seq(Pass) /\ Len(passes') = Len(passes)
        /\ \A d \in 1..Len(passes) : passes'[d] =
             [passes[d] EXCEPT !.gone = @ + Reached(passes[d], S)]
    BY <1>l, LostTyped
  <2>2. \A d \in 1..Len(passes) : passes'[d] \in Pass
    BY <2>1, ElementOfSeq
  <2>3. ASSUME NEW p \in Pass 
        PROVE  Since(p, [p EXCEPT !.gone = @ + Reached(p, S)], S)
    BY DEF Since, Pass
  <2> QED BY <1>p, <2>1, <2>2, <2>3
<1>1. ASSUME NEW k \in Keys, Delete(k)
      PROVE  LoopsOK'
  <2>1. CASE m_keyMap[k] = Absent
    BY <1>0, <1>1, <2>1 DEF Delete, LoopsOK
  <2>2. CASE m_keyMap[k] # Absent
    <3> DEFINE n == m_keyMap[k]
    <3>1. n \in 1..Len(m_entries)
      BY <2>2, Position
    <3>2. m_entries' = RemoveAt(m_entries, n) /\ Lost({n})
      BY <1>1, <2>2 DEF Delete
    <3> HIDE DEF n
    <3>3. /\ m_entries' \in Seq(Entry)
          /\ Len(m_entries') = Len(m_entries) - 1
          /\ \A j \in 1..(Len(m_entries) - 1) :
               m_entries'[j] = IF j < n THEN m_entries[j] ELSE m_entries[j + 1]
      BY <1>0, <3>1, <3>2, RemoveAtIs
    <3>4. /\ Len(passes') = Len(passes)
          /\ \A d \in 1..Len(passes) :
               passes'[d] \in Pass /\ Since(passes[d], passes'[d], {n})
      BY <1>l, <3>2
    <3>5. ASSUME NEW d \in 1..Len(passes)
          PROVE  LoopOK(passes'[d], m_entries', born)
      BY <1>0, <1>p, <3>1, <3>3, <3>4, LoopRemoved DEF LoopsOK
    <3> QED BY <1>0, <3>4, <3>5 DEF LoopsOK
  <2> QED BY <2>1, <2>2
<1>2. CASE Clear
  <2>1. m_entries' = <<>> /\ Lost(1..Len(m_entries))
    BY <1>2 DEF Clear
  <2>2. /\ Len(passes') = Len(passes)
        /\ \A d \in 1..Len(passes) :
             passes'[d] \in Pass /\ Since(passes[d], passes'[d], 1..Len(m_entries))
    BY <1>0, <1>l, <2>1
  <2>3. ASSUME NEW d \in 1..Len(passes)
        PROVE  LoopOK(passes'[d], <<>>, born)
    BY <1>0, <1>p, <2>2, LoopCleared DEF LoopsOK
  <2> QED BY <1>0, <2>1, <2>2, <2>3 DEF LoopsOK
<1> QED BY <1>1, <1>2

LEMMA TurnLoops ==
  ASSUME MapInv, LoopsOK, ForEach \/ Visit \/ Return \/ Throw \/ Finish
  PROVE  LoopsOK'
<1>0. /\ m_entries \in Seq(Entry) /\ m_entries' = m_entries /\ born' = born
      /\ passes \in Seq(Pass) /\ passes' \in Seq(Pass)
  BY LoopMapInv DEF MapInv, TypeOK, ForEach, Visit, Return, Throw, Finish
<1>1. CASE ForEach
  <2> DEFINE z == [i |-> 0, calling |-> FALSE, seen |-> <<>>, gone |-> 0]
  <2>1. z \in Pass
    BY DEF Pass
  <2>2. LoopOK(z, m_entries, born)
    BY <2>1, LoopNew
  <2>3. passes' = <<z>> \o passes
    BY <1>1 DEF ForEach
  <2> HIDE DEF z
  <2>4. \A d \in 1..Len(passes') : passes'[d] = IF d = 1 THEN z ELSE passes[d - 1]
    BY <1>0, <2>1, <2>3
  <2>5. \A d \in 1..Len(passes') : d # 1 => d - 1 \in 1..Len(passes)
    BY <1>0, <2>1, <2>3
  <2> QED BY <1>0, <2>2, <2>4, <2>5 DEF LoopsOK
<1>2. CASE Visit \/ Return
  <2>1. passes # <<>> /\ 1 \in 1..Len(passes) /\ passes[1] \in Pass
        /\ Head(passes) = passes[1]
    BY <1>0, <1>2 DEF Visit, Return
  <2>2. /\ Len(passes') = Len(passes)
        /\ \A d \in 1..Len(passes) : d # 1 => passes'[d] = passes[d]
    BY <1>0, <1>2 DEF Visit, Return
  <2>3. passes'[1] \in Pass
    BY <1>0, <2>1, <2>2, ElementOfSeq
  <2>4. LoopOK(passes'[1], m_entries, born)
    <3>1. CASE Visit
      <4> DEFINE p == passes[1]
                 q == passes'[1]
      <4>1. /\ q.i = p.i /\ q.calling /\ q.gone = p.gone
            /\ q.seen = Append(p.seen, m_entries[p.i + 1].born)
            /\ ~p.calling /\ p.i < Len(m_entries)
        BY <1>0, <2>1, <3>1, SMTT(20) DEF Visit, Pass
      <4>2. LoopOK(p, m_entries, born)
        BY <2>1 DEF LoopsOK
      <4>3. /\ \A i, j \in 1..Len(m_entries) :
                 i < j => m_entries[i].born < m_entries[j].born
            /\ \A i \in 1..Len(m_entries) : m_entries[i].born <= born
        BY DEF MapInv, Ascending
      <4>4. p \in Pass /\ q \in Pass
        BY <2>1, <2>3
      <4> HIDE DEF p, q
      <4>5. LoopOK(q, m_entries, born)
        BY <1>0, <4>1, <4>2, <4>3, <4>4, LoopVisited
      <4> QED BY <4>5 DEF q
    <3>2. CASE Return
      <4>1. passes'[1] = Turned(passes[1]) /\ passes[1].calling
        BY <1>0, <2>1, <3>2 DEF Return
      <4>2. LoopOK(passes[1], m_entries, born)
        BY <2>1 DEF LoopsOK
      <4> QED BY <2>1, <4>1, <4>2, LoopReturned
    <3> QED BY <1>2, <3>1, <3>2
  <2> QED BY <1>0, <2>2, <2>4 DEF LoopsOK
<1>3. CASE Throw \/ Finish
  <2>1. passes # <<>> /\ passes' = Tail(passes)
    BY <1>3 DEF Throw, Finish
  <2>2. \A d \in 1..Len(passes') : d + 1 \in 1..Len(passes) /\ passes'[d] = passes[d + 1]
    BY <1>0, <2>1
  <2> QED BY <1>0, <2>2 DEF LoopsOK
<1> QED BY <1>1, <1>2, <1>3

(* What each forEach loop under way has visited is behind its position and   *)
(* in order, and what it has missed is paid for by removals at the positions *)
(* it had come to.                                                         *)
THEOREM SpecLoops == Spec => [](MapInv /\ LoopsOK)
<1>1. Init => LoopsOK
  BY DEF Init, LoopsOK
<1>2. MapInv /\ LoopsOK /\ [Next]_vars => LoopsOK'
  <2> SUFFICES ASSUME MapInv, LoopsOK, [Next]_vars PROVE LoopsOK'
    OBVIOUS
  <2>1. ASSUME NEW k \in Keys, NEW v \in Values, FromIterable(k, v) \/ Set(k, v)
        PROVE  LoopsOK'
    BY <2>1, PutLoops DEF FromIterable, Set
  <2>2. CASE Constructed \/ UNCHANGED vars
    BY <2>2 DEF Constructed, vars, LoopsOK
  <2>3. CASE (\E k \in Keys : Delete(k)) \/ Clear
    BY <2>3, RemovalLoops
  <2>4. CASE ForEach \/ Visit \/ Return \/ Throw \/ Finish
    BY <2>4, TurnLoops
  <2> QED BY <2>1, <2>2, <2>3, <2>4 DEF Next
<1> QED BY InitMapInv, StepMapInv, <1>1, <1>2, PTL DEF Spec

(* A loop's callbacks come in the order of insertion, each insertion once. *)
THEOREM MapVisitsAscend == Spec => []VisitsAscend
<1>1. MapInv /\ LoopsOK => VisitsAscend
  BY DEF LoopsOK, LoopOK, Behind, VisitsAscend
<1> QED BY SpecLoops, <1>1, PTL

(* A loop whose callback is not running is left by Finish alone. *)
LEMMA OnlyFinishEnds ==
  ASSUME MapInv, [Next]_vars, LoopEnds
  PROVE  Finish
<1>0. /\ passes \in Seq(Pass) /\ Len(passes) \in Nat
      /\ ~Head(passes).calling /\ Len(passes') < Len(passes)
  BY DEF MapInv, TypeOK, LoopEnds
<1>1. ~(passes' = passes)
  BY <1>0
<1>2. ~(\E k \in Keys : Delete(k)) /\ ~Clear /\ ~ForEach
  BY DEF LoopEnds, Delete, Clear, ForEach, InScript
<1>3. ~Return /\ ~Throw
  BY <1>0 DEF Return, Throw
<1>4. ~Visit
  BY <1>0 DEF Visit
<1> QED BY <1>1, <1>2, <1>3, <1>4
        DEF Next, FromIterable, Set, Put, Constructed, vars

(* A loop that comes to its end has missed at most one entry for each that  *)
(* was removed at a position it had come to.                               *)
THEOREM MapMissesOnlyMovedUp == Spec => MissesOnlyMovedUp
<1>1. MapInv /\ LoopsOK /\ [Next]_vars
        => [LoopEnds => Cardinality(Unseen(Head(passes))) <= Head(passes).gone]_vars
  <2> SUFFICES ASSUME MapInv, LoopsOK, [Next]_vars, LoopEnds
               PROVE  Cardinality(Unseen(Head(passes))) <= Head(passes).gone
    OBVIOUS
  <2>0. Finish
    BY OnlyFinishEnds
  <2> DEFINE p == Head(passes)
  <2>1. p \in Pass /\ ~p.calling /\ p.i >= Len(m_entries)
        /\ LoopOK(p, m_entries, born) /\ Len(m_entries) \in Nat
    <3>1. passes # <<>> /\ passes \in Seq(Pass) /\ m_entries \in Seq(Entry)
      BY <2>0 DEF Finish, MapInv, TypeOK
    <3>2. p = passes[1] /\ 1 \in 1..Len(passes) /\ passes[1] \in Pass
      BY <3>1
    <3> QED BY <2>0, <3>1, <3>2 DEF Finish, LoopsOK
  <2> HIDE DEF p
  <2>2. Unseen(p) \in SUBSET Missed(p, m_entries)
    <3>1. Horizon(p) = p.i /\ p.i \in Nat
      BY <2>1, HorizonType DEF Horizon
    <3> QED BY <2>1, <3>1 DEF Unseen, Missed, Sees
  <2>3. Cardinality(Unseen(p)) <= Cardinality(Missed(p, m_entries))
    BY <2>1, <2>2, MissedFinite, FS_Subset
  <2>4. IsFiniteSet(Unseen(p))
    BY <2>1, <2>2, MissedFinite, FS_Subset
  <2>5. Cardinality(Unseen(p)) \in Nat
    BY <2>4, FS_CardinalityType
  <2>6. Cardinality(Unseen(p)) <= p.gone
    BY <2>1, <2>3, <2>5, MissedFinite, HorizonType DEF LoopOK
  <2> QED BY <2>6 DEF p
<1> QED BY SpecLoops, <1>1, PTL DEF Spec, MissesOnlyMovedUp

---------------------------------------------------------------------------
(* The refinement.  What the methods answer, as the abstract map's state.   *)
content == [k \in {j \in Keys : has(j)} |-> get(k)]

Answering ==
  /\ keys \in Seq(Keys) /\ Len(keys) = Len(m_entries)
  /\ DOMAIN content = {k \in Keys : m_keyMap[k] # Absent}
  /\ \A k \in DOMAIN content : content[k] = m_entries[m_keyMap[k]].value
  /\ \A i \in 1..Len(m_entries) : keys[i] = m_entries[i].key

LEMMA Answers == MapInv => Answering
<1> SUFFICES ASSUME MapInv PROVE Answering
  OBVIOUS
<1>1. m_entries \in Seq(Entry) /\ Len(m_entries) \in Nat
  BY DEF MapInv, TypeOK
<1>2. \A i \in 1..Len(m_entries) : m_entries[i].key \in Keys
  <2>1. \A i \in 1..Len(m_entries) : m_entries[i] \in Entry
    BY <1>1
  <2> QED BY <2>1 DEF Entry
<1> QED BY <1>1, <1>2 DEF Answering, content, keys, has, get

LEMMA AnswersNext == MapInv' => Answering'
BY Answers, PTL

LEMMA InitRefines == Init => OM!Init
<1> SUFFICES ASSUME Init PROVE OM!Init
  OBVIOUS
<1>1. keys = <<>>
  BY DEF Init, keys
<1>2. {j \in Keys : has(j)} = {}
  BY DEF Init, has
<1>3. [k \in {j \in Keys : has(j)} |-> get(k)] = [k \in {} |-> k]
  BY <1>2
<1> QED BY <1>1, <1>3 DEF Init, OM!Init, OM!Nothing

LEMMA PutRefines ==
  ASSUME MapInv, MapInv', NEW k \in Keys, NEW v \in Values, Put(k, v)
  PROVE  OM!Put(k, v)
<1>0. /\ m_entries \in Seq(Entry) /\ Len(m_entries) \in Nat
      /\ m_keyMap \in [Keys -> Nat] /\ last' = <<"set", k, v>>
  BY DEF MapInv, TypeOK, Put
<1>1. Answering /\ Answering'
  BY Answers, AnswersNext
<1>2. CASE m_keyMap[k] # Absent
  <2> DEFINE n == m_keyMap[k]
  <2>1. n \in 1..Len(m_entries)
    BY <1>2, Position
  <2>2. m_entries' = [m_entries EXCEPT ![n].value = v] /\ m_keyMap' = m_keyMap
    BY <1>2 DEF Put
  <2>3. Len(m_entries') = Len(m_entries)
    BY <1>0, <2>2
  <2>4. ASSUME NEW i \in 1..Len(m_entries)
        PROVE  /\ m_entries'[i].key = m_entries[i].key
               /\ m_entries'[i].value = IF i = n THEN v ELSE m_entries[i].value
    <3>1. m_entries[i] \in Entry
      BY <1>0
    <3> QED BY <1>0, <2>1, <2>2, <3>1 DEF Entry
  <2>5. keys' = keys
    BY <1>1, <2>3, <2>4, SeqEqual DEF Answering
  <2>6. k \in DOMAIN content
    BY <1>1, <1>2 DEF Answering
  <2>7. content' = [j \in DOMAIN content \cup {k} |-> IF j = k THEN v ELSE content[j]]
    <3>1. DOMAIN content' = DOMAIN content \cup {k}
      BY <1>1, <2>2, <2>6 DEF Answering
    <3>2. ASSUME NEW j \in DOMAIN content'
          PROVE  content'[j] = IF j = k THEN v ELSE content[j]
      <4>1. j \in Keys /\ m_keyMap[j] # Absent
        BY <1>1, <2>2 DEF Answering
      <4>2. m_keyMap[j] \in 1..Len(m_entries) /\ m_entries[m_keyMap[j]].key = j
        BY <4>1, Position
      <4>3. m_entries[n].key = k
        BY <1>2, Position
      <4>4. m_keyMap[j] = n <=> j = k
        BY <4>2, <4>3
      <4>5. content'[j] = m_entries'[m_keyMap[j]].value
        BY <1>1, <2>2 DEF Answering
      <4>6. j # k => content[j] = m_entries[m_keyMap[j]].value
        BY <1>1, <4>1 DEF Answering
      <4> QED BY <2>4, <4>2, <4>4, <4>5, <4>6
    <3>3. content' = [j \in DOMAIN content' |-> content'[j]]
      BY DEF content
    <3> QED BY <3>1, <3>2, <3>3
  <2> QED BY <1>0, <2>5, <2>6, <2>7 DEF OM!Put, content
<1>3. CASE m_keyMap[k] = Absent
  <2> DEFINE e == [key |-> k, value |-> v, born |-> born + 1]
             n == Len(m_entries) + 1
  <2>1. /\ m_entries' = Append(m_entries, e)
        /\ m_keyMap' = [m_keyMap EXCEPT ![k] = n]
    BY <1>3 DEF Put
  <2>2. e.key = k /\ e.value = v
    OBVIOUS
  <2> HIDE DEF e
  <2>3. /\ Len(m_entries') = n
        /\ \A i \in 1..Len(m_entries) : m_entries'[i] = m_entries[i]
        /\ m_entries'[n] = e
    <3>1. e \in Entry
      <4>1. m_entries' \in Seq(Entry) /\ m_entries'[Len(m_entries) + 1] = e
            /\ Len(m_entries') = Len(m_entries) + 1
        BY <1>0, <2>1 DEF MapInv, TypeOK
      <4> QED BY <1>0, <4>1
    <3> QED BY <1>0, <2>1, <3>1
  <2>4. keys' = Append(keys, k)
    <3>1. /\ Append(keys, k) \in Seq(Keys) /\ Len(Append(keys, k)) = n
          /\ \A i \in 1..n : Append(keys, k)[i] =
               IF i = n THEN k ELSE m_entries[i].key
      <4>1. keys \in Seq(Keys) /\ Len(keys) = Len(m_entries)
            /\ \A i \in 1..Len(m_entries) : keys[i] = m_entries[i].key
        BY <1>1 DEF Answering
      <4> HIDE DEF n
      <4>2. /\ Append(keys, k) \in Seq(Keys) /\ Len(Append(keys, k)) = Len(keys) + 1
            /\ \A i \in 1..Len(keys) : Append(keys, k)[i] = keys[i]
            /\ Append(keys, k)[Len(keys) + 1] = k
        BY <4>1, AppendProperties
      <4> QED BY <1>0, <4>1, <4>2 DEF n
    <3>2. \A i \in 1..n : keys'[i] = IF i = n THEN k ELSE m_entries[i].key
      BY <1>0, <1>1, <2>2, <2>3 DEF Answering
    <3> QED BY <1>1, <2>3, <3>1, <3>2, SeqEqual DEF Answering
  <2>5. k \notin DOMAIN content
    BY <1>1, <1>3 DEF Answering
  <2>6. content' = [j \in DOMAIN content \cup {k} |-> IF j = k THEN v ELSE content[j]]
    <3>0. n # Absent
      BY <1>0 DEF Absent
    <3>1. DOMAIN content' = DOMAIN content \cup {k}
      BY <1>0, <1>1, <2>1, <3>0 DEF Answering
    <3>2. ASSUME NEW j \in DOMAIN content'
          PROVE  content'[j] = IF j = k THEN v ELSE content[j]
      <4>1. content'[j] = m_entries'[m_keyMap'[j]].value /\ j \in Keys
        BY <1>1 DEF Answering
      <4>2. CASE j = k
        BY <1>0, <2>1, <2>2, <2>3, <4>1, <4>2
      <4>3. CASE j # k
        <5>1. j \in DOMAIN content
          BY <3>1, <4>3
        <5>2. m_keyMap[j] # Absent /\ content[j] = m_entries[m_keyMap[j]].value
          BY <1>1, <5>1 DEF Answering
        <5>3. m_keyMap[j] \in 1..Len(m_entries)
          BY <4>1, <5>2, Position
        <5> QED BY <1>0, <2>1, <2>3, <4>1, <4>3, <5>2, <5>3
      <4> QED BY <4>2, <4>3
    <3>3. content' = [j \in DOMAIN content' |-> content'[j]]
      BY DEF content
    <3> QED BY <3>1, <3>2, <3>3
  <2> QED BY <1>0, <2>4, <2>5, <2>6 DEF OM!Put, content
<1> QED BY <1>2, <1>3

LEMMA DeleteRefines ==
  ASSUME MapInv, MapInv', NEW k \in Keys, Delete(k)
  PROVE  OM!Delete(k)
<1>0. /\ m_entries \in Seq(Entry) /\ Len(m_entries) \in Nat
      /\ m_keyMap \in [Keys -> Nat]
  BY DEF MapInv, TypeOK
<1>1. Answering /\ Answering'
  BY Answers, AnswersNext
<1>2. CASE m_keyMap[k] = Absent
  <2>1. UNCHANGED <<m_entries, m_keyMap>> /\ last' = <<"delete", k, FALSE>>
    BY <1>2 DEF Delete
  <2>2. \A i \in 1..Len(keys) : keys[i] # k
    <3>1. \A i \in 1..Len(m_entries) : m_keyMap[m_entries[i].key] = i
      BY DEF MapInv, IndexAgrees
    <3> QED BY <1>0, <1>1, <1>2, <3>1 DEF Answering, Absent
  <2>3. UNCHANGED <<keys, content>>
    BY <2>1 DEF keys, content, has, get
  <2> QED BY <2>1, <2>2, <2>3 DEF OM!Delete, content
<1>3. CASE m_keyMap[k] # Absent
  <2> DEFINE n == m_keyMap[k]
  <2>1. n \in 1..Len(m_entries) /\ m_entries[n].key = k
    BY <1>3, Position
  <2>2. /\ m_entries' = RemoveAt(m_entries, n)
        /\ m_keyMap' = [j \in Keys |-> IF j = k THEN Absent
                         ELSE IF m_keyMap[j] > n THEN m_keyMap[j] - 1
                         ELSE m_keyMap[j]]
        /\ last' = <<"delete", k, TRUE>>
    BY <1>3 DEF Delete
  <2> HIDE DEF n
  <2>3. /\ Len(m_entries') = Len(m_entries) - 1
        /\ \A j \in 1..(Len(m_entries) - 1) :
             m_entries'[j] = IF j < n THEN m_entries[j] ELSE m_entries[j + 1]
    BY <1>0, <2>1, <2>2, RemoveAtIs
  <2>4. keys' = RemoveAt(keys, n)
    <3>1. n \in 1..Len(keys) /\ keys \in Seq(Keys)
      BY <1>1, <2>1 DEF Answering
    <3>2. /\ RemoveAt(keys, n) \in Seq(Keys)
          /\ Len(RemoveAt(keys, n)) = Len(keys) - 1
          /\ \A j \in 1..(Len(keys) - 1) :
               RemoveAt(keys, n)[j] = IF j < n THEN keys[j] ELSE keys[j + 1]
      BY <3>1, RemoveAtIs
    <3>3. \A j \in 1..Len(keys') : keys'[j] = RemoveAt(keys, n)[j]
      <4>1. ASSUME NEW j \in 1..(Len(m_entries) - 1)
            PROVE  keys'[j] = IF j < n THEN keys[j] ELSE keys[j + 1]
        <5>1. keys'[j] = m_entries'[j].key
          BY <1>1, <2>3 DEF Answering
        <5>2. CASE j < n
          <6>1. j \in 1..Len(m_entries) /\ m_entries'[j] = m_entries[j]
            BY <1>0, <2>3, <5>2
          <6> QED BY <1>1, <5>1, <5>2, <6>1 DEF Answering
        <5>3. CASE ~(j < n)
          <6>1. j + 1 \in 1..Len(m_entries) /\ m_entries'[j] = m_entries[j + 1]
            BY <1>0, <2>3, <5>3
          <6> QED BY <1>1, <5>1, <5>3, <6>1 DEF Answering
        <5> QED BY <5>2, <5>3
      <4> QED BY <1>1, <2>3, <3>2, <4>1 DEF Answering
    <3> QED BY <1>1, <2>3, <3>2, <3>3, SeqEqual DEF Answering
  <2>5. content' = [j \in DOMAIN content \ {k} |-> content[j]]
    <3>1. ASSUME NEW j \in Keys
          PROVE  m_keyMap'[j] # Absent <=> j # k /\ m_keyMap[j] # Absent
      BY <1>0, <2>1, <2>2 DEF Absent
    <3>2. DOMAIN content' = DOMAIN content \ {k}
      BY <1>1, <3>1 DEF Answering
    <3>3. ASSUME NEW j \in DOMAIN content'
          PROVE  content'[j] = content[j]
      <4>1. j \in Keys /\ j # k /\ m_keyMap[j] # Absent
            /\ content'[j] = m_entries'[m_keyMap'[j]].value
            /\ content[j] = m_entries[m_keyMap[j]].value
        BY <1>1, <3>1, <3>2 DEF Answering
      <4>2. m_keyMap[j] \in 1..Len(m_entries) /\ m_entries[m_keyMap[j]].key = j
        BY <4>1, Position
      <4>3. m_keyMap[j] # n
        BY <2>1, <4>1, <4>2
      <4>4. CASE m_keyMap[j] > n
        <5>1. m_keyMap'[j] = m_keyMap[j] - 1
          BY <2>2, <4>1, <4>4
        <5>2. /\ m_keyMap'[j] \in 1..(Len(m_entries) - 1)
              /\ ~(m_keyMap'[j] < n) /\ m_keyMap'[j] + 1 = m_keyMap[j]
          BY <1>0, <2>1, <4>2, <4>4, <5>1
        <5> QED BY <2>3, <4>1, <5>2
      <4>5. CASE m_keyMap[j] < n
        <5>1. m_keyMap'[j] = m_keyMap[j]
          BY <1>0, <2>1, <2>2, <4>1, <4>2, <4>5
        <5>2. m_keyMap'[j] \in 1..(Len(m_entries) - 1) /\ m_keyMap'[j] < n
          BY <1>0, <2>1, <4>2, <4>5, <5>1
        <5> QED BY <2>3, <4>1, <5>1, <5>2
      <4> QED BY <1>0, <2>1, <4>2, <4>3, <4>4, <4>5
    <3>4. content' = [j \in DOMAIN content' |-> content'[j]]
      BY DEF content
    <3> QED BY <3>2, <3>3, <3>4
  <2>6. n \in 1..Len(keys) /\ keys[n] = k
    BY <1>1, <2>1 DEF Answering
  <2>7. keys' = OM!RemoveAt(keys, n)
    BY <2>4 DEF RemoveAt, OM!RemoveAt
  <2> QED BY <2>2, <2>5, <2>6, <2>7 DEF OM!Delete, content
<1> QED BY <1>2, <1>3

LEMMA ClearRefines == Clear => OM!Empty
<1> SUFFICES ASSUME Clear PROVE OM!Empty
  OBVIOUS
<1>1. keys' = <<>>
  BY DEF Clear, keys
<1>2. {j \in Keys : has(j)}' = {}
  BY DEF Clear, has
<1>3. content' = [k \in {} |-> k]
  BY <1>2 DEF content
<1> QED BY <1>1, <1>3 DEF Clear, OM!Empty, OM!Nothing, content

(* Every step of the map is a step of the ordered map, or leaves it alone. *)
THEOREM MapIsOrderedMap == Spec => IsOrderedMap
<1>1. Init => OM!Init
  BY InitRefines
<1>2. MapInv /\ MapInv' /\ [Next]_vars => [OM!Next]_OM!vars
  <2> SUFFICES ASSUME MapInv, MapInv', [Next]_vars PROVE [OM!Next]_OM!vars
    OBVIOUS
  <2>1. ASSUME NEW k \in Keys, NEW v \in Values, FromIterable(k, v) \/ Set(k, v)
        PROVE  OM!Next
    <3>1. OM!Put(k, v)
      BY <2>1, PutRefines DEF FromIterable, Set
    <3> QED BY <3>1, Zenon DEF OM!Next
  <2>2. ASSUME NEW k \in Keys, Delete(k)
        PROVE  OM!Next
    <3>1. OM!Delete(k)
      BY <2>2, DeleteRefines
    <3> QED BY <3>1, Zenon DEF OM!Next
  <2>3. CASE Clear
    <3>1. OM!Empty
      BY <2>3, ClearRefines
    <3> QED BY <3>1, Zenon DEF OM!Next
  <2>4. CASE Constructed \/ ForEach \/ Visit \/ Return \/ Throw \/ Finish \/ UNCHANGED vars
    <3>1. UNCHANGED <<m_entries, m_keyMap, last>>
      BY <2>4 DEF Constructed, ForEach, Visit, Return, Throw, Finish, vars
    <3>2. UNCHANGED <<keys, content, last>>
      BY <3>1 DEF keys, content, has, get
    <3> QED BY <3>2 DEF OM!vars, content
  <2> QED BY <2>1, <2>2, <2>3, <2>4 DEF Next
<1> QED BY SpecMapInv, <1>1, <1>2, PTL DEF Spec, IsOrderedMap, OM!Spec
=============================================================================
