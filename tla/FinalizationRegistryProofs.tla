-------------------- MODULE FinalizationRegistryProofs --------------------
(***************************************************************************)
(* Proofs about FinalizationRegistry, for any number of threads, tokens    *)
(* and registrations.                                                      *)
(***************************************************************************)
EXTENDS FinalizationRegistry, SequenceTheorems, WellFoundedInduction, TLAPS

(* What the entries keep of the order in which they were registered.       *)
Numbered == /\ registered \in Nat
            /\ \A i \in Indices : entries[i].id \in 1..registered

(* No registration stands at two indices.                                   *)
DistinctEntries ==
  \A i, j \in Indices : entries[i].id = entries[j].id => i = j

TypeInv ==
  /\ entries \in Seq(Entry)
  /\ inProgress \in BOOLEAN
  /\ phase \in [Threads -> Phases]
  /\ registered \in Nat

(* The inductive invariant.  The queue and the token map are left out: an   *)
(* index taken from either is compared with the entries before it is used. *)
IInv ==
  /\ TypeInv
  /\ Numbered
  /\ CleanupExclusive
  /\ DistinctEntries
  /\ DeadIsCollected

LEMMA InitInv == Init => IInv
<1>. SUFFICES ASSUME Init  PROVE IInv
  OBVIOUS
<1>. USE DEF Init
<1>1. TypeInv
  BY EmptySeq DEF TypeInv, Phases
<1>2. Indices = {}
  BY EmptySeq DEF Indices
<1>3. Numbered /\ DistinctEntries /\ DeadIsCollected
  BY <1>2 DEF Numbered, DistinctEntries, DeadIsCollected
<1>4. CleanupExclusive
  BY DEF CleanupExclusive, Cleaning
<1>. QED  BY <1>1, <1>3, <1>4 DEF IInv

---------------------------------------------------------------------------
(* The entries.                                                            *)

EntriesInv == /\ entries \in Seq(Entry)
              /\ Numbered
              /\ DistinctEntries
              /\ DeadIsCollected

(* safeRemoveEntry(i): the last entry is at i now, the others are where     *)
(* they were, and the one that was at i is gone.                            *)
LEMMA SafeRemoveEntryMoves ==
  ASSUME entries \in Seq(Entry), NEW i \in Indices, SafeRemoveEntry(i)
  PROVE  /\ entries' \in Seq(Entry)
         /\ Len(entries) \in Nat /\ Len(entries') = Len(entries) - 1
         /\ i \in 1..Len(entries)
         /\ \A j \in Indices' : /\ j < Len(entries)
                               /\ (IF j = i THEN Len(entries) ELSE j) \in Indices
                               /\ entries'[j] =
                                    entries[IF j = i THEN Len(entries) ELSE j]
<1>. DEFINE n     == Len(entries)
            moved == [entries EXCEPT ![i] = entries[n]]
<1>1. n \in Nat /\ n >= 1 /\ i \in 1..n
  BY LenProperties DEF Indices
<1>2. /\ moved \in Seq(Entry) /\ Len(moved) = n
      /\ \A j \in 1..n : moved[j] = IF j = i THEN entries[n] ELSE entries[j]
  BY <1>1, ElementOfSeq, ExceptSeq
<1>3. /\ entries' \in Seq(Entry) /\ Len(entries') = n - 1
      /\ \A j \in 1..(n - 1) : entries'[j] = IF j = i THEN entries[n] ELSE entries[j]
  <2>1. entries' = SubSeq(moved, 1, n - 1)
    BY DEF SafeRemoveEntry
  <2>2. \A j \in 1..(n - 1) : moved[j] \in Entry
    BY <1>1, <1>2, ElementOfSeq
  <2>. HIDE DEF moved, n
  <2>. QED  BY <1>1, <1>2, <2>1, <2>2, SubSeqProperties
<1>. HIDE DEF moved
<1>4. \A j \in Indices' : j \in 1..(n - 1)
  BY <1>3 DEF Indices
<1>. QED  BY <1>1, <1>3, <1>4 DEF Indices

(* Taking the last entry into the place of entry i keeps them distinct.     *)
LEMMA SafeRemoveEntryInv ==
  ASSUME EntriesInv, NEW i \in Indices, SafeRemoveEntry(i),
         UNCHANGED <<registered, collected>>
  PROVE  EntriesInv'
<1>. DEFINE n == Len(entries)
            from(j) == IF j = i THEN n ELSE j
<1>1. /\ entries' \in Seq(Entry) /\ n \in Nat
      /\ \A j \in Indices' : /\ j < n /\ from(j) \in Indices
                            /\ entries'[j] = entries[from(j)]
  BY SafeRemoveEntryMoves DEF EntriesInv
<1>2. \A j \in Indices' : j \in Nat
  BY DEF Indices
<1>3. \A j, k \in Indices' : from(j) = from(k) => j = k
  BY <1>1, <1>2
<1>. HIDE DEF n, from
<1>4. Numbered'
  BY <1>1 DEF EntriesInv, Numbered
<1>5. DistinctEntries'
  BY <1>1, <1>3 DEF EntriesInv, DistinctEntries
<1>6. DeadIsCollected'
  BY <1>1 DEF EntriesInv, DeadIsCollected
<1>. QED  BY <1>1, <1>4, <1>5, <1>6 DEF EntriesInv

LEMMA RegisterInv ==
  ASSUME EntriesInv, NEW t \in Threads, NEW token \in Tokens \cup {NoToken},
         Register(t, token)
  PROVE  EntriesInv'
<1>. DEFINE n == Len(entries)
            e == [id |-> registered + 1, token |-> token, alive |-> TRUE]
<1>1. registered \in Nat /\ registered' = registered + 1 /\ entries' = Append(entries, e)
  BY DEF Register, EntriesInv, Numbered
<1>2. e \in Entry
  BY <1>1, RegistryAssumption DEF Entry, Ids, Register
<1>. HIDE DEF e
<1>3. /\ entries' \in Seq(Entry) /\ n \in Nat /\ Len(entries') = n + 1
      /\ \A i \in 1..n : entries'[i] = entries[i]
      /\ entries'[n + 1] = e
  BY <1>1, <1>2, AppendProperties, LenProperties DEF EntriesInv
<1>4. Indices' = Indices \cup {n + 1} /\ Indices = 1..n
  BY <1>3 DEF Indices
<1>5. e.id = registered + 1 /\ e.alive
  BY DEF e
<1>6. Numbered'
  BY <1>1, <1>3, <1>4, <1>5 DEF EntriesInv, Numbered
<1>7. DistinctEntries'
  BY <1>1, <1>3, <1>4, <1>5 DEF EntriesInv, Numbered, DistinctEntries
<1>8. DeadIsCollected'
  BY <1>3, <1>4, <1>5 DEF EntriesInv, DeadIsCollected, Register
<1>. QED  BY <1>3, <1>6, <1>7, <1>8 DEF EntriesInv

LEMMA PostGCInv ==
  ASSUME EntriesInv, PostGC  PROVE EntriesInv'
<1>. DEFINE n == Len(entries)
            flagged == [i \in Indices |->
                          [entries[i] EXCEPT !.alive = entries[i].id \notin collected]]
<1>1. n \in Nat /\ Indices = 1..n /\ \A i \in 1..n : entries[i] \in Entry
  BY LenProperties, ElementOfSeq DEF EntriesInv, Indices
<1>2. entries' = flagged
  BY DEF PostGC
<1>3. \A i \in 1..n : /\ flagged[i] \in Entry
                      /\ flagged[i].id = entries[i].id
                      /\ flagged[i].alive <=> entries[i].id \notin collected
  BY <1>1 DEF Entry
<1>4. flagged \in [1..n -> Entry]
  BY <1>1, <1>3
<1>5. entries' \in Seq(Entry)
  BY <1>1, <1>2, <1>4, SeqDef
<1>6. Len(entries') = n
  BY <1>1, <1>2, <1>5, LenProperties
<1>7. Indices' = Indices
  BY <1>1, <1>6 DEF Indices
<1>. HIDE DEF flagged
<1>8. UNCHANGED <<registered, collected>>
  BY DEF PostGC
<1>9. \A i \in Indices : /\ entries'[i].id = entries[i].id
                         /\ entries'[i].alive <=> entries[i].id \notin collected
  BY <1>1, <1>2, <1>3
<1>10. Numbered'
  BY <1>7, <1>8, <1>9 DEF EntriesInv, Numbered
<1>11. DistinctEntries'
  BY <1>7, <1>9 DEF EntriesInv, DistinctEntries
<1>12. DeadIsCollected'
  BY <1>7, <1>8, <1>9 DEF DeadIsCollected
<1>. QED  BY <1>5, <1>10, <1>11, <1>12 DEF EntriesInv

LEMMA EntriesStep ==
  ASSUME EntriesInv, [Next]_vars  PROVE EntriesInv'
<1>1. ASSUME UNCHANGED <<entries, registered>>, collected \subseteq collected'
      PROVE  EntriesInv'
  BY <1>1 DEF EntriesInv, Numbered, DistinctEntries, DeadIsCollected, Indices
<1>2. ASSUME NEW t \in Threads, FinishUnregister(t)  PROVE EntriesInv'
  <2>1. UNCHANGED <<registered, collected>>
    BY <1>2 DEF FinishUnregister
  <2>2. CASE UNCHANGED entries
    BY <1>1, <2>1, <2>2
  <2>3. CASE tokenMap[leaving[t]] \in Indices /\ SafeRemoveEntry(tokenMap[leaving[t]])
    BY <2>1, <2>3, SafeRemoveEntryInv
  <2>. QED  BY <1>2, <2>2, <2>3 DEF FinishUnregister
<1>3. ASSUME NEW t \in Threads, Remove(t)  PROVE EntriesInv'
  <2>1. UNCHANGED <<registered, collected>>
    BY <1>3 DEF Remove
  <2>2. CASE UNCHANGED entries
    BY <1>1, <2>1, <2>2
  <2>3. CASE index[t] \in Indices /\ SafeRemoveEntry(index[t])
    BY <2>1, <2>3, SafeRemoveEntryInv
  <2>. QED  BY <1>3, <2>2, <2>3 DEF Remove
<1>4. ASSUME NEW id \in Ids, Collect(id)  PROVE EntriesInv'
  BY <1>1, <1>4 DEF Collect
<1>5. ASSUME NEW t \in Threads, NEW token \in Tokens, BeginUnregister(t, token)
      PROVE  EntriesInv'
  BY <1>1, <1>5 DEF BeginUnregister
<1>6. ASSUME NEW t \in Threads,
             \/ Begin(t) \/ Look(t) \/ Scan(t) \/ Check(t) \/ Take(t) \/ Read(t)
             \/ EndCallback(t) \/ AbortCallback(t)
      PROVE  EntriesInv'
  BY <1>1, <1>6 DEF Begin, Look, Scan, Check, Take, Read, EndCallback, AbortCallback
<1>7. CASE UNCHANGED vars
  BY <1>1, <1>7 DEF vars
<1>. QED
  BY <1>2, <1>3, <1>4, <1>5, <1>6, <1>7, RegisterInv, PostGCInv
     DEF Next, Cleanup, EndCallbackSomehow

---------------------------------------------------------------------------
(* The flag.                                                               *)

FlagInv == /\ inProgress \in BOOLEAN
           /\ phase \in [Threads -> Phases]
           /\ CleanupExclusive

LEMMA FlagStep ==
  ASSUME FlagInv, [Next]_vars  PROVE FlagInv'
<1>. USE DEF FlagInv, CleanupExclusive, Cleaning, Goto, Phases
<1>1. ASSUME UNCHANGED <<inProgress, phase>>  PROVE FlagInv'
  BY <1>1
<1>2. ASSUME NEW t \in Threads, Begin(t)  PROVE FlagInv'
  BY <1>2 DEF Begin
<1>3. ASSUME NEW t \in Threads, Look(t)  PROVE FlagInv'
  BY <1>3 DEF Look
<1>4. ASSUME NEW t \in Threads, Scan(t)  PROVE FlagInv'
  BY <1>4 DEF Scan
<1>5. ASSUME NEW t \in Threads, Check(t)  PROVE FlagInv'
  <2>1. CASE cleanupQueue = <<>>
    BY <1>5, <2>1 DEF Check
  <2>2. CASE cleanupQueue # <<>>
    BY <1>5, <2>2 DEF Check
  <2>. QED  BY <2>1, <2>2
<1>6. ASSUME NEW t \in Threads, Take(t)  PROVE FlagInv'
  <2>1. phase[t] = "take"
    BY <1>6 DEF Take
  <2>2. CASE inProgress' = FALSE /\ Goto(t, "idle")
    BY <2>1, <2>2
  <2>3. CASE Goto(t, "read") /\ UNCHANGED inProgress
    BY <2>1, <2>3
  <2>. QED  BY <1>6, <2>2, <2>3 DEF Take
<1>7. ASSUME NEW t \in Threads, Read(t)  PROVE FlagInv'
  BY <1>7 DEF Read
<1>8. ASSUME NEW t \in Threads, EndCallback(t) \/ AbortCallback(t)  PROVE FlagInv'
  BY <1>8 DEF EndCallback, AbortCallback
<1>9. ASSUME NEW t \in Threads, Remove(t)  PROVE FlagInv'
  BY <1>9 DEF Remove
<1>10. CASE \/ \E t \in Threads :
                 \/ \E token \in Tokens \cup {NoToken} : Register(t, token)
                 \/ \E token \in Tokens : BeginUnregister(t, token)
                 \/ FinishUnregister(t)
            \/ \E id \in Ids : Collect(id)
            \/ PostGC
            \/ UNCHANGED vars
  <2>1. UNCHANGED <<inProgress, phase>>
    BY <1>10 DEF Register, BeginUnregister, FinishUnregister, Collect, PostGC, vars
  <2>. QED  BY <1>1, <2>1
<1>. QED
  BY <1>2, <1>3, <1>4, <1>5, <1>6, <1>7, <1>8, <1>9, <1>10
     DEF Next, Cleanup, EndCallbackSomehow

---------------------------------------------------------------------------
THEOREM Invariance == Spec => []IInv
<1>1. IInv => EntriesInv /\ FlagInv
  BY DEF IInv, TypeInv, EntriesInv, FlagInv
<1>2. EntriesInv /\ FlagInv => IInv
  BY DEF IInv, TypeInv, EntriesInv, FlagInv, Numbered
<1>3. IInv /\ [Next]_vars => IInv'
  BY <1>1, EntriesStep, FlagStep DEF IInv, TypeInv, EntriesInv, FlagInv, Numbered
<1>. QED  BY InitInv, <1>3, PTL DEF Spec

(* However many threads call cleanupSome, from scripts or from callbacks,   *)
(* one at a time runs it, and no way out leaves the flag up.               *)
THEOREM Exclusive == Spec => []CleanupExclusive
<1>1. IInv => CleanupExclusive
  BY DEF IInv
<1>. QED  BY Invariance, <1>1, PTL

(* The flag follows the entry as it is moved about: an entry flagged dead   *)
(* has a collected target.                                                 *)
THEOREM DeadCollected == Spec => []DeadIsCollected
<1>1. IInv => DeadIsCollected
  BY DEF IInv
<1>. QED  BY Invariance, <1>1, PTL

---------------------------------------------------------------------------
(* Who leaves.                                                             *)

(* Of the registrations, safeRemoveEntry(i) takes out the one at i only.    *)
LEMMA SafeRemoveEntryLeaves ==
  ASSUME EntriesInv, NEW i \in Indices, SafeRemoveEntry(i), NEW id
  PROVE  /\ InRegistry(id)' => InRegistry(id)
         /\ InRegistry(id) /\ ~InRegistry(id)' => entries[i].id = id
<1>. DEFINE n == Len(entries)
<1>1. /\ entries \in Seq(Entry) /\ n \in Nat /\ Len(entries') = n - 1 /\ i \in 1..n
      /\ \A j \in Indices' : /\ (IF j = i THEN n ELSE j) \in Indices
                            /\ entries'[j] = entries[IF j = i THEN n ELSE j]
  BY SafeRemoveEntryMoves DEF EntriesInv
<1>2. Indices = 1..n /\ Indices' = 1..(n - 1)
  BY <1>1 DEF Indices
<1>. HIDE DEF n
<1>3. InRegistry(id)' => InRegistry(id)
  BY <1>1 DEF InRegistry
<1>4. ASSUME NEW k \in Indices, entries[k].id = id, entries[i].id # id
      PROVE  InRegistry(id)'
  <2>1. k # i
    BY <1>4
  <2>2. CASE k = n
    <3>1. i \in Indices' /\ entries'[i] = entries[k]
      BY <1>1, <1>2, <2>1, <2>2
    <3>. QED  BY <1>4, <3>1 DEF InRegistry
  <2>3. CASE k # n
    <3>1. k \in Indices' /\ entries'[k] = entries[k]
      BY <1>1, <1>2, <2>1, <2>3
    <3>. QED  BY <1>4, <3>1 DEF InRegistry
  <2>. QED  BY <2>2, <2>3
<1>. QED  BY <1>3, <1>4 DEF InRegistry

(* What a step may do to the registrations held.                           *)
LeavesOK(id) ==
  /\ InRegistry(id)' => HeldOnce(id)' /\ (InRegistry(id) \/ id > registered)
  /\ InRegistry(id) /\ ~ InRegistry(id)' =>
       \E t \in Threads : UnregisteredBy(t, id) \/ CleanedUpBy(t, id)

LEMMA LeavesStep ==
  ASSUME EntriesInv, phase \in [Threads -> Phases],
         leaving \in [Threads -> Tokens \cup {NoToken}],
         [Next]_vars, NEW id \in Ids
  PROVE  LeavesOK(id)
<1>1. EntriesInv' /\ DistinctEntries'
  BY EntriesStep DEF EntriesInv
<1>2. InRegistry(id)' => HeldOnce(id)'
  <2>1. ASSUME InRegistry(id)' PROVE HeldOnce(id)'
    BY <1>1, <2>1 DEF DistinctEntries, InRegistry, HeldOnce
  <2>. QED  BY <2>1
<1>3. ASSUME InRegistry(id)' <=> InRegistry(id)  PROVE LeavesOK(id)
  BY <1>2, <1>3 DEF LeavesOK
<1>4. ASSUME UNCHANGED entries  PROVE LeavesOK(id)
  BY <1>3, <1>4 DEF InRegistry, Indices
<1>5. ASSUME NEW t \in Threads, NEW token \in Tokens \cup {NoToken}, Register(t, token)
      PROVE  LeavesOK(id)
  <2>. DEFINE n == Len(entries)
              e == [id |-> registered + 1, token |-> token, alive |-> TRUE]
  <2>1. registered \in Nat /\ entries' = Append(entries, e) /\ entries \in Seq(Entry)
    BY <1>5 DEF Register, EntriesInv, Numbered
  <2>2. e \in Entry /\ e.id = registered + 1
    BY <1>5, <2>1, RegistryAssumption DEF Entry, Ids, Register
  <2>. HIDE DEF e
  <2>3. /\ n \in Nat /\ Len(entries') = n + 1 /\ entries'[n + 1] = e
        /\ \A i \in 1..n : entries'[i] = entries[i]
    BY <2>1, <2>2, AppendProperties, LenProperties
  <2>4. Indices = 1..n /\ Indices' = Indices \cup {n + 1}
    BY <2>3 DEF Indices
  <2>5. InRegistry(id) => InRegistry(id)'
    BY <2>3, <2>4 DEF InRegistry
  <2>6. InRegistry(id)' => InRegistry(id) \/ id = registered + 1
    BY <2>2, <2>3, <2>4 DEF InRegistry
  <2>7. id = registered + 1 => id > registered
    BY <2>1
  <2>. QED  BY <1>2, <2>5, <2>6, <2>7 DEF LeavesOK
<1>6. ASSUME NEW t \in Threads, FinishUnregister(t)  PROVE LeavesOK(id)
  <2>1. CASE UNCHANGED entries
    BY <1>4, <2>1
  <2>2. CASE tokenMap[leaving[t]] \in Indices /\ SafeRemoveEntry(tokenMap[leaving[t]])
    <3>1. leaving[t] # NoToken /\ leaving'[t] = NoToken
      BY <1>6 DEF FinishUnregister
    <3>2. /\ InRegistry(id)' => InRegistry(id)
          /\ InRegistry(id) /\ ~InRegistry(id)' => entries[tokenMap[leaving[t]]].id = id
      BY <2>2, SafeRemoveEntryLeaves
    <3>3. InRegistry(id) /\ ~InRegistry(id)' => UnregisteredBy(t, id)
      BY <2>2, <3>1, <3>2 DEF UnregisteredBy
    <3>. QED  BY <1>2, <3>2, <3>3 DEF LeavesOK
  <2>. QED  BY <1>6, <2>1, <2>2 DEF FinishUnregister
<1>7. ASSUME NEW t \in Threads, Remove(t)  PROVE LeavesOK(id)
  <2>1. CASE UNCHANGED entries
    BY <1>4, <2>1
  <2>2. CASE /\ index[t] \in Indices /\ ~entries[index[t]].alive
             /\ SafeRemoveEntry(index[t])
    <3>1. phase[t] = "remove" /\ phase'[t] = "idle"
      BY <1>7 DEF Remove, Goto
    <3>2. /\ InRegistry(id)' => InRegistry(id)
          /\ InRegistry(id) /\ ~InRegistry(id)' => entries[index[t]].id = id
      BY <2>2, SafeRemoveEntryLeaves
    <3>3. entries[index[t]].id \in collected
      BY <2>2 DEF EntriesInv, DeadIsCollected
    <3>4. InRegistry(id) /\ ~InRegistry(id)' => CleanedUpBy(t, id)
      BY <2>2, <3>1, <3>2, <3>3 DEF CleanedUpBy
    <3>. QED  BY <1>2, <3>2, <3>4 DEF LeavesOK
  <2>. QED  BY <1>7, <2>1, <2>2 DEF Remove
<1>8. ASSUME PostGC  PROVE LeavesOK(id)
  <2>1. Len(entries) \in Nat
    BY LenProperties DEF EntriesInv
  <2>2. Indices' = Indices /\ \A i \in Indices : entries'[i].id = entries[i].id
    <3>1. \A i \in Indices : entries[i] \in Entry
      BY ElementOfSeq DEF EntriesInv, Indices
    <3>2. \A i \in Indices :
            entries'[i] = [entries[i] EXCEPT !.alive = entries[i].id \notin collected]
      BY <1>8 DEF PostGC
    <3>3. Indices' = Indices
      BY <1>8, <2>1 DEF PostGC, Indices
    <3>. QED  BY <3>1, <3>2, <3>3 DEF Entry
  <2>. QED  BY <1>3, <2>2 DEF InRegistry
<1>9. ASSUME NEW t \in Threads,
             \/ \E token \in Tokens : BeginUnregister(t, token)
             \/ Begin(t) \/ Look(t) \/ Scan(t) \/ Check(t) \/ Take(t) \/ Read(t)
             \/ EndCallback(t) \/ AbortCallback(t)
      PROVE  LeavesOK(id)
  BY <1>4, <1>9 DEF BeginUnregister, Begin, Look, Scan, Check, Take, Read,
                    EndCallback, AbortCallback
<1>10. CASE (\E target \in Ids : Collect(target)) \/ UNCHANGED vars
  BY <1>4, <1>10 DEF Collect, vars
<1>. QED
  BY <1>5, <1>6, <1>7, <1>8, <1>9, <1>10 DEF Next, Cleanup, EndCallbackSomehow

---------------------------------------------------------------------------
(* Types.  The queue and the token map hold indices that may be stale, but  *)
(* none that m_entries never had: it never grows past the registrations     *)
(* made.                                                                    *)

(* A set of natural numbers has a least element.                            *)
LEMMA LeastNatural ==
  ASSUME NEW T, T \subseteq Nat, T # {}
  PROVE  \E m \in T : \A k \in T : m <= k
<1>1. PICK m \in T : \A k \in T : <<k, m>> \notin OpToRel(<, Nat)
  BY NatLessThanWellFounded, WFMin
<1>2. \A k \in T : ~ (k < m)
  BY <1>1, Zenon DEF OpToRel
<1>. QED  BY <1>2

(* The loop of InOrder: what it has pushed after looking at entry n.        *)
Pushed(S, f, n) == IF n = 0 THEN <<>>
                   ELSE f[n - 1] \o (IF n \in S THEN <<n>> ELSE <<>>)

LEMMA LoopRuns ==
  ASSUME NEW S, NEW N \in Nat
  PROVE  \E f : f = [n \in 0..N |-> Pushed(S, f, n)]
<1>. DEFINE Runs(m) == \E f : f = [n \in 0..m |-> Pushed(S, f, n)]
            Bad     == {m \in Nat : ~ Runs(m)}
<1>. SUFFICES ASSUME Bad # {}  PROVE FALSE
  OBVIOUS
<1>1. PICK m \in Bad : \A k \in Bad : m <= k
  BY LeastNatural
<1>2. m \in Nat /\ ~ Runs(m)
  BY <1>1
<1>3. CASE m = 0
  <2>. DEFINE f == [n \in 0..m |-> <<>>]
  <2>1. \A n \in 0..m : Pushed(S, f, n) = <<>>
    BY <1>3 DEF Pushed
  <2>2. f = [n \in 0..m |-> Pushed(S, f, n)]
    BY <2>1
  <2>. HIDE DEF f
  <2>. QED  BY <1>2, <2>2
<1>4. CASE m # 0
  <2>1. m - 1 \in Nat /\ m - 1 \notin Bad
    BY <1>1, <1>2, <1>4
  <2>2. PICK g : g = [n \in 0..(m - 1) |-> Pushed(S, g, n)]
    BY <2>1
  <2>. DEFINE f == [n \in 0..m |-> Pushed(S, g, n)]
  <2>3. \A n \in 0..(m - 1) : f[n] = g[n]
    BY <1>2, <2>1, <2>2
  <2>4. \A n \in 0..m : Pushed(S, f, n) = Pushed(S, g, n)
    <3>. SUFFICES ASSUME NEW n \in 0..m  PROVE Pushed(S, f, n) = Pushed(S, g, n)
      OBVIOUS
    <3>. HIDE DEF f
    <3>1. CASE n = 0
      BY <3>1 DEF Pushed
    <3>2. CASE n # 0
      <4>1. f[n - 1] = g[n - 1]
        BY <1>2, <2>3, <3>2
      <4>. QED  BY <3>2, <4>1 DEF Pushed
    <3>. QED  BY <3>1, <3>2
  <2>5. f = [n \in 0..m |-> Pushed(S, f, n)]
    BY <2>4
  <2>. HIDE DEF f
  <2>. QED  BY <1>2, <2>5
<1>. QED  BY <1>3, <1>4

(* Only indices of entries are queued.                                      *)
LEMMA InOrderTyped ==
  ASSUME entries \in Seq(Entry), NEW S, NEW M \in Nat, Len(entries) <= M
  PROVE  InOrder(S) \in Seq(1..M)
<1>. DEFINE N   == Len(entries)
            f   == CHOOSE g : g = [n \in 0..N |-> Pushed(S, g, n)]
            Bad == {n \in 0..N : f[n] \notin Seq(1..M)}
<1>1. N \in Nat
  BY LenProperties
<1>2. f = [n \in 0..N |-> Pushed(S, f, n)]
  BY <1>1, LoopRuns
<1>3. InOrder(S) = f[N]
  BY DEF InOrder, Pushed
<1>. HIDE DEF f, N
<1>4. Bad = {}
  <2>. SUFFICES ASSUME Bad # {}  PROVE FALSE
    OBVIOUS
  <2>0. Bad \subseteq Nat
    BY <1>1
  <2>. HIDE DEF Bad
  <2>1. PICK m \in Bad : \A k \in Bad : m <= k
    BY LeastNatural, <2>0
  <2>. USE DEF Bad
  <2>2. m \in 0..N /\ f[m] = Pushed(S, f, m) /\ f[m] \notin Seq(1..M)
    BY <1>2, <2>1
  <2>3. CASE m = 0
    BY <2>2, <2>3, EmptySeq DEF Pushed
  <2>4. CASE m # 0
    <3>1. f[m - 1] \in Seq(1..M)
      BY <1>1, <2>1, <2>2, <2>4
    <3>2. m \in 1..M
      BY <1>1, <2>2, <2>4 DEF N
    <3>3. (IF m \in S THEN <<m>> ELSE <<>>) \in Seq(1..M)
      <4>. HIDE DEF Bad
      <4>1. <<>> \in Seq(1..M) /\ <<m>> \in Seq(1..M)
        BY <3>2
      <4>. QED  BY <4>1
    <3>4. f[m - 1] \o (IF m \in S THEN <<m>> ELSE <<>>) \in Seq(1..M)
      BY <3>1, <3>3, ConcatProperties
    <3>. QED  BY <2>2, <2>4, <3>4 DEF Pushed
  <2>. QED  BY <2>3, <2>4
<1>. QED  BY <1>1, <1>3, <1>4

(* A token or a queued index names an entry there has been room for.        *)
Bounded ==
  /\ tokenMap \in [Tokens -> 0..MaxRegistrations]
  /\ cleanupQueue \in Seq(1..MaxRegistrations)
  /\ index \in [Threads -> 0..MaxRegistrations]
  /\ held \in [Threads -> 0..MaxRegistrations]
  /\ leaving \in [Threads -> Tokens \cup {NoToken}]
  /\ collected \subseteq Ids /\ called \subseteq Ids /\ released \subseteq Ids

(* There are no more entries than registrations.                            *)
Room == Len(entries) <= registered /\ registered <= MaxRegistrations

TInv == IInv /\ Room /\ Bounded

LEMMA SafeRemoveShrinks ==
  ASSUME TInv, NEW i \in Indices, SafeRemoveEntry(i)
  PROVE  /\ Len(entries') <= Len(entries)
         /\ tokenMap' \in [Tokens -> 0..MaxRegistrations]
<1>. DEFINE n     == Len(entries)
            moved == [entries EXCEPT ![i] = entries[n]]
<1>1. n \in Nat /\ i \in 1..n /\ entries[n] \in Entry
  BY LenProperties, ElementOfSeq DEF TInv, IInv, TypeInv, Indices
<1>2. moved \in Seq(Entry) /\ Len(moved) = n
  BY <1>1, ExceptSeq DEF TInv, IInv, TypeInv
<1>3. Len(SubSeq(moved, 1, n - 1)) = n - 1
  <2>1. \A j \in 1..(n - 1) : moved[j] \in Entry
    BY <1>1, <1>2, ElementOfSeq
  <2>. HIDE DEF moved, n
  <2>. QED  BY <1>1, <1>2, <2>1, SubSeqProperties
<1>4. tokenMap' \in [Tokens -> 0..MaxRegistrations]
  BY <1>1, RegistryAssumption DEF SafeRemoveEntry, TInv, Bounded, Entry
<1>. QED  BY <1>1, <1>3, <1>4 DEF SafeRemoveEntry

LEMMA InitTInv == Init => TInv
<1>. SUFFICES ASSUME Init  PROVE TInv
  OBVIOUS
<1>1. Room
  BY EmptySeq, RegistryAssumption DEF Init, Room
<1>2. Bounded
  BY EmptySeq, RegistryAssumption DEF Init, Bounded
<1>. QED  BY <1>1, <1>2, InitInv DEF TInv

(* An index taken from the queue, and what is left there.                   *)
LEMMA QueueTyped ==
  ASSUME TInv, cleanupQueue # <<>>
  PROVE  /\ Head(cleanupQueue) \in 0..MaxRegistrations
         /\ Tail(cleanupQueue) \in Seq(1..MaxRegistrations)
<1>1. Head(cleanupQueue) \in 1..MaxRegistrations
  BY HeadTailProperties DEF TInv, Bounded
<1>. QED  BY <1>1, HeadTailProperties, RegistryAssumption DEF TInv, Bounded

LEMMA QueueGrows ==
  ASSUME TInv, NEW S
  PROVE  cleanupQueue \o InOrder(S) \in Seq(1..MaxRegistrations)
<1>1. Len(entries) <= MaxRegistrations
  BY LenProperties, RegistryAssumption DEF TInv, IInv, TypeInv, Room
<1>2. InOrder(S) \in Seq(1..MaxRegistrations)
  BY <1>1, InOrderTyped, RegistryAssumption DEF TInv, IInv, TypeInv
<1>. QED  BY <1>2, ConcatProperties DEF TInv, Bounded

LEMMA EntryTyped ==
  ASSUME TInv, NEW i \in Indices
  PROVE  entries[i].id \in Ids
<1>1. entries[i] \in Entry
  BY ElementOfSeq DEF TInv, IInv, TypeInv, Indices
<1>. QED  BY <1>1 DEF Entry

LEMMA RegisterBounds ==
  ASSUME TInv, NEW t \in Threads, NEW token \in Tokens \cup {NoToken},
         Register(t, token)
  PROVE  Room' /\ Bounded'
<1>. DEFINE e == [id |-> registered + 1, token |-> token, alive |-> TRUE]
<1>1. Len(entries) \in Nat /\ registered \in Nat /\ Len(entries) <= registered
  BY LenProperties DEF TInv, IInv, TypeInv, Room
<1>2. e \in Entry
  BY <1>1, RegistryAssumption DEF Entry, Ids, Register
<1>3. Len(entries') = Len(entries) + 1
  <2>. HIDE DEF e
  <2>. QED  BY <1>2, AppendProperties DEF TInv, IInv, TypeInv, Register, e
<1>4. Room'
  BY <1>1, <1>3, RegistryAssumption DEF Register, Room
<1>5. Len(entries) + 1 \in 0..MaxRegistrations
  BY <1>1, RegistryAssumption DEF Register
<1>. QED  BY <1>4, <1>5 DEF TInv, Bounded, Register

LEMMA FinishUnregisterBounds ==
  ASSUME TInv, NEW t \in Threads, FinishUnregister(t)
  PROVE  Room' /\ Bounded'
<1>. USE DEF FinishUnregister
<1>. DEFINE token == leaving[t]
            i     == tokenMap[token]
<1>1. /\ token \in Tokens
      /\ UNCHANGED <<cleanupQueue, index, held, registered, collected, called>>
      /\ leaving' \in [Threads -> Tokens \cup {NoToken}]
  BY DEF TInv, Bounded
<1>2. /\ Len(entries') <= Len(entries) /\ tokenMap' \in [Tokens -> 0..MaxRegistrations]
      /\ released' \subseteq Ids
  <2>1. CASE i \in Indices /\ SafeRemoveEntry(i)
    <3>1. released' \subseteq Ids
      BY <1>1, <2>1, EntryTyped DEF TInv, Bounded
    <3>. QED  BY <2>1, <3>1, SafeRemoveShrinks
  <2>2. CASE /\ UNCHANGED <<entries, released>>
             /\ UNCHANGED tokenMap \/ tokenMap' = [tokenMap EXCEPT ![token] = 0]
    <3>1. Len(entries) \in Nat
      BY LenProperties DEF TInv, IInv, TypeInv
    <3>2. tokenMap' \in [Tokens -> 0..MaxRegistrations]
      <4>1. tokenMap \in [Tokens -> 0..MaxRegistrations] /\ 0 \in 0..MaxRegistrations
        BY RegistryAssumption DEF TInv, Bounded
      <4>. HIDE DEF token, i, FinishUnregister
      <4>. QED  BY <1>1, <2>2, <4>1
    <3>. QED  BY <2>2, <3>1, <3>2 DEF TInv, Bounded
  <2>. QED  BY <2>1, <2>2
<1>3. Len(entries) \in Nat /\ Len(entries') \in Nat
  <2>1. CASE i \in Indices /\ SafeRemoveEntry(i)
    BY <2>1, SafeRemoveEntryInv, LenProperties DEF TInv, IInv, TypeInv, EntriesInv
  <2>2. CASE UNCHANGED entries
    BY <2>2, LenProperties DEF TInv, IInv, TypeInv
  <2>. QED  BY <2>1, <2>2
<1>4. Room'
  BY <1>1, <1>2, <1>3, RegistryAssumption DEF TInv, Room, IInv, TypeInv
<1>. QED  BY <1>1, <1>2, <1>4 DEF TInv, Bounded

LEMMA RemoveBounds ==
  ASSUME TInv, NEW t \in Threads, Remove(t)
  PROVE  Room' /\ Bounded'
<1>. USE DEF Remove
<1>1. Len(entries') <= Len(entries) /\ tokenMap' \in [Tokens -> 0..MaxRegistrations]
  <2>1. CASE index[t] \in Indices /\ SafeRemoveEntry(index[t])
    BY <2>1, SafeRemoveShrinks
  <2>2. CASE UNCHANGED <<entries, tokenMap>>
    BY <2>2, LenProperties DEF TInv, IInv, TypeInv, Bounded
  <2>. QED  BY <2>1, <2>2
<1>2. Len(entries) \in Nat /\ Len(entries') \in Nat
  <2>1. CASE index[t] \in Indices /\ SafeRemoveEntry(index[t])
    BY <2>1, SafeRemoveEntryInv, LenProperties
       DEF TInv, IInv, TypeInv, EntriesInv
  <2>2. CASE UNCHANGED entries
    BY <2>2, LenProperties DEF TInv, IInv, TypeInv
  <2>. QED  BY <2>1, <2>2
<1>3. Room'
  BY <1>1, <1>2, RegistryAssumption DEF TInv, Room, IInv, TypeInv
<1>. QED  BY <1>1, <1>3, RegistryAssumption DEF TInv, Bounded

LEMMA TInvStep ==
  ASSUME TInv, IInv', [Next]_vars  PROVE TInv'
<1>. USE RegistryAssumption
<1>1. ASSUME UNCHANGED <<entries, registered>>  PROVE Room'
  BY <1>1 DEF TInv, Room
<1>2. ASSUME NEW t \in Threads, NEW token \in Tokens, BeginUnregister(t, token)
      PROVE  Room' /\ Bounded'
  BY <1>1, <1>2 DEF BeginUnregister, TInv, Bounded
<1>3. ASSUME NEW t \in Threads, Scan(t)  PROVE Room' /\ Bounded'
  BY <1>1, <1>3, QueueGrows DEF Scan, DeadIndices, TInv, Bounded
<1>4. ASSUME NEW t \in Threads, Take(t)  PROVE Room' /\ Bounded'
  BY <1>1, <1>4, QueueTyped DEF Take, TInv, Bounded
<1>5. ASSUME NEW t \in Threads, Read(t)  PROVE Room' /\ Bounded'
  <2>. DEFINE v == IF index[t] \in Indices THEN entries[index[t]].id ELSE 0
  <2>1. v \in Ids \cup {0}
    BY EntryTyped
  <2>2. held' = [held EXCEPT ![t] = v] /\ called' = called \cup ({v} \ {0})
    BY <1>5 DEF Read
  <2>. HIDE DEF v
  <2>3. held' \in [Threads -> 0..MaxRegistrations] /\ called' \subseteq Ids
    BY <2>1, <2>2 DEF TInv, Bounded, Ids
  <2>. QED  BY <1>1, <1>5, <2>3 DEF Read, TInv, Bounded
<1>6. ASSUME NEW t \in Threads,
             Begin(t) \/ Look(t) \/ Check(t) \/ EndCallback(t) \/ AbortCallback(t)
      PROVE  Room' /\ Bounded'
  <2>1. UNCHANGED <<entries, tokenMap, cleanupQueue, leaving, registered,
                    collected, called, released>>
    BY <1>6 DEF Begin, Look, Check, EndCallback, AbortCallback
  <2>2. /\ index' \in [Threads -> 0..MaxRegistrations]
        /\ held' \in [Threads -> 0..MaxRegistrations]
    <3>1. CASE AbortCallback(t)
      BY <3>1 DEF AbortCallback, TInv, Bounded
    <3>2. CASE UNCHANGED <<index, held>>
      BY <3>2 DEF TInv, Bounded
    <3>. QED  BY <1>6, <3>1, <3>2 DEF Begin, Look, Check, EndCallback
  <2>. QED  BY <1>1, <2>1, <2>2 DEF TInv, Bounded
<1>7. ASSUME NEW id \in Ids, Collect(id)  PROVE Room' /\ Bounded'
  BY <1>1, <1>7 DEF Collect, TInv, Bounded
<1>8. ASSUME PostGC  PROVE Room' /\ Bounded'
  <2>1. Len(entries') = Len(entries)
    <3>1. Len(entries) \in Nat
      BY LenProperties DEF TInv, IInv, TypeInv
    <3>. QED  BY <1>8, <3>1 DEF PostGC, Indices
  <2>2. cleanupQueue' \in Seq(1..MaxRegistrations)
    BY <1>8, QueueGrows DEF PostGC
  <2>. QED  BY <1>8, <2>1, <2>2 DEF PostGC, TInv, Room, Bounded
<1>9. ASSUME UNCHANGED vars  PROVE Room' /\ Bounded'
  BY <1>1, <1>9 DEF vars, TInv, Bounded
<1>10. ASSUME NEW t \in Threads, Cleanup(t) \/ EndCallbackSomehow(t)
       PROVE  Room' /\ Bounded'
  BY <1>3, <1>4, <1>5, <1>6, <1>10, RemoveBounds DEF Cleanup, EndCallbackSomehow
<1>11. ASSUME NEW t \in Threads,
              \/ \E token \in Tokens \cup {NoToken} : Register(t, token)
              \/ \E token \in Tokens : BeginUnregister(t, token)
              \/ FinishUnregister(t)
              \/ Begin(t)
       PROVE  Room' /\ Bounded'
  BY <1>2, <1>6, <1>11, RegisterBounds, FinishUnregisterBounds
<1>12. Room' /\ Bounded'
  BY <1>7, <1>8, <1>9, <1>10, <1>11 DEF Next
<1>. QED  BY <1>12 DEF TInv

THEOREM TypeInvariance == Spec => []TInv
<1>1. TInv /\ IInv' /\ [Next]_vars => TInv'
  BY TInvStep
<1>. QED  BY InitTInv, <1>1, Invariance, PTL DEF Spec

(* The registry's vector, its token map and its cleanup queue stay in       *)
(* bounds: no index is queued that the vector never had, whatever is        *)
(* removed while a collection or a cleanup is under way.                    *)
THEOREM TypeCorrect == Spec => []TypeOK
<1>1. TInv => TypeOK
  BY RegistryAssumption DEF TInv, IInv, TypeInv, Room, Bounded, TypeOK
<1>. QED  BY TypeInvariance, <1>1, PTL

(* However stale the token's or the cleanup's index is, a step takes out    *)
(* nobody but the registration found there under the exclusive lock, which  *)
(* for a cleanup is one whose target was collected.                        *)
THEOREM OneLeaves == Spec => NoOtherLeaves
<1>1. TInv /\ [Next]_vars => [\A id \in Ids : LeavesOK(id)]_vars
  BY LeavesStep DEF TInv, IInv, TypeInv, Bounded, EntriesInv
<1>. QED  BY TypeInvariance, <1>1, PTL DEF Spec, NoOtherLeaves, LeavesOK
=============================================================================
