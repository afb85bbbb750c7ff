----------------------------- MODULE MapObject -----------------------------
(***************************************************************************)
(* JavaScript's Map, runtime/builtins/map/map.cpp: the entries in insertion *)
(* order, the table from keys to positions in it, and forEach, whose        *)
(* callback is a script that may insert, delete, clear and start another    *)
(* forEach on the same map.                                                *)
(*                                                                         *)
(* The engine runs one script at a time: a step is one call of a method, or *)
(* one turn of a forEach loop.  Positions count from 1 where the code's    *)
(* vector counts from 0.  Keys are what ValueHasher and the equality of     *)
(* values tell apart.                                                      *)
(***************************************************************************)
EXTENDS Integers, SequencesExt, FiniteSets

CONSTANTS
  Keys,
  Values,
  MaxBorn,    (* entries ever made; bounds the model                       *)
  MaxDepth    (* nested calls of forEach; bounds the model                 *)

ASSUME MapObjectAssumption ==
  /\ MaxBorn \in Nat
  /\ MaxDepth \in Nat

VARIABLES
  m_entries,  (* the vector; `born` is history: the number of the insertion *)
  m_keyMap,   (* position of each key's entry, Absent for the others       *)
  m_size,
  building,   (* the constructor is still reading its iterable             *)
  passes,     (* the forEach calls under way, innermost first              *)
  born,       (* entries made so far                                       *)
  last        (* history: the last call of set, delete or clear            *)

vars == <<m_entries, m_keyMap, m_size, building, passes, born, last>>

Absent == 0

Entry == [key : Keys, value : Values, born : 1..MaxBorn]

(* A forEach loop: i entries are done with, and `calling` while its callback *)
(* runs for the next.  History: the insertions it has seen, in order, and   *)
(* how many entries have been removed at positions it had come to.          *)
Pass == [i : Nat, calling : BOOLEAN, seen : Seq(1..MaxBorn), gone : Nat]

LastCall == {<<"new">>, <<"clear">>} \cup {"set"} \X Keys \X Values
            \cup {"delete"} \X Keys \X BOOLEAN

Init ==
  /\ m_entries = <<>>
  /\ m_keyMap = [k \in Keys |-> Absent]
  /\ m_size = 0
  /\ building = TRUE
  /\ passes = <<>>
  /\ born = 0
  /\ last = <<"new">>

(* A script runs between the calls, or as the callback of the innermost.    *)
InScript == ~building /\ (passes # <<>> => Head(passes).calling)

---------------------------------------------------------------------------
(* Mutation: the value of a key that is there is not replaced.             *)
PutKeeping(k, v) ==
  /\ \/ /\ m_keyMap[k] # Absent
        /\ UNCHANGED <<m_entries, m_keyMap, m_size, born>>
     \/ /\ m_keyMap[k] = Absent
        /\ born < MaxBorn
        /\ born' = born + 1
        /\ m_entries' = Append(m_entries,
                               [key |-> k, value |-> v, born |-> born + 1])
        /\ m_keyMap' = [m_keyMap EXCEPT ![k] = Len(m_entries) + 1]
        /\ m_size' = m_size + 1
  /\ last' = <<"set", k, v>>
  /\ UNCHANGED passes

(* set(): a key that is there keeps its place.                             *)
Put(k, v) ==
  /\ \/ /\ m_keyMap[k] # Absent
        /\ m_entries' = [m_entries EXCEPT ![m_keyMap[k]].value = v]
        /\ UNCHANGED <<m_keyMap, m_size, born>>
     \/ /\ m_keyMap[k] = Absent
        /\ born < MaxBorn
        /\ born' = born + 1
        /\ m_entries' = Append(m_entries,
                               [key |-> k, value |-> v, born |-> born + 1])
        /\ m_keyMap' = [m_keyMap EXCEPT ![k] = Len(m_entries) + 1]
        /\ m_size' = m_size + 1
  /\ last' = <<"set", k, v>>
  /\ UNCHANGED passes

(* The constructor puts in the pairs of its iterable, the last value of a   *)
(* key winning; at the end of the iterable, or at an item that is no pair,  *)
(* it leaves the map with what it has.                                      *)
FromIterable(k, v) == building /\ Put(k, v) /\ UNCHANGED building

Constructed ==
  /\ building
  /\ building' = FALSE
  /\ UNCHANGED <<m_entries, m_keyMap, m_size, passes, born, last>>

Set(k, v) == InScript /\ Put(k, v) /\ UNCHANGED building

(* The positions a loop has come to, the one it calls back for included.    *)
Horizon(p) == IF p.calling THEN p.i + 1 ELSE p.i

(* The entries at positions S are removed under every loop under way.       *)
Lost(S) ==
  passes' = [d \in DOMAIN passes |->
    [passes[d] EXCEPT !.gone = @ + Cardinality(S \cap (1..Horizon(passes[d])))]]

(* Mutations: the size is counted down for a key that is not there; the     *)
(* table keeps its old positions; the last entry fills the gap.            *)
DeleteUnchecked(k) ==
  /\ InScript
  /\ m_keyMap[k] = Absent
  /\ m_size' = m_size - 1
  /\ last' = <<"delete", k, TRUE>>
  /\ UNCHANGED <<m_entries, m_keyMap, building, passes, born>>

DeleteUnshifted(k) ==
  /\ InScript
  /\ m_keyMap[k] # Absent
  /\ m_entries' = RemoveAt(m_entries, m_keyMap[k])
  /\ m_keyMap' = [m_keyMap EXCEPT ![k] = Absent]
  /\ m_size' = m_size - 1
  /\ Lost({m_keyMap[k]})
  /\ last' = <<"delete", k, TRUE>>
  /\ UNCHANGED <<building, born>>

DeleteSwapping(k) ==
  /\ InScript
  /\ m_keyMap[k] # Absent
  /\ m_entries' = Front([m_entries EXCEPT ![m_keyMap[k]] = Last(m_entries)])
  /\ m_keyMap' = [m_keyMap EXCEPT ![Last(m_entries).key] = m_keyMap[k],
                                 ![k] = Absent]
  /\ m_size' = m_size - 1
  /\ Lost({m_keyMap[k]})
  /\ last' = <<"delete", k, TRUE>>
  /\ UNCHANGED <<building, born>>

(* delete: the later entries move up by one, in the vector and in the table. *)
Delete(k) ==
  /\ InScript
  /\ \/ /\ m_keyMap[k] = Absent
        /\ last' = <<"delete", k, FALSE>>
        /\ UNCHANGED <<m_entries, m_keyMap, m_size, passes>>
     \/ /\ m_keyMap[k] # Absent
        /\ m_entries' = RemoveAt(m_entries, m_keyMap[k])
        /\ m_keyMap' = [j \in Keys |->
             IF j = k THEN Absent
             ELSE IF m_keyMap[j] > m_keyMap[k] THEN m_keyMap[j] - 1
             ELSE m_keyMap[j]]
        /\ m_size' = m_size - 1
        /\ Lost({m_keyMap[k]})
        /\ last' = <<"delete", k, TRUE>>
  /\ UNCHANGED <<building, born>>

Clear ==
  /\ InScript
  /\ m_entries' = <<>>
  /\ m_keyMap' = [k \in Keys |-> Absent]
  /\ m_size' = 0
  /\ Lost(1..Len(m_entries))
  /\ last' = <<"clear">>
  /\ UNCHANGED <<building, born>>

---------------------------------------------------------------------------
(* forEach: a loop over positions that reads the vector's size each turn.   *)
ForEach ==
  /\ InScript
  /\ Len(passes) < MaxDepth
  /\ passes' = <<[i |-> 0, calling |-> FALSE, seen |-> <<>>, gone |-> 0]>> \o passes
  /\ UNCHANGED <<m_entries, m_keyMap, m_size, building, born, last>>

Visit ==
  /\ passes # <<>> /\ ~Head(passes).calling
  /\ Head(passes).i < Len(m_entries)
  /\ passes' = [passes EXCEPT
       ![1].calling = TRUE,
       ![1].seen = Append(@, m_entries[Head(passes).i + 1].born)]
  /\ UNCHANGED <<m_entries, m_keyMap, m_size, building, born, last>>

Turned(p) == [i |-> p.i + 1, calling |-> FALSE, seen |-> p.seen, gone |-> p.gone]

Return ==
  /\ passes # <<>> /\ Head(passes).calling
  /\ passes' = [passes EXCEPT ![1] = Turned(@)]
  /\ UNCHANGED <<m_entries, m_keyMap, m_size, building, born, last>>

(* The callback throws: the loop is left.                                   *)
Throw ==
  /\ passes # <<>> /\ Head(passes).calling
  /\ passes' = Tail(passes)
  /\ UNCHANGED <<m_entries, m_keyMap, m_size, building, born, last>>

(* Mutation: the loop stops one entry short.                               *)
FinishShort ==
  /\ passes # <<>> /\ ~Head(passes).calling
  /\ Head(passes).i + 1 >= Len(m_entries)
  /\ passes' = Tail(passes)
  /\ UNCHANGED <<m_entries, m_keyMap, m_size, building, born, last>>

Finish ==
  /\ passes # <<>> /\ ~Head(passes).calling
  /\ Head(passes).i >= Len(m_entries)
  /\ passes' = Tail(passes)
  /\ UNCHANGED <<m_entries, m_keyMap, m_size, building, born, last>>

---------------------------------------------------------------------------
Next ==
  \/ \E k \in Keys, v \in Values : FromIterable(k, v) \/ Set(k, v)
  \/ Constructed
  \/ \E k \in Keys : Delete(k)
  \/ Clear
  \/ ForEach \/ Visit \/ Return \/ Throw \/ Finish

Spec == Init /\ [][Next]_vars

---------------------------------------------------------------------------
(* What the methods answer.                                                *)
has(k)  == m_keyMap[k] # Absent
get(k)  == m_entries[m_keyMap[k]].value
keys    == [i \in 1..Len(m_entries) |-> m_entries[i].key]

---------------------------------------------------------------------------
(* Properties.                                                             *)

TypeOK ==
  /\ m_entries \in Seq(Entry)
  /\ m_keyMap \in [Keys -> Nat]
  /\ m_size \in Nat
  /\ building \in BOOLEAN
  /\ passes \in Seq(Pass)
  /\ born \in 0..MaxBorn
  /\ last \in LastCall

(* The vector and the table are two records of the same map, kept by hand: *)
(* after any calls each entry is where the table says, and size() is their *)
(* number.  A position that is one off answers for another key.            *)
IndexAgrees ==
  /\ m_size = Len(m_entries)
  /\ \A k \in Keys : has(k) =>
       m_keyMap[k] <= Len(m_entries) /\ m_entries[m_keyMap[k]].key = k
  /\ \A i \in 1..Len(m_entries) : m_keyMap[m_entries[i].key] = i

(* What get, has and keys answer is what an insertion-ordered map answers,   *)
(* whatever calls, nested callbacks included, came before; that size()      *)
(* answers so too is IndexAgrees.                                          *)
OM == INSTANCE OrderedMap WITH
        order   <- keys,
        content <- [k \in {j \in Keys : has(j)} |-> get(k)]
IsOrderedMap == OM!Spec

(* A loop calls back in the order of insertion, and never twice for one     *)
(* insertion, although its position is a plain index into a vector from     *)
(* which its callbacks remove.                                             *)
VisitsAscend ==
  \A d \in 1..Len(passes) : \A a, b \in 1..Len(passes[d].seen) :
    a < b => passes[d].seen[a] < passes[d].seen[b]

Unseen(p) ==
  {i \in 1..Len(m_entries) :
     \A a \in 1..Len(p.seen) : p.seen[a] # m_entries[i].born}

(* The loop comes to its end, its callback not having thrown.               *)
LoopEnds == passes # <<>> /\ ~Head(passes).calling /\ Len(passes') < Len(passes)

(* "Runs the callback on all entries of the Map" (map.h:131): when a loop    *)
(* comes to its end, whatever its callbacks did, each entry that is in the  *)
(* map has been visited.                                                   *)
ForEachCallsAll == [][LoopEnds => Unseen(Head(passes)) = {}]_vars

(* How far the code falls short of that: an entry is missed only because one *)
(* at a position the loop had come to was removed, and one at most for      *)
(* each.  Nothing that is inserted, put again, or removed further on, by    *)
(* callbacks or by loops inside them, makes a loop miss an entry.           *)
MissesOnlyMovedUp ==
  [][LoopEnds => Cardinality(Unseen(Head(passes))) <= Head(passes).gone]_vars

=============================================================================
