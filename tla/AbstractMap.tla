---------------------------- MODULE AbstractMap ----------------------------
(* What a map promises its callers: a partial function from keys to values,
   and the answer each call returns.  HashMap.tla is shown to implement it. *)

CONSTANTS Keys, Values, DefaultValue

VARIABLES map,   \* the association: a function from a subset of Keys to Values
          ret    \* the last call that was answered, and its answer

vars == <<map, ret>>

Answer(call, k, answer) == [call |-> call, key |-> k, answer |-> answer]

Absent == "absent"

Init ==
  /\ map = [k \in {} |-> DefaultValue]
  /\ ret = Answer("new", "none", "none")

Extended(k, v) == [j \in DOMAIN map \cup {k} |-> IF j = k THEN v ELSE map[j]]

(* An insertion never overwrites. *)
Insert(k, v) ==
  \/ /\ k \notin DOMAIN map
     /\ map' = Extended(k, v)
     /\ ret' = Answer("insert", k, "yes")
  \/ /\ k \in DOMAIN map
     /\ UNCHANGED map
     /\ ret' = Answer("insert", k, "no")

(* operator[]: an absent key is first given the default value. *)
Index(k) ==
  LET v == IF k \in DOMAIN map THEN map[k] ELSE DefaultValue IN
  /\ map' = Extended(k, v)
  /\ ret' = Answer("index", k, v)

Get(k) ==
  /\ UNCHANGED map
  /\ ret' = Answer("get", k, IF k \in DOMAIN map THEN map[k] ELSE Absent)

Erase(k) ==
  /\ map' = [j \in DOMAIN map \ {k} |-> map[j]]
  /\ ret' = Answer("erase", k, IF k \in DOMAIN map THEN "yes" ELSE "no")

Clear ==
  /\ map' = [k \in {} |-> DefaultValue]
  /\ ret' = Answer("clear", "none", "none")

(* Rehashing, reserving and changing the load factor are invisible but for
   their completion. *)
Tune == UNCHANGED map /\ ret' = Answer("tune", "none", "none")

Next ==
  \/ \E k \in Keys : \/ \E v \in Values : Insert(k, v)
                     \/ Index(k)
                     \/ Get(k)
                     \/ Erase(k)
  \/ Clear
  \/ Tune

Spec == Init /\ [][Next]_vars
=============================================================================
