---------------------------- MODULE OrderedMap ----------------------------
(* What a JavaScript Map promises a script: each key once, in the order in
   which it was first inserted since it was last absent, with the value it was
   last given.  MapObject.tla is shown to implement it. *)
EXTENDS Integers, SequencesExt

CONSTANTS Keys, Values

VARIABLES order,    \* the keys of the map, oldest first
          content,  \* the value of each of them: a function on those keys
          last      \* the last call that may change the map, and its answer

vars == <<order, content, last>>

Nothing == [k \in {} |-> k]

Init ==
  /\ order = <<>>
  /\ content = Nothing
  /\ last = <<"new">>

Put(k, v) ==
  /\ order' = IF k \in DOMAIN content THEN order ELSE Append(order, k)
  /\ content' = [j \in DOMAIN content \cup {k} |->
                   IF j = k THEN v ELSE content[j]]
  /\ last' = <<"set", k, v>>

Delete(k) ==
  \/ /\ \E i \in 1..Len(order) : order[i] = k /\ order' = RemoveAt(order, i)
     /\ content' = [j \in DOMAIN content \ {k} |-> content[j]]
     /\ last' = <<"delete", k, TRUE>>
  \/ /\ \A i \in 1..Len(order) : order[i] # k
     /\ last' = <<"delete", k, FALSE>>
     /\ UNCHANGED <<order, content>>

Empty ==
  /\ order' = <<>>
  /\ content' = Nothing
  /\ last' = <<"clear">>

Next ==
  \/ \E k \in Keys : (\E v \in Values : Put(k, v)) \/ Delete(k)
  \/ Empty

Spec == Init /\ [][Next]_vars
=============================================================================
