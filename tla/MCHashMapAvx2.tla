--------------------------- MODULE MCHashMapAvx2 ---------------------------
(* Integer keys in a table of the default sixteen slots, two of them with one
   home. *)
EXTENDS HashMapAvx2

MCHome == [k \in Keys |-> IF k = 103 THEN 9 ELSE 5]

MCLoads == {<<3, 4>>}
=============================================================================
