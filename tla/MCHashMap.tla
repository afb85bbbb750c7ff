----------------------------- MODULE MCHashMap -----------------------------
(* In a table of four slots, two keys with the last slot for a home and one
   with the first, where the way of the other two comes round. *)
EXTENDS HashMap

CONSTANTS a, b, c, x, y

MCHome == [k \in Keys |-> CASE k = a -> 3 [] k = b -> 7 [] k = c -> 4]

MCLoads == {<<1, 2>>, <<1, 1>>}
=============================================================================
