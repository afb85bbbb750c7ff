---------------------------- MODULE MCMapObject ----------------------------
(* Three keys; the values matter only to see which of two was put last. *)
EXTENDS MapObject

CONSTANTS a, b, c, x, y
=============================================================================
