------------------------- MODULE HttpServerEviction -------------------------
(***************************************************************************)
(* Which connection a full queue gives up.  HttpServer, with a record of    *)
(* the order in which the connections that are in the queue came into it.   *)
(***************************************************************************)
EXTENDS HttpServer

CONSTANTS w1, w2

VARIABLE arrivals   (* history: the queued connections, the first to come first *)

InitH == Init /\ arrivals = <<>>

StillQueued(c) == c \in Queued'

NextH ==
  /\ Next
  /\ arrivals' = SelectSeq(arrivals, StillQueued) \o SetToSeq(Queued' \ Queued)

SpecH == InitH /\ [][NextH]_<<vars, arrivals>>

(* closeConnection begins on c, for want of room.                           *)
Evicts(c) ==
  /\ closing = NoConn /\ closing' = c /\ c # NoConn
  /\ \E w \in Workers : At(w, "requeue") /\ At(w, "countOut")' /\ conn[w] # c

CameBefore(c, d) ==
  \E i, j \in DOMAIN arrivals : arrivals[i] = c /\ arrivals[j] = d /\ i < j

(* "If the queue is full, close the oldest connection" (http_server.cpp:625; *)
(* the log at 626 says so too): whatever makes a connection old, that it     *)
(* was accepted earlier or that it has been longer in the queue, none that   *)
(* stays in the queue is older than the closed one in both.                  *)
EvictsOldest ==
  [][\A c \in Conns : Evicts(c) =>
       \A d \in Queued' : c < d \/ CameBefore(c, d)]_vars
=============================================================================
