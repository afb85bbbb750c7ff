----------------------------- MODULE HttpServer -----------------------------
(***************************************************************************)
(* core/network/http_server.cpp: one thread accepts connections into a      *)
(* queue, a pool of workers takes them out, answers one request and puts    *)
(* those that are kept alive back, and the embedder starts and stops it.    *)
(*                                                                         *)
(* One step is one critical section of queueMutex_ or one access to state   *)
(* that another thread writes without it.  Waiting on queueCondition_ takes *)
(* two: the worker tests the predicate, then blocks, holding the mutex in   *)
(* between; what Stop writes without the mutex may fall between the two.    *)
(* Closing a connection takes two as well: counting it out is one access,    *)
(* closing its descriptor the other, in one order or the other.             *)
(*                                                                         *)
(* What is on the wire is a choice: every outcome of a read, a parse, a     *)
(* handler, a send and a health check that the code tells apart.            *)
(***************************************************************************)
EXTENDS Integers, SequencesExt, FiniteSets

CONSTANTS
  MaxConns,        (* connections ever accepted; bounds the model            *)
  Workers,         (* the thread pool                                        *)
  MaxConnections,  (* config_.maxConnections                                 *)
  Wrap,            (* size_t counts modulo this                              *)
  MaxStarts        (* calls of Start; bounds the model                       *)

Conns  == 1..MaxConns   (* numbered as they are accepted *)
NoConn == 0

ASSUME HttpServerAssumption ==
  /\ MaxConns \in Nat
  /\ IsFiniteSet(Workers)
  /\ MaxConnections \in Nat
  /\ Wrap \in Nat /\ MaxConns < Wrap
  /\ MaxStarts \in Nat

VARIABLES
  running_, shouldStop_,
  connectionQueue_,
  socket,            (* each connection's descriptor                         *)
  requestComplete, responseComplete,
  activeConnections, (* the statistic, a size_t                              *)
  acceptor,          (* where the accept thread is                           *)
  accepted,          (* the connection it has queued but not yet counted     *)
  closing,           (* the one closeConnection has closed but not counted out *)
  worker,            (* where each worker is                                 *)
  conn,              (* the connection each worker handles                   *)
  stopper,           (* where the embedder is in Stop                        *)
  starts             (* calls of Start so far                                *)

connVars == <<socket, requestComplete, responseComplete, activeConnections>>
vars == <<running_, shouldStop_, connectionQueue_, connVars, closing, acceptor,
          accepted, worker, conn, stopper, starts>>

Init ==
  /\ running_ = FALSE /\ shouldStop_ = FALSE
  /\ connectionQueue_ = <<>>
  /\ socket = [c \in Conns |-> "none"]
  /\ requestComplete = [c \in Conns |-> FALSE]
  /\ responseComplete = [c \in Conns |-> FALSE]
  /\ activeConnections = 0
  /\ acceptor = "off"
  /\ accepted = NoConn
  /\ closing = NoConn
  /\ worker = [w \in Workers |-> "off"]
  /\ conn = [w \in Workers |-> NoConn]
  /\ stopper = "idle"
  /\ starts = 0

---------------------------------------------------------------------------
(* Who holds queueMutex_ between two steps.                                 *)
Holds(w)  == worker[w] \in {"blocking", "countOut"}
MutexFree == \A w \in Workers : ~Holds(w)

At(w, place) == worker[w] = place
Goto(w, place) == worker' = [worker EXCEPT ![w] = place]

Waiting == {w \in Workers : At(w, "waiting")}

(* notify_one, by a thread that goes on to `place`: a blocked worker, if    *)
(* there is one, goes to look at the queue again.                          *)
WakeOne(places) ==
  \/ Waiting = {} /\ worker' = places
  \/ \E w \in Waiting : worker' = [places EXCEPT ![w] = "look"]

(* Mutation: a counter that may go below zero.                             *)
DecrementedBelow(n) == n - 1

Decremented(n) == (n - 1) % Wrap

(* Every path that closes a connection counts it out: a worker that gives    *)
(* up its own does so before, closeConnection after.                       *)
CountedOut == activeConnections' = Decremented(activeConnections)
Closed(c)  == socket' = [socket EXCEPT ![c] = "closed"]

---------------------------------------------------------------------------
(* The embedder.                                                           *)
Start ==
  /\ ~running_ /\ stopper = "idle"
  /\ starts < MaxStarts
  /\ starts' = starts + 1
  /\ running_' = TRUE /\ shouldStop_' = FALSE
  /\ worker' = [w \in Workers |-> "look"]
  /\ acceptor' = "poll"
  /\ UNCHANGED <<connectionQueue_, connVars, closing, accepted, conn, stopper>>

(* Stop: raise the flag, close the server's socket, wait for the accept     *)
(* thread, wake all the workers, wait for them.  The queue is left alone.   *)
StopBegin ==
  /\ running_ /\ stopper = "idle"
  /\ shouldStop_' = TRUE /\ running_' = FALSE
  /\ stopper' = "joinAcceptor"
  /\ UNCHANGED <<connectionQueue_, connVars, closing, acceptor, accepted, worker,
                 conn, starts>>

(* Mutation: Stop wakes one worker only.                                   *)
StopNotifyOne ==
  /\ stopper = "joinAcceptor"
  /\ acceptor = "off"
  /\ stopper' = "joinWorkers"
  /\ WakeOne(worker)
  /\ UNCHANGED <<running_, shouldStop_, connectionQueue_, connVars, closing,
                 acceptor, accepted, conn, starts>>

StopNotifyAll ==
  /\ stopper = "joinAcceptor"
  /\ acceptor = "off"
  /\ stopper' = "joinWorkers"
  /\ worker' = [w \in Workers |-> IF At(w, "waiting") THEN "look" ELSE worker[w]]
  /\ UNCHANGED <<running_, shouldStop_, connectionQueue_, connVars, closing,
                 acceptor, accepted, conn, starts>>

StopEnd ==
  /\ stopper = "joinWorkers"
  /\ \A w \in Workers : At(w, "off")
  /\ stopper' = "idle"
  /\ UNCHANGED <<running_, shouldStop_, connectionQueue_, connVars, closing,
                 acceptor, accepted, worker, conn, starts>>

---------------------------------------------------------------------------
(* The accept thread.  It may be past its test of the flag, with a           *)
(* connection in hand, when Stop begins.                                   *)
Accept(c) ==
  /\ acceptor = "poll" /\ MutexFree
  /\ socket[c] = "none"
  /\ \A d \in 1..(c - 1) : socket[d] # "none"
  /\ socket' = [socket EXCEPT ![c] = "open"]
  /\ connectionQueue_' = Append(connectionQueue_, c)
  /\ accepted' = c
  /\ acceptor' = "notify"
  /\ UNCHANGED <<running_, shouldStop_, requestComplete, responseComplete,
                 activeConnections, closing, worker, conn, stopper, starts>>

(* Mutation: only a push onto an empty queue is announced.                 *)
AcceptNotifyFirst ==
  /\ acceptor = "notify"
  /\ IF Len(connectionQueue_) <= 1 THEN WakeOne(worker) ELSE UNCHANGED worker
  /\ acceptor' = "count"
  /\ UNCHANGED <<running_, shouldStop_, connectionQueue_, connVars, closing,
                 accepted, conn, stopper, starts>>

AcceptNotify ==
  /\ acceptor = "notify"
  /\ WakeOne(worker)
  /\ acceptor' = "count"
  /\ UNCHANGED <<running_, shouldStop_, connectionQueue_, connVars, closing,
                 accepted, conn, stopper, starts>>

(* The connection is counted when a worker may already have closed it.     *)
AcceptCount ==
  /\ acceptor = "count"
  /\ activeConnections' = (activeConnections + 1) % Wrap
  /\ accepted' = NoConn
  /\ acceptor' = IF shouldStop_ THEN "off" ELSE "poll"
  /\ UNCHANGED <<running_, shouldStop_, connectionQueue_, socket, requestComplete,
                 responseComplete, closing, worker, conn, stopper, starts>>

(* epoll_wait fails, or comes back and the loop sees the flag.             *)
AcceptEnd ==
  /\ acceptor = "poll"
  /\ acceptor' = "off"
  /\ UNCHANGED <<running_, shouldStop_, connectionQueue_, connVars, closing,
                 accepted, worker, conn, stopper, starts>>

---------------------------------------------------------------------------
(* A worker at the queue.                                                  *)
Take(w) ==
  /\ At(w, "look") /\ MutexFree
  /\ \/ /\ shouldStop_
        /\ Goto(w, "off")
        /\ UNCHANGED <<connectionQueue_, conn>>
     \/ /\ ~shouldStop_
        /\ connectionQueue_ # <<>>
        /\ conn' = [conn EXCEPT ![w] = Head(connectionQueue_)]
        /\ connectionQueue_' = Tail(connectionQueue_)
        /\ Goto(w, "read")
     \/ /\ ~shouldStop_
        /\ connectionQueue_ = <<>>
        /\ Goto(w, "blocking")
        /\ UNCHANGED <<connectionQueue_, conn>>
  /\ UNCHANGED <<running_, shouldStop_, connVars, closing, acceptor, accepted,
                 stopper, starts>>

Block(w) ==
  /\ At(w, "blocking")
  /\ Goto(w, "waiting")
  /\ UNCHANGED <<running_, shouldStop_, connectionQueue_, connVars, closing,
                 acceptor, accepted, conn, stopper, starts>>

(* A condition variable may wake a thread that nobody notified.            *)
SpuriousWake(w) ==
  /\ At(w, "waiting")
  /\ Goto(w, "look")
  /\ UNCHANGED <<running_, shouldStop_, connectionQueue_, connVars, closing,
                 acceptor, accepted, conn, stopper, starts>>

---------------------------------------------------------------------------
(* HandleConnection.                                                       *)

LetGo(w) == Goto(w, "look") /\ conn' = [conn EXCEPT ![w] = NoConn]

(* The data is malformed, or its header too long: an answer is prepared but  *)
(* the request does not count as complete.                                 *)
ReadBad(w) ==
  /\ ~requestComplete[conn[w]]
  /\ Goto(w, "send")
  /\ UNCHANGED <<requestComplete, activeConnections, conn>>

(* Header or body is not all there: the connection stays open, and nobody   *)
(* looks at it again.                                                      *)
ReadPartly(w) ==
  /\ ~requestComplete[conn[w]]
  /\ LetGo(w)
  /\ UNCHANGED <<requestComplete, activeConnections>>

(* The request is whole and its handlers have run, whatever they did; or    *)
(* the data is not parsed, because requestComplete is still set.           *)
ReadRequest(w) ==
  /\ requestComplete' = [requestComplete EXCEPT ![conn[w]] = TRUE]
  /\ Goto(w, "send")
  /\ UNCHANGED <<activeConnections, conn>>

(* Mutation: a connection whose read fails is not counted out.              *)
ReadNothingUncounted(w) ==
  /\ Goto(w, "hangUp")
  /\ UNCHANGED <<requestComplete, activeConnections, conn>>

(* recv returns nothing: closed by the other end, or nothing there yet.     *)
ReadNothing(w) ==
  /\ CountedOut
  /\ Goto(w, "hangUp")
  /\ UNCHANGED <<requestComplete, conn>>

(* Mutation: the exception ends the worker.                                *)
ReadThrowsOut(w) ==
  /\ ~requestComplete[conn[w]]
  /\ requestComplete' = [requestComplete EXCEPT ![conn[w]] = TRUE]
  /\ Goto(w, "off")
  /\ conn' = [conn EXCEPT ![w] = NoConn]
  /\ UNCHANGED activeConnections

(* A length that is no number, or an error handler that throws.            *)
ReadThrows(w) ==
  /\ ~requestComplete[conn[w]]
  /\ requestComplete' = [requestComplete EXCEPT ![conn[w]] = TRUE]
  /\ CountedOut
  /\ Goto(w, "hangUp")
  /\ UNCHANGED conn

(* recv, ParseRequest and ProcessRequest: in between no thread looks at      *)
(* what they write.                                                        *)
Read(w) ==
  /\ At(w, "read")
  /\ \/ ReadNothing(w) \/ ReadPartly(w) \/ ReadBad(w) \/ ReadRequest(w)
     \/ ReadThrows(w)
  /\ UNCHANGED <<running_, shouldStop_, connectionQueue_, socket,
                 responseComplete, closing, acceptor, accepted, stopper, starts>>

HangUp(w) ==
  /\ At(w, "hangUp")
  /\ Closed(conn[w])
  /\ LetGo(w)
  /\ UNCHANGED <<running_, shouldStop_, connectionQueue_, requestComplete,
                 responseComplete, activeConnections, closing, acceptor,
                 accepted, stopper, starts>>

(* send may fail, or would block.                                          *)
Send(w) ==
  /\ At(w, "send")
  /\ \/ /\ requestComplete[conn[w]] /\ ~responseComplete[conn[w]]
        /\ responseComplete' = [responseComplete EXCEPT ![conn[w]] = TRUE]
     \/ UNCHANGED responseComplete
  /\ Goto(w, "decide")
  /\ UNCHANGED <<running_, shouldStop_, connectionQueue_, socket, requestComplete,
                 activeConnections, closing, acceptor, accepted, conn, stopper,
                 starts>>

(* Answered: kept alive or closed.  Otherwise it is neither put back nor     *)
(* closed.                                                                 *)
Decide(w) ==
  /\ At(w, "decide")
  /\ \/ /\ requestComplete[conn[w]] /\ responseComplete[conn[w]]
        /\ \/ /\ Goto(w, "requeue")
              /\ UNCHANGED activeConnections
           \/ /\ CountedOut
              /\ Goto(w, "shut")
     \/ /\ ~(requestComplete[conn[w]] /\ responseComplete[conn[w]])
        /\ Goto(w, "resetRequest")
        /\ UNCHANGED activeConnections
  /\ UNCHANGED <<running_, shouldStop_, connectionQueue_, socket, requestComplete,
                 responseComplete, closing, acceptor, accepted, conn, stopper,
                 starts>>

Shut(w) ==
  /\ At(w, "shut")
  /\ Closed(conn[w])
  /\ Goto(w, "resetRequest")
  /\ UNCHANGED <<running_, shouldStop_, connectionQueue_, requestComplete,
                 responseComplete, activeConnections, closing, acceptor,
                 accepted, conn, stopper, starts>>

HasRoom == Len(connectionQueue_) < MaxConnections

RequeueBack(w) ==
  /\ HasRoom
  /\ connectionQueue_' = Append(connectionQueue_, conn[w])
  /\ Goto(w, "resetRequest")
  /\ UNCHANGED <<socket, closing>>

RequeueFront(w) ==
  /\ HasRoom
  /\ connectionQueue_' = <<conn[w]>> \o connectionQueue_
  /\ Goto(w, "resetRequest")
  /\ UNCHANGED <<socket, closing>>

(* closeConnection, as far as the descriptor.  The mutex is held until the   *)
(* connection is counted out.                                              *)
CloseConnection(w, c) ==
  /\ Closed(c)
  /\ closing' = c
  /\ Goto(w, "countOut")

(* It is not healthy, or is not to be kept alive after all.                 *)
RequeueClosed(w) ==
  /\ CloseConnection(w, conn[w])
  /\ UNCHANGED connectionQueue_

(* Mutation: the connection closed for want of room stays in the queue.     *)
RequeueFullKeeping(w) ==
  /\ ~HasRoom
  /\ \/ /\ connectionQueue_ = <<>>
        /\ connectionQueue_' = <<conn[w]>>
        /\ Goto(w, "resetRequest")
        /\ UNCHANGED <<socket, closing>>
     \/ /\ connectionQueue_ # <<>>
        /\ CloseConnection(w, Head(connectionQueue_))
        /\ UNCHANGED connectionQueue_

(* A full queue gives up the connection at its head.                       *)
RequeueFull(w) ==
  /\ ~HasRoom
  /\ \/ /\ connectionQueue_ = <<>>
        /\ connectionQueue_' = <<conn[w]>>
        /\ Goto(w, "resetRequest")
        /\ UNCHANGED <<socket, closing>>
     \/ /\ connectionQueue_ # <<>>
        /\ CloseConnection(w, Head(connectionQueue_))
        /\ connectionQueue_' = Tail(connectionQueue_)

Requeue(w) ==
  /\ At(w, "requeue") /\ MutexFree
  /\ RequeueBack(w) \/ RequeueFront(w) \/ RequeueClosed(w) \/ RequeueFull(w)
  /\ UNCHANGED <<running_, shouldStop_, requestComplete, responseComplete,
                 activeConnections, acceptor, accepted, conn, stopper, starts>>

(* closeConnection counts the connection out and clears its flags; the one   *)
(* it made room for is put in the queue.                                    *)
CountOut(w) ==
  /\ At(w, "countOut")
  /\ CountedOut
  /\ requestComplete' = [requestComplete EXCEPT ![closing] = FALSE]
  /\ responseComplete' = [responseComplete EXCEPT ![closing] = FALSE]
  /\ connectionQueue_' = IF closing = conn[w] THEN connectionQueue_
                         ELSE Append(connectionQueue_, conn[w])
  /\ closing' = NoConn
  /\ Goto(w, "resetRequest")
  /\ UNCHANGED <<running_, shouldStop_, socket, acceptor, accepted, conn, stopper,
                 starts>>

(* Mutation: requestComplete is not reset.                                 *)
ResetRequestNot(w) ==
  /\ At(w, "resetRequest")
  /\ Goto(w, "resetResponse")
  /\ UNCHANGED <<running_, shouldStop_, connectionQueue_, connVars, closing,
                 acceptor, accepted, conn, stopper, starts>>

(* The connection is made ready for its next request when it may already be *)
(* in the hands of another worker.                                         *)
ResetRequest(w) ==
  /\ At(w, "resetRequest")
  /\ requestComplete' = [requestComplete EXCEPT ![conn[w]] = FALSE]
  /\ Goto(w, "resetResponse")
  /\ UNCHANGED <<running_, shouldStop_, connectionQueue_, socket,
                 responseComplete, activeConnections, closing, acceptor, accepted,
                 conn, stopper, starts>>

ResetResponse(w) ==
  /\ At(w, "resetResponse")
  /\ responseComplete' = [responseComplete EXCEPT ![conn[w]] = FALSE]
  /\ Goto(w, "notify")
  /\ UNCHANGED <<running_, shouldStop_, connectionQueue_, socket,
                 requestComplete, activeConnections, closing, acceptor, accepted,
                 conn, stopper, starts>>

Notify(w) ==
  /\ At(w, "notify")
  /\ WakeOne([worker EXCEPT ![w] = "look"])
  /\ conn' = [conn EXCEPT ![w] = NoConn]
  /\ UNCHANGED <<running_, shouldStop_, connectionQueue_, connVars, closing,
                 acceptor, accepted, stopper, starts>>

---------------------------------------------------------------------------
Handle(w) ==
  \/ Read(w) \/ HangUp(w) \/ Send(w) \/ Decide(w) \/ Shut(w)
  \/ Requeue(w) \/ CountOut(w) \/ ResetRequest(w) \/ ResetResponse(w) \/ Notify(w)

Acceptor == (\E c \in Conns : Accept(c)) \/ AcceptNotify \/ AcceptCount
            \/ AcceptEnd

Stop == StopBegin \/ StopNotifyAll \/ StopEnd

Next ==
  \/ Start \/ Stop \/ Acceptor
  \/ \E w \in Workers : Take(w) \/ Block(w) \/ SpuriousWake(w) \/ Handle(w)

Spec == Init /\ [][Next]_vars

(* Threads that can go on do, in the end, and handlers return.  Nothing      *)
(* promises that a client comes, that the embedder calls, or that a thread  *)
(* wakes up by itself.                                                     *)
FairSpec ==
  /\ Spec
  /\ WF_vars(StopNotifyAll \/ StopEnd)
  /\ WF_vars(AcceptNotify \/ AcceptCount \/ (shouldStop_ /\ AcceptEnd))
  /\ \A w \in Workers : WF_vars(Take(w) \/ Block(w) \/ Handle(w))

---------------------------------------------------------------------------
(* Properties.                                                             *)

TypeOK ==
  /\ running_ \in BOOLEAN /\ shouldStop_ \in BOOLEAN
  /\ connectionQueue_ \in Seq(Conns)
  /\ socket \in [Conns -> {"none", "open", "closed"}]
  /\ requestComplete \in [Conns -> BOOLEAN]
  /\ responseComplete \in [Conns -> BOOLEAN]
  /\ activeConnections \in 0..(Wrap - 1)
  /\ acceptor \in {"off", "poll", "notify", "count"}
  /\ accepted \in Conns \cup {NoConn} /\ closing \in Conns \cup {NoConn}
  /\ worker \in [Workers -> {"off", "look", "blocking", "waiting", "read",
                             "hangUp", "send", "decide", "shut", "requeue",
                             "countOut", "resetRequest", "resetResponse",
                             "notify"}]
  /\ conn \in [Workers -> Conns \cup {NoConn}]
  /\ stopper \in {"idle", "joinAcceptor", "joinWorkers"}
  /\ starts \in 0..MaxStarts

(* A worker answers for its connection until it has closed it or put it     *)
(* back; after that it still writes to it.                                 *)
Answers(w) ==
  \/ worker[w] \in {"read", "hangUp", "send", "decide", "shut", "requeue"}
  \/ At(w, "countOut") /\ closing # conn[w]
Releasing(w) == worker[w] \in {"resetRequest", "resetResponse"}

Queued == {connectionQueue_[i] : i \in 1..Len(connectionQueue_)}

(* A connection that is queued or answered for is open, and is so in one    *)
(* place only: no two threads read from it, and no descriptor is used, or   *)
(* closed again, after it was closed and its number may be another's.       *)
SoleOwner ==
  /\ \A i, j \in 1..Len(connectionQueue_) :
       connectionQueue_[i] = connectionQueue_[j] => i = j
  /\ \A c \in Queued : socket[c] = "open"
  /\ \A w \in Workers : Answers(w) =>
       /\ conn[w] \in Conns /\ conn[w] \notin Queued
       /\ socket[conn[w]] = "open"
       /\ \A v \in Workers : Answers(v) /\ conn[v] = conn[w] => v = w

(* The statistic counts the open connections: each one from when it is       *)
(* accepted until it is closed, but that a worker counts its own out just    *)
(* before it closes it, and closeConnection just after.  The one the accept  *)
(* thread has queued and not yet counted may even be closed by then: the     *)
(* counter is below the truth by one, and wraps, but only in between.       *)
Open       == {c \in Conns : socket[c] = "open"}
Leaving(w) == worker[w] \in {"hangUp", "shut"}
Counted    == (Open \ {conn[w] : w \in {v \in Workers : Leaving(v)}})
              \cup ({closing} \ {NoConn})
Uncounted  == IF accepted = NoConn THEN 0 ELSE 1

ActiveCountsOpen ==
  activeConnections = (Cardinality(Counted) - Uncounted) % Wrap

(* While the server runs, a worker sleeps only if each connection in the     *)
(* queue has a worker about to look, or a thread about to wake one: pushes   *)
(* are announced after the mutex is released, and wake-ups may be stolen,    *)
(* but none is lost.                                                        *)
Looking   == {w \in Workers : At(w, "look")}
Notifiers == {w \in Workers : worker[w] \in {"resetRequest", "resetResponse", "notify"}}

ReadyIsWatched ==
  ~shouldStop_ /\ Waiting # {} =>
    Len(connectionQueue_) <= Cardinality(Looking) + Cardinality(Notifiers)
                             + (IF acceptor = "notify" THEN 1 ELSE 0)

(* The flags of the last request are seen with the next one only while the  *)
(* worker that put the connection back is still about to reset them.        *)
FreshUnlessReleasing ==
  \A c \in Queued :
    /\ requestComplete[c] =>
         \E w \in Workers : At(w, "resetRequest") /\ conn[w] = c
    /\ responseComplete[c] =>
         \E w \in Workers : Releasing(w) /\ conn[w] = c

(* Liveness: a connection does not stay in the queue for ever: again and     *)
(* again it is out of it, or one with high priority is put in front of it,  *)
(* or the server has been told to stop.                                    *)
Overtaken ==
  \E w \in Workers : /\ At(w, "resetRequest")
                     /\ Len(connectionQueue_) > 1
                     /\ conn[w] = Head(connectionQueue_)

Taken == \A c \in Conns : []<>(c \notin Queued \/ Overtaken \/ shouldStop_)

(* Liveness: Stop comes back, unless it wakes the workers while one of them *)
(* has found the queue empty, before the flag was raised, and is about to   *)
(* block: the flag is written without the mutex, so that worker may sleep    *)
(* for ever, and Stop wait for it.                                         *)
StopReturns ==
  \/ <>(stopper = "joinWorkers" /\ \E w \in Workers : At(w, "blocking"))
  \/ []<>(stopper = "idle")
=============================================================================
