-------------------------- MODULE HttpServerProofs --------------------------
(***************************************************************************)
(* Proofs about HttpServer for any number of connections, any finite pool   *)
(* of workers and any limits.                                              *)
(***************************************************************************)
EXTENDS HttpServer, SequenceTheorems, FiniteSetTheorems, TLAPS

Places == {"off", "look", "blocking", "waiting", "read", "hangUp", "send", "decide",
           "shut", "requeue", "countOut", "resetRequest", "resetResponse", "notify"}

(* A worker has a connection as long as it answers for it or writes to it.  *)
Busy(w) == worker[w] \in {"read", "hangUp", "send", "decide", "shut", "requeue",
                         "countOut", "resetRequest", "resetResponse"}
Held == \A w \in Workers : Busy(w) => conn[w] \in Conns

(* The whole state, for steps that move only one part of it.                *)
SocketsOK ==
  /\ socket \in [Conns -> {"none", "open", "closed"}]
  /\ activeConnections \in 0..(Wrap - 1)
  /\ closing \in Conns \cup {NoConn}
FlagsOK ==
  /\ requestComplete \in [Conns -> BOOLEAN]
  /\ responseComplete \in [Conns -> BOOLEAN]
WorkersOK ==
  /\ worker \in [Workers -> Places]
  /\ conn \in [Workers -> Conns \cup {NoConn}]
  /\ Held
ThreadsOK ==
  /\ running_ \in BOOLEAN /\ shouldStop_ \in BOOLEAN
  /\ acceptor \in {"off", "poll", "notify", "count"}
  /\ accepted \in Conns \cup {NoConn}
  /\ stopper \in {"idle", "joinAcceptor", "joinWorkers"}
  /\ starts \in 0..MaxStarts
TypeInv ==
  SocketsOK /\ FlagsOK /\ WorkersOK /\ ThreadsOK /\ connectionQueue_ \in Seq(Conns)

LEMMA TypeParts == TypeInv => TypeOK
BY DEF TypeInv, SocketsOK, FlagsOK, WorkersOK, ThreadsOK, Places, TypeOK

(* What the assumption says of the numbers, and what % keeps.               *)
LEMMA WrapType ==
  /\ Wrap \in Nat /\ Wrap > 0 /\ MaxConns \in Nat /\ MaxConns < Wrap
  /\ MaxStarts \in Nat
  /\ \A n \in Int : n % Wrap \in 0..(Wrap - 1)
BY HttpServerAssumption

(* Waking a worker keeps every worker at a place, and gives none a place    *)
(* where it holds a connection.                                            *)
LEMMA WakeType ==
  ASSUME NEW places \in [Workers -> Places], WakeOne(places)
  PROVE  /\ worker' \in [Workers -> Places]
         /\ \A w \in Workers : worker'[w] # places[w] => worker'[w] = "look"
BY DEF WakeOne, Waiting, Places

---------------------------------------------------------------------------
(* Type correctness.                                                       *)

LEMMA InitTypeInv == Init => TypeInv
<1> SUFFICES ASSUME Init PROVE TypeInv
  OBVIOUS
<1>1. 0 \in 0..(Wrap - 1) /\ 0 \in 0..MaxStarts
  BY WrapType
<1>2. SocketsOK /\ FlagsOK
  BY <1>1 DEF Init, SocketsOK, FlagsOK
<1>3. WorkersOK
  BY DEF Init, WorkersOK, Held, Busy, Places
<1>4. ThreadsOK
  BY <1>1 DEF Init, ThreadsOK
<1> QED BY <1>2, <1>3, <1>4 DEF Init, TypeInv

(* Counting a connection out, and closing it.                              *)
LEMMA CountedOutType ==
  ASSUME SocketsOK, CountedOut
  PROVE  activeConnections' \in 0..(Wrap - 1)
<1>1. activeConnections - 1 \in Int
  BY WrapType DEF SocketsOK
<1>2. (activeConnections - 1) % Wrap \in 0..(Wrap - 1)
  BY <1>1, WrapType
<1> QED BY <1>2 DEF CountedOut, Decremented

LEMMA SocketsStep == TypeInv /\ [Next]_vars => SocketsOK'
<1> SUFFICES ASSUME TypeInv, [Next]_vars PROVE SocketsOK'
  OBVIOUS
<1>s. SocketsOK /\ WorkersOK /\ connectionQueue_ \in Seq(Conns)
  BY DEF TypeInv
<1>1. ASSUME socket' = socket \/ \E c : Closed(c),
             activeConnections' = activeConnections \/ CountedOut,
             closing' = closing \/ closing' \in Conns \cup {NoConn}
      PROVE  SocketsOK'
  BY <1>s, <1>1, CountedOutType DEF SocketsOK, Closed
<1>3. ASSUME NEW c \in Conns, Accept(c) PROVE SocketsOK'
  BY <1>s, <1>3 DEF Accept, SocketsOK
<1>4. CASE AcceptCount
  <2>1. activeConnections + 1 \in Int
    BY <1>s, WrapType DEF SocketsOK
  <2>2. (activeConnections + 1) % Wrap \in 0..(Wrap - 1)
    BY <2>1, WrapType
  <2> QED BY <1>s, <1>4, <2>2 DEF AcceptCount, SocketsOK
<1>5. ASSUME NEW w \in Workers,
             \/ Read(w) \/ HangUp(w) \/ Decide(w) \/ Shut(w) \/ CountOut(w)
      PROVE  SocketsOK'
  BY <1>1, <1>5 DEF Read, ReadNothing, ReadPartly, ReadBad, ReadRequest, ReadThrows,
                    HangUp, Decide, Shut, CountOut
<1>8. ASSUME NEW w \in Workers, Requeue(w) PROVE SocketsOK'
  <2>1. conn[w] \in Conns
    BY <1>s, <1>8 DEF WorkersOK, Held, Busy, Requeue, At
  <2>2. connectionQueue_ # <<>> => Head(connectionQueue_) \in Conns
    BY <1>s, HeadTailProperties
  <2> QED BY <1>1, <1>8, <2>1, <2>2
      DEF Requeue, RequeueBack, RequeueFront, RequeueClosed, RequeueFull, CloseConnection
<1>6. CASE \/ Start \/ StopBegin \/ StopNotifyAll \/ StopEnd \/ AcceptNotify \/ AcceptEnd
           \/ UNCHANGED vars
  BY <1>1, <1>6 DEF Start, StopBegin, StopNotifyAll, StopEnd, AcceptNotify, AcceptEnd,
                    vars, connVars
<1>7. ASSUME NEW w \in Workers,
             \/ Take(w) \/ Block(w) \/ SpuriousWake(w) \/ Send(w) \/ ResetRequest(w)
             \/ ResetResponse(w) \/ Notify(w)
      PROVE  SocketsOK'
  BY <1>1, <1>7 DEF Take, Block, SpuriousWake, Send, ResetRequest, ResetResponse,
                    Notify, connVars
<1> QED BY <1>3, <1>4, <1>5, <1>6, <1>7, <1>8 DEF Next, Stop, Acceptor, Handle

LEMMA FlagsStep == TypeInv /\ [Next]_vars => FlagsOK'
<1> SUFFICES ASSUME TypeInv, [Next]_vars PROVE FlagsOK'
  OBVIOUS
<1>s. FlagsOK
  BY DEF TypeInv
<1>1. CASE UNCHANGED <<requestComplete, responseComplete>>
  BY <1>s, <1>1 DEF FlagsOK
<1>3. ASSUME NEW w \in Workers, Read(w) PROVE FlagsOK'
  BY <1>s, <1>3 DEF Read, ReadNothing, ReadPartly, ReadBad, ReadRequest, ReadThrows,
                    FlagsOK
<1>4. ASSUME NEW w \in Workers,
             Send(w) \/ CountOut(w) \/ ResetRequest(w) \/ ResetResponse(w)
      PROVE  FlagsOK'
  BY <1>s, <1>4 DEF Send, CountOut, ResetRequest, ResetResponse, FlagsOK
<1>6. CASE \/ Start \/ StopBegin \/ StopNotifyAll \/ StopEnd \/ AcceptNotify
           \/ AcceptCount \/ AcceptEnd \/ UNCHANGED vars
  BY <1>1, <1>6 DEF Start, StopBegin, StopNotifyAll, StopEnd, AcceptNotify, AcceptCount,
                    AcceptEnd, vars, connVars
<1>7. ASSUME NEW w \in Workers,
             \/ Take(w) \/ Block(w) \/ SpuriousWake(w) \/ HangUp(w) \/ Decide(w)
             \/ Shut(w) \/ Requeue(w) \/ Notify(w)
      PROVE  FlagsOK'
  BY <1>1, <1>7 DEF Take, Block, SpuriousWake, HangUp, Decide, Shut, Requeue, Notify,
                    connVars
<1>8. ASSUME NEW c \in Conns, Accept(c) PROVE FlagsOK'
  BY <1>1, <1>8 DEF Accept
<1> QED BY <1>3, <1>4, <1>6, <1>7, <1>8 DEF Next, Stop, Acceptor, Handle

LEMMA QueueStep == TypeInv /\ [Next]_vars => connectionQueue_' \in Seq(Conns)
<1> SUFFICES ASSUME TypeInv, [Next]_vars PROVE connectionQueue_' \in Seq(Conns)
  OBVIOUS
<1>s. connectionQueue_ \in Seq(Conns) /\ WorkersOK
  BY DEF TypeInv
<1>h. connectionQueue_ # <<>> => Tail(connectionQueue_) \in Seq(Conns)
  BY <1>s, HeadTailProperties
<1>1. CASE UNCHANGED connectionQueue_
  BY <1>s, <1>1
<1>2. ASSUME NEW c \in Conns, Accept(c) PROVE connectionQueue_' \in Seq(Conns)
  BY <1>s, <1>2, AppendProperties DEF Accept
<1>3. ASSUME NEW w \in Workers, Take(w) PROVE connectionQueue_' \in Seq(Conns)
  BY <1>s, <1>h, <1>3 DEF Take
<1>4. ASSUME NEW w \in Workers, Requeue(w) \/ CountOut(w)
      PROVE  connectionQueue_' \in Seq(Conns)
  <2>1. conn[w] \in Conns
    BY <1>s, <1>4 DEF WorkersOK, Held, Busy, Requeue, CountOut, At
  <2>2. <<conn[w]>> \in Seq(Conns)
    BY <2>1
  <2>3. <<conn[w]>> \o connectionQueue_ \in Seq(Conns)
    BY <1>s, <2>2, ConcatProperties
  <2>4. Append(connectionQueue_, conn[w]) \in Seq(Conns)
    BY <1>s, <2>1, AppendProperties
  <2> QED BY <1>s, <1>h, <1>4, <2>2, <2>3, <2>4
      DEF Requeue, RequeueBack, RequeueFront, RequeueClosed, RequeueFull, CountOut
<1>5. CASE \/ Start \/ StopBegin \/ StopNotifyAll \/ StopEnd \/ AcceptNotify
           \/ AcceptCount \/ AcceptEnd \/ UNCHANGED vars
  BY <1>1, <1>5 DEF Start, StopBegin, StopNotifyAll, StopEnd, AcceptNotify, AcceptCount,
                    AcceptEnd, vars
<1>6. ASSUME NEW w \in Workers,
             \/ Block(w) \/ SpuriousWake(w) \/ Read(w) \/ HangUp(w) \/ Send(w)
             \/ Decide(w) \/ Shut(w) \/ ResetRequest(w) \/ ResetResponse(w) \/ Notify(w)
      PROVE  connectionQueue_' \in Seq(Conns)
  BY <1>1, <1>6 DEF Block, SpuriousWake, Read, HangUp, Send, Decide, Shut, ResetRequest,
                    ResetResponse, Notify
<1> QED BY <1>2, <1>3, <1>4, <1>5, <1>6 DEF Next, Stop, Acceptor, Handle

(* One worker moves on.                                                    *)
LEMMA GotoType ==
  ASSUME NEW w \in Workers, NEW place \in Places,
         worker \in [Workers -> Places], Goto(w, place)
  PROVE  /\ worker' \in [Workers -> Places]
         /\ worker'[w] = place
         /\ \A v \in Workers : v # w => worker'[v] = worker[v]
BY DEF Goto

LEMMA WorkersStep == TypeInv /\ [Next]_vars => WorkersOK'
<1> SUFFICES ASSUME TypeInv, [Next]_vars PROVE WorkersOK'
  OBVIOUS
<1>s. /\ WorkersOK /\ connectionQueue_ \in Seq(Conns)
      /\ worker \in [Workers -> Places]
  BY DEF TypeInv, WorkersOK
<1>1. CASE UNCHANGED <<worker, conn>>
  BY <1>s, <1>1 DEF WorkersOK, Held, Busy
<1>2. ASSUME WakeOne(worker), UNCHANGED conn PROVE WorkersOK'
  BY <1>s, <1>2, WakeType DEF WorkersOK, Held, Busy
<1>3. CASE Start
  BY <1>s, <1>3 DEF Start, WorkersOK, Held, Busy, Places
<1>4. CASE StopNotifyAll
  BY <1>s, <1>4 DEF StopNotifyAll, WorkersOK, Held, Busy, Places, At
<1>5. ASSUME NEW w \in Workers, NEW place \in Places, Goto(w, place),
             \/ /\ conn' = conn
                /\ place \in {"hangUp", "send", "decide", "shut", "requeue", "countOut",
                             "resetRequest", "resetResponse"} => Busy(w)
                /\ place # "read"
             \/ /\ \E c \in Conns \cup {NoConn} : conn' = [conn EXCEPT ![w] = c]
                /\ place \in {"look", "off"}
             \/ \E c \in Conns : conn' = [conn EXCEPT ![w] = c]
      PROVE  WorkersOK'
  <2>1. /\ worker' \in [Workers -> Places]
        /\ worker'[w] = place
        /\ \A v \in Workers : v # w => worker'[v] = worker[v]
    BY <1>s, <1>5, GotoType
  <2>2. conn' \in [Workers -> Conns \cup {NoConn}]
    BY <1>s, <1>5 DEF WorkersOK
  <2>3. \A v \in Workers : v # w => conn'[v] = conn[v]
    BY <1>s, <1>5 DEF WorkersOK
  <2>4. Busy(w)' => conn'[w] \in Conns
    BY <1>s, <1>5, <2>1 DEF WorkersOK, Held, Busy
  <2>5. Held'
    BY <1>s, <2>1, <2>3, <2>4 DEF WorkersOK, Held, Busy
  <2> QED BY <2>1, <2>2, <2>5 DEF WorkersOK
<1>p. Places = Places \cup {"off", "look", "blocking", "waiting", "read", "hangUp",
           "send", "decide", "shut", "requeue", "countOut", "resetRequest",
           "resetResponse", "notify"}
  BY DEF Places
<1>6. ASSUME NEW w \in Workers, Take(w) PROVE WorkersOK'
  <2>1. connectionQueue_ # <<>> => Head(connectionQueue_) \in Conns
    BY <1>s, HeadTailProperties
  <2>2. CASE Goto(w, "off") /\ UNCHANGED conn
    BY <1>5, <1>p, <2>2
  <2>3. CASE Goto(w, "blocking") /\ UNCHANGED conn
    BY <1>5, <1>p, <2>3
  <2>4. CASE /\ connectionQueue_ # <<>> /\ Goto(w, "read")
             /\ conn' = [conn EXCEPT ![w] = Head(connectionQueue_)]
    BY <1>5, <1>p, <2>1, <2>4
  <2> QED BY <1>6, <2>2, <2>3, <2>4 DEF Take
<1>7. ASSUME NEW w \in Workers, Read(w) \/ HangUp(w) PROVE WorkersOK'
  <2>1. Busy(w)
    BY <1>7 DEF Read, HangUp, At, Busy
  <2>2. CASE LetGo(w)
    BY <1>5, <1>p, <2>2 DEF LetGo
  <2>3. CASE (Goto(w, "send") \/ Goto(w, "hangUp")) /\ UNCHANGED conn
    BY <1>5, <1>p, <2>1, <2>3
  <2> QED BY <1>7, <2>2, <2>3 DEF Read, ReadNothing, ReadPartly, ReadBad, ReadRequest,
                                  ReadThrows, HangUp
<1>8. ASSUME NEW w \in Workers,
             Send(w) \/ Decide(w) \/ Shut(w) \/ Requeue(w) \/ CountOut(w)
      PROVE  WorkersOK'
  <2>1. Busy(w)
    BY <1>8 DEF Send, Decide, Shut, Requeue, CountOut, At, Busy
  <2>2. /\ conn' = conn
        /\ \/ Goto(w, "decide") \/ Goto(w, "shut") \/ Goto(w, "requeue")
           \/ Goto(w, "countOut") \/ Goto(w, "resetRequest")
    BY <1>8 DEF Send, Decide, Shut, Requeue, CountOut, RequeueBack, RequeueFront,
                RequeueClosed, RequeueFull, CloseConnection
  <2> QED BY <1>5, <1>p, <2>1, <2>2
<1>9. ASSUME NEW w \in Workers, ResetRequest(w) \/ ResetResponse(w) PROVE WorkersOK'
  <2>1. Busy(w)
    BY <1>9 DEF ResetRequest, ResetResponse, At, Busy
  <2>2. conn' = conn /\ (Goto(w, "resetResponse") \/ Goto(w, "notify"))
    BY <1>9 DEF ResetRequest, ResetResponse
  <2> QED BY <1>5, <1>p, <2>1, <2>2
<1>10. ASSUME NEW w \in Workers, Block(w) \/ SpuriousWake(w) PROVE WorkersOK'
  <2>1. conn' = conn /\ (Goto(w, "waiting") \/ Goto(w, "look"))
    BY <1>10 DEF Block, SpuriousWake
  <2> QED BY <1>5, <1>p, <2>1
<1>11. ASSUME NEW w \in Workers, Notify(w) PROVE WorkersOK'
  <2>1. [worker EXCEPT ![w] = "look"] \in [Workers -> Places]
    BY <1>s, <1>p
  <2>2. /\ worker' \in [Workers -> Places]
        /\ \A v \in Workers : worker'[v] # worker[v] => worker'[v] = "look"
        /\ worker'[w] = "look"
    BY <1>s, <1>11, <2>1, WakeType DEF Notify
  <2>3. /\ conn' \in [Workers -> Conns \cup {NoConn}]
        /\ \A v \in Workers : v # w => conn'[v] = conn[v]
    BY <1>s, <1>11 DEF Notify, WorkersOK
  <2> QED BY <1>s, <2>2, <2>3 DEF WorkersOK, Held, Busy
<1>12. CASE StopBegin \/ StopEnd \/ AcceptCount \/ AcceptEnd \/ UNCHANGED vars
  BY <1>1, <1>12 DEF StopBegin, StopEnd, AcceptCount, AcceptEnd, vars
<1>13. ASSUME NEW c \in Conns, Accept(c) PROVE WorkersOK'
  BY <1>1, <1>13 DEF Accept
<1>14. CASE AcceptNotify
  BY <1>2, <1>14 DEF AcceptNotify
<1> QED BY <1>3, <1>4, <1>6, <1>7, <1>8, <1>9, <1>10, <1>11, <1>12, <1>13, <1>14
        DEF Next, Stop, Acceptor, Handle

LEMMA ThreadsStep == TypeInv /\ [Next]_vars => ThreadsOK'
<1> SUFFICES ASSUME TypeInv, [Next]_vars PROVE ThreadsOK'
  OBVIOUS
<1>s. ThreadsOK
  BY DEF TypeInv
<1>1. CASE UNCHANGED <<running_, shouldStop_, acceptor, accepted, stopper, starts>>
  BY <1>s, <1>1 DEF ThreadsOK
<1>2. CASE Start
  <2>1. starts < MaxStarts /\ starts' = starts + 1
    BY <1>2 DEF Start
  <2>2. starts' \in 0..MaxStarts
    BY <1>s, <2>1, WrapType DEF ThreadsOK
  <2> QED BY <1>s, <1>2, <2>2 DEF Start, ThreadsOK
<1>3. CASE StopBegin \/ StopNotifyAll \/ StopEnd
  BY <1>s, <1>3 DEF StopBegin, StopNotifyAll, StopEnd, ThreadsOK
<1>4. CASE Acceptor
  BY <1>s, <1>4 DEF Acceptor, Accept, AcceptNotify, AcceptCount, AcceptEnd, ThreadsOK
<1>5. ASSUME NEW w \in Workers, Take(w) \/ Block(w) \/ SpuriousWake(w) \/ Handle(w)
      PROVE  ThreadsOK'
  BY <1>1, <1>5 DEF Take, Block, SpuriousWake, Handle, Read, HangUp, Send, Decide, Shut,
                    Requeue, CountOut, ResetRequest, ResetResponse, Notify
<1>6. CASE UNCHANGED vars
  BY <1>1, <1>6 DEF vars
<1> QED BY <1>2, <1>3, <1>4, <1>5, <1>6 DEF Next, Stop

LEMMA TypeStep == TypeInv /\ [Next]_vars => TypeInv'
BY SocketsStep, FlagsStep, QueueStep, WorkersStep, ThreadsStep DEF TypeInv

(* The server's state is always well formed: every connection a worker      *)
(* handles exists, and the gauge is a size_t.                              *)
THEOREM HttpTypeOK == Spec => []TypeOK
<1>1. Init => TypeInv BY InitTypeInv
<1>2. TypeInv /\ [Next]_vars => TypeInv' BY TypeStep
<1>3. TypeInv => TypeOK BY TypeParts
<1> QED BY <1>1, <1>2, <1>3, PTL DEF Spec

---------------------------------------------------------------------------
(* Who holds the mutex.                                                    *)

LEMMA PlaceNames ==
  {"off", "look", "blocking", "waiting", "read", "hangUp", "send", "decide",
   "shut", "requeue", "countOut", "resetRequest", "resetResponse", "notify"} = Places
BY DEF Places

(* All workers have ended before the server can be started again.          *)
Idle == ~running_ /\ stopper = "idle" => \A w \in Workers : At(w, "off")

(* Nobody is woken where nobody waits.                                      *)
LEMMA WakeNobody ==
  ASSUME NEW places, WakeOne(places), \A w \in Workers : ~At(w, "waiting")
  PROVE  worker' = places
BY DEF WakeOne, Waiting

LEMMA IdleStep == TypeInv /\ Idle /\ [Next]_vars => Idle'
<1> SUFFICES ASSUME TypeInv, Idle, [Next]_vars PROVE Idle'
  OBVIOUS
<1>1. CASE Start \/ StopBegin \/ StopNotifyAll \/ StopEnd \/ UNCHANGED vars
  BY <1>1 DEF Start, StopBegin, StopNotifyAll, StopEnd, vars, Idle, At
<1>2. ASSUME NEW w \in Workers, Take(w) \/ Block(w) \/ SpuriousWake(w) \/ Handle(w)
      PROVE  Idle'
  <2>1. /\ running_' = running_ /\ stopper' = stopper
        /\ ~At(w, "off")
    BY <1>2 DEF Take, Block, SpuriousWake, Handle, Read, HangUp, Send, Decide, Shut,
                Requeue, CountOut, ResetRequest, ResetResponse, Notify, At
  <2> QED BY <2>1 DEF Idle
<1>3. CASE AcceptNotify
  <2>1. /\ running_' = running_ /\ stopper' = stopper /\ WakeOne(worker)
    BY <1>3 DEF AcceptNotify
  <2>2. CASE ~running_ /\ stopper = "idle"
    <3>1. \A w \in Workers : ~At(w, "waiting")
      BY <2>2 DEF Idle, At
    <3>2. worker' = worker
      BY <2>1, <3>1, WakeNobody
    <3> QED BY <2>1, <3>2 DEF Idle, At
  <2> QED BY <2>1, <2>2 DEF Idle
<1>4. CASE AcceptCount \/ AcceptEnd \/ \E c \in Conns : Accept(c)
  BY <1>4 DEF Accept, AcceptCount, AcceptEnd, Idle, At
<1> QED BY <1>1, <1>2, <1>3, <1>4 DEF Next, Stop, Acceptor

(* One worker at most holds the mutex between its steps, and one that is in  *)
(* closeConnection has closed what it has to count out.                     *)
MutexOK ==
  /\ \A v, w \in Workers : Holds(v) /\ Holds(w) => v = w
  /\ closing # NoConn <=> \E w \in Workers : At(w, "countOut")
  /\ closing # NoConn => socket[closing] = "closed"

LEMMA MutexStep == TypeInv /\ Idle /\ MutexOK /\ [Next]_vars => MutexOK'
<1> SUFFICES ASSUME TypeInv, Idle, MutexOK, [Next]_vars PROVE MutexOK'
  OBVIOUS
<1>s. /\ worker \in [Workers -> Places] /\ connectionQueue_ \in Seq(Conns)
      /\ socket \in [Conns -> {"none", "open", "closed"}]
      /\ closing \in Conns \cup {NoConn}
  BY DEF TypeInv, WorkersOK, SocketsOK
<1>n. \A c \in Conns : c # NoConn
  BY WrapType DEF Conns, NoConn
<1>1. ASSUME closing' = closing,
             \A c \in Conns : socket[c] = "closed" => socket'[c] = "closed",
             \A v \in Workers : Holds(v) \/ Holds(v)' => worker'[v] = worker[v]
      PROVE  MutexOK'
  <2>1. \A v \in Workers : (Holds(v)' <=> Holds(v)) /\ (At(v, "countOut")' <=> At(v, "countOut"))
    BY <1>1 DEF Holds, At
  <2>2. closing' # NoConn => socket'[closing'] = "closed"
    BY <1>s, <1>1 DEF MutexOK
  <2> QED BY <1>1, <2>1, <2>2 DEF MutexOK
<1>2. ASSUME NEW w \in Workers, NEW place \in Places, Goto(w, place),
             ~Holds(w), place \notin {"blocking", "countOut"},
             closing' = closing,
             \A c \in Conns : socket[c] = "closed" => socket'[c] = "closed"
      PROVE  MutexOK'
  BY <1>s, <1>1, <1>2, GotoType DEF Holds
<1>3. ASSUME NEW w \in Workers, Read(w) \/ HangUp(w) \/ Send(w) \/ Decide(w) \/ Shut(w)
      PROVE  MutexOK'
  <2>1. ~Holds(w) /\ closing' = closing
    BY <1>3 DEF Read, HangUp, Send, Decide, Shut, At, Holds
  <2>2. \A c \in Conns : socket[c] = "closed" => socket'[c] = "closed"
    BY <1>s, <1>3 DEF Read, HangUp, Send, Decide, Shut, Closed
  <2>3. \/ Goto(w, "look") \/ Goto(w, "send") \/ Goto(w, "hangUp") \/ Goto(w, "decide")
        \/ Goto(w, "requeue") \/ Goto(w, "shut") \/ Goto(w, "resetRequest")
    BY <1>3 DEF Read, ReadNothing, ReadPartly, ReadBad, ReadRequest, ReadThrows, LetGo,
                HangUp, Send, Decide, Shut
  <2> QED BY <1>2, <2>1, <2>2, <2>3, PlaceNames
<1>4. ASSUME NEW w \in Workers, ResetRequest(w) \/ ResetResponse(w) \/ SpuriousWake(w)
      PROVE  MutexOK'
  BY <1>2, <1>4, PlaceNames DEF ResetRequest, ResetResponse, SpuriousWake, At, Holds, connVars
<1>5. ASSUME NEW w \in Workers, Block(w) PROVE MutexOK'
  <2>1. worker[w] = "blocking" /\ worker'[w] = "waiting"
        /\ \A v \in Workers : v # w => worker'[v] = worker[v]
    BY <1>s, <1>5, GotoType, PlaceNames DEF Block, At
  <2>2. closing' = closing /\ socket' = socket
    BY <1>5 DEF Block, connVars
  <2> QED BY <2>1, <2>2 DEF MutexOK, Holds, At
<1>6. ASSUME NEW w \in Workers, Take(w) PROVE MutexOK'
  <2>1. MutexFree /\ ~Holds(w) /\ closing' = closing /\ socket' = socket
    BY <1>6 DEF Take, At, Holds, connVars
  <2>2. CASE Goto(w, "off") \/ Goto(w, "read")
    BY <1>2, <2>1, <2>2, PlaceNames
  <2>3. CASE Goto(w, "blocking")
    <3>1. worker'[w] = "blocking" /\ \A v \in Workers : v # w => worker'[v] = worker[v]
      BY <1>s, <2>3, GotoType, PlaceNames
    <3>2. \A v \in Workers : v # w => ~Holds(v)'
      BY <2>1, <3>1 DEF MutexFree, Holds
    <3>3. \A v \in Workers : ~At(v, "countOut") /\ ~At(v, "countOut")'
      BY <2>1, <3>1 DEF MutexFree, Holds, At
    <3> QED BY <2>1, <3>2, <3>3 DEF MutexOK
  <2> QED BY <1>6, <2>2, <2>3 DEF Take
<1>7. ASSUME NEW w \in Workers, Requeue(w) PROVE MutexOK'
  <2>1. MutexFree /\ ~Holds(w) /\ conn[w] \in Conns
    BY <1>7 DEF Requeue, At, Holds, Busy, TypeInv, WorkersOK, Held
  <2>2. CASE Goto(w, "resetRequest") /\ UNCHANGED <<socket, closing>>
    BY <1>2, <2>1, <2>2, PlaceNames
  <2>3. ASSUME NEW c \in Conns, CloseConnection(w, c) PROVE MutexOK'
    <3>1. worker'[w] = "countOut" /\ \A v \in Workers : v # w => worker'[v] = worker[v]
      BY <1>s, <2>3, GotoType, PlaceNames DEF CloseConnection
    <3>2. \A v \in Workers : v # w => ~Holds(v)'
      BY <2>1, <3>1 DEF MutexFree, Holds
    <3>3. closing' = c /\ socket'[c] = "closed"
      BY <1>s, <2>3 DEF CloseConnection, Closed
    <3>4. closing' # NoConn /\ At(w, "countOut")'
      BY <1>n, <3>1, <3>3 DEF At
    <3> QED BY <3>2, <3>3, <3>4 DEF MutexOK
  <2>4. connectionQueue_ # <<>> => Head(connectionQueue_) \in Conns
    BY <1>s, HeadTailProperties
  <2> QED BY <1>7, <2>1, <2>2, <2>3, <2>4
      DEF Requeue, RequeueBack, RequeueFront, RequeueClosed, RequeueFull
<1>8. ASSUME NEW w \in Workers, CountOut(w) PROVE MutexOK'
  <2>1. /\ Holds(w) /\ worker'[w] = "resetRequest" /\ closing' = NoConn
        /\ \A v \in Workers : v # w => worker'[v] = worker[v]
    BY <1>s, <1>8, GotoType, PlaceNames DEF CountOut, At, Holds
  <2>2. \A v \in Workers : ~Holds(v)'
    BY <2>1 DEF MutexOK, Holds
  <2>3. \A v \in Workers : ~At(v, "countOut")'
    BY <2>2 DEF Holds, At
  <2> QED BY <2>1, <2>2, <2>3 DEF MutexOK
<1>9. ASSUME NEW w \in Workers, Notify(w) PROVE MutexOK'
  <2>1. [worker EXCEPT ![w] = "look"] \in [Workers -> Places]
    BY <1>s, PlaceNames
  <2>2. /\ \A v \in Workers : worker'[v] # [worker EXCEPT ![w] = "look"][v] => worker'[v] = "look"
        /\ ~Holds(w) /\ closing' = closing /\ socket' = socket
    BY <1>9, <2>1, WakeType DEF Notify, At, Holds, connVars
  <2>3. \A v \in Workers : worker'[v] # worker[v] => ~Holds(v) \/ v \notin Waiting
    BY <1>9 DEF Holds, Waiting, At
  <2>4. \A v \in Workers : Holds(v) => worker'[v] = worker[v]
    BY <1>s, <1>9, <2>2 DEF Notify, WakeOne, Waiting, Holds, At
  <2>5. \A v \in Workers : Holds(v)' => worker'[v] = worker[v]
    BY <1>s, <2>2 DEF Holds
  <2> QED BY <1>1, <2>2, <2>4, <2>5
<1>10. CASE Start
  <2>1. \A w \in Workers : ~Holds(w) /\ ~Holds(w)'
    BY <1>10 DEF Start, Idle, At, Holds
  <2> QED BY <1>1, <1>10, <2>1 DEF Start, connVars
<1>11. CASE StopNotifyAll
  <2>1. \A v \in Workers : worker'[v] = worker[v] \/ (At(v, "waiting") /\ worker'[v] = "look")
    BY <1>11 DEF StopNotifyAll
  <2>2. \A v \in Workers : Holds(v) \/ Holds(v)' => worker'[v] = worker[v]
    BY <2>1 DEF Holds, At
  <2> QED BY <1>1, <1>11, <2>2 DEF StopNotifyAll, connVars
<1>12. CASE AcceptNotify
  <2>1. \A v \in Workers : worker'[v] = worker[v] \/ (At(v, "waiting") /\ worker'[v] = "look")
    BY <1>s, <1>12 DEF AcceptNotify, WakeOne, Waiting
  <2>2. \A v \in Workers : Holds(v) \/ Holds(v)' => worker'[v] = worker[v]
    BY <2>1 DEF Holds, At
  <2> QED BY <1>1, <1>12, <2>2 DEF AcceptNotify, connVars
<1>13. CASE StopBegin \/ StopEnd \/ AcceptCount \/ AcceptEnd \/ UNCHANGED vars
  BY <1>1, <1>13 DEF StopBegin, StopEnd, AcceptCount, AcceptEnd, vars, connVars
<1>14. ASSUME NEW c \in Conns, Accept(c) PROVE MutexOK'
  <2>1. \A d \in Conns : socket[d] = "closed" => socket'[d] = "closed"
    BY <1>s, <1>14 DEF Accept
  <2> QED BY <1>1, <1>14, <2>1 DEF Accept
<1> QED BY <1>3, <1>4, <1>5, <1>6, <1>7, <1>8, <1>9, <1>10, <1>11, <1>12, <1>13, <1>14
        DEF Next, Stop, Acceptor, Handle

---------------------------------------------------------------------------
(* Who owns a connection.                                                  *)

Elems(q)    == {q[i] : i \in 1..Len(q)}
Distinct(q) == \A i, j \in 1..Len(q) : q[i] = q[j] => i = j

(* Adding at the back, taking from the front, adding at the front.          *)
LEMMA AppendElems ==
  ASSUME NEW q \in Seq(Conns), NEW c \in Conns
  PROVE  /\ Elems(Append(q, c)) = Elems(q) \cup {c}
         /\ Distinct(q) /\ c \notin Elems(q) => Distinct(Append(q, c))
<1>1. /\ Len(Append(q, c)) = Len(q) + 1 /\ Len(q) \in Nat
      /\ \A i \in 1..Len(q) : Append(q, c)[i] = q[i]
      /\ Append(q, c)[Len(q) + 1] = c
  BY AppendProperties, LenProperties
<1>2. 1..(Len(q) + 1) = (1..Len(q)) \cup {Len(q) + 1}
  BY <1>1
<1>3. Elems(Append(q, c)) = Elems(q) \cup {c}
  BY <1>1, <1>2 DEF Elems
<1>4. ASSUME Distinct(q), c \notin Elems(q) PROVE Distinct(Append(q, c))
  BY <1>1, <1>2, <1>4 DEF Elems, Distinct
<1> QED BY <1>3, <1>4

LEMMA TailElems ==
  ASSUME NEW q \in Seq(Conns), q # <<>>
  PROVE  /\ Head(q) \in Elems(q) /\ Tail(q) \in Seq(Conns)
         /\ Elems(Tail(q)) \subseteq Elems(q)
         /\ Elems(q) = Elems(Tail(q)) \cup {Head(q)}
         /\ Distinct(q) => Distinct(Tail(q)) /\ Head(q) \notin Elems(Tail(q))
<1>1. /\ Tail(q) \in Seq(Conns) /\ Head(q) = q[1] /\ Len(q) \in Nat /\ Len(q) >= 1
      /\ Len(Tail(q)) = Len(q) - 1
      /\ \A i \in 1..(Len(q) - 1) : Tail(q)[i] = q[i + 1]
  BY HeadTailProperties, LenProperties, EmptySeq
<1>2. \A i \in 1..(Len(q) - 1) : i + 1 \in 1..Len(q) /\ i + 1 # 1
  BY <1>1
<1>3. \A i \in 1..Len(q) : i = 1 \/ (i - 1 \in 1..(Len(q) - 1) /\ (i - 1) + 1 = i)
  BY <1>1
<1>4. Head(q) \in Elems(q) /\ Elems(Tail(q)) \subseteq Elems(q)
  BY <1>1, <1>2 DEF Elems
<1>5. Elems(q) = Elems(Tail(q)) \cup {Head(q)}
  BY <1>1, <1>3, <1>4 DEF Elems
<1>6. ASSUME Distinct(q) PROVE Distinct(Tail(q)) /\ Head(q) \notin Elems(Tail(q))
  BY <1>1, <1>2, <1>6 DEF Elems, Distinct
<1> QED BY <1>1, <1>4, <1>5, <1>6

LEMMA ConsElems ==
  ASSUME NEW q \in Seq(Conns), NEW c \in Conns
  PROVE  /\ Elems(<<c>> \o q) = Elems(q) \cup {c}
         /\ Distinct(q) /\ c \notin Elems(q) => Distinct(<<c>> \o q)
<1>1. <<c>> \in Seq(Conns) /\ Len(<<c>>) = 1 /\ <<c>>[1] = c /\ Len(q) \in Nat
  BY LenProperties
<1>2. /\ Len(<<c>> \o q) = Len(q) + 1
      /\ (<<c>> \o q)[1] = c
      /\ \A i \in 2..(Len(q) + 1) : (<<c>> \o q)[i] = q[i - 1]
  BY <1>1, ConcatProperties
<1>3. \A i \in 1..(Len(q) + 1) : i = 1 \/ (i \in 2..(Len(q) + 1) /\ i - 1 \in 1..Len(q))
  BY <1>1
<1>4. \A i \in 1..Len(q) : i + 1 \in 2..(Len(q) + 1) /\ (i + 1) - 1 = i
  BY <1>1
<1>5. Elems(<<c>> \o q) = Elems(q) \cup {c}
  <2> DEFINE r == <<c>> \o q
  <2> HIDE DEF r
  <2>1. /\ Len(r) = Len(q) + 1 /\ r[1] = c
        /\ \A i \in 2..(Len(q) + 1) : r[i] = q[i - 1]
    BY <1>2 DEF r
  <2>2. \A i \in 1..Len(r) : r[i] \in Elems(q) \cup {c}
    BY <1>3, <2>1 DEF Elems
  <2>3. \A i \in 1..Len(q) : q[i] = r[i + 1] /\ i + 1 \in 1..Len(r)
    BY <1>1, <1>4, <2>1
  <2>4. c = r[1] /\ 1 \in 1..Len(r)
    BY <1>1, <2>1
  <2>5. Elems(r) \subseteq Elems(q) \cup {c}
    BY <2>2 DEF Elems
  <2>6. Elems(q) \subseteq Elems(r)
    BY <2>3 DEF Elems
  <2>7. c \in Elems(r)
    BY <2>4 DEF Elems
  <2> QED BY <2>5, <2>6, <2>7 DEF r
<1>6. ASSUME Distinct(q), c \notin Elems(q) PROVE Distinct(<<c>> \o q)
  BY <1>1, <1>2, <1>3, <1>6 DEF Elems, Distinct
<1> QED BY <1>5, <1>6

(* SoleOwner, with the queue's elements named.                             *)
Owners ==
  /\ Distinct(connectionQueue_)
  /\ \A c \in Elems(connectionQueue_) : socket[c] = "open"
  /\ \A w \in Workers : Answers(w) =>
       /\ conn[w] \notin Elems(connectionQueue_)
       /\ socket[conn[w]] = "open"
       /\ \A v \in Workers : Answers(v) /\ conn[v] = conn[w] => v = w

OwnInv == TypeInv /\ Idle /\ MutexOK /\ Owners

LEMMA AnswersBusy ==
  ASSUME TypeInv, NEW w \in Workers, Answers(w)
  PROVE  conn[w] \in Conns
BY DEF TypeInv, WorkersOK, Held, Busy, Answers, At

LEMMA OwnersSuffice == OwnInv => SoleOwner
BY AnswersBusy DEF OwnInv, Owners, Elems, Distinct, SoleOwner, Queued

(* Nobody new answers for a connection, and none is opened or closed.        *)
LEMMA OwnersKept ==
  ASSUME OwnInv, connectionQueue_' = connectionQueue_, socket' = socket,
         \A v \in Workers : Answers(v)' => Answers(v) /\ conn'[v] = conn[v]
  PROVE  Owners'
BY DEF OwnInv, Owners, Elems, Distinct

(* A worker closes the connection it answers for, and lets go of it.         *)
LEMMA OwnersClosed ==
  ASSUME OwnInv, NEW w \in Workers, Answers(w), Closed(conn[w]),
         connectionQueue_' = connectionQueue_, ~Answers(w)',
         \A v \in Workers : Answers(v)' => Answers(v) /\ conn'[v] = conn[v]
  PROVE  Owners'
<1>1. conn[w] \in Conns /\ conn[w] \notin Elems(connectionQueue_)
  BY AnswersBusy DEF OwnInv, Owners
<1>2. \A c \in Conns : c # conn[w] => socket'[c] = socket[c]
  BY DEF OwnInv, TypeInv, SocketsOK, Closed
<1>3. Elems(connectionQueue_) \subseteq Conns
  BY ElementOfSeq DEF OwnInv, TypeInv, Elems
<1>4. \A v \in Workers : Answers(v)' => conn[v] \in Conns /\ conn[v] # conn[w]
  BY AnswersBusy DEF OwnInv, Owners
<1> QED BY <1>1, <1>2, <1>3, <1>4 DEF OwnInv, Owners, Elems, Distinct

(* A worker puts the connection it answers for in the queue, and no longer   *)
(* answers for it.                                                         *)
LEMMA OwnersPutBack ==
  ASSUME OwnInv, NEW w \in Workers, Answers(w), ~Answers(w)', socket' = socket,
         \A v \in Workers : Answers(v)' => Answers(v) /\ conn'[v] = conn[v],
         \/ connectionQueue_' = Append(connectionQueue_, conn[w])
         \/ connectionQueue_' = <<conn[w]>> \o connectionQueue_
         \/ connectionQueue_ = <<>> /\ connectionQueue_' = <<conn[w]>>
  PROVE  Owners'
<1> DEFINE q == connectionQueue_
<1> DEFINE c == conn[w]
<1>1. q \in Seq(Conns) /\ c \in Conns /\ c \notin Elems(q) /\ socket[c] = "open"
  BY AnswersBusy DEF OwnInv, TypeInv, Owners
<1>2. Distinct(q) /\ \A d \in Elems(q) : socket[d] = "open"
  BY DEF OwnInv, Owners
<1>3. Distinct(q') /\ Elems(q') = Elems(q) \cup {c}
  <2>1. CASE q' = Append(q, c)
    BY <1>1, <1>2, <2>1, AppendElems
  <2>2. CASE q' = <<c>> \o q
    BY <1>1, <1>2, <2>2, ConsElems
  <2>3. CASE q = <<>> /\ q' = <<c>>
    <3>1. Len(q) = 0 /\ Len(q') = 1 /\ q'[1] = c
      BY <2>3
    <3> QED BY <3>1 DEF Elems, Distinct
  <2> QED BY <2>1, <2>2, <2>3
<1>4. \A v \in Workers : Answers(v)' =>
        conn[v] # c /\ conn[v] \notin Elems(q) /\ socket[conn[v]] = "open"
  BY DEF OwnInv, Owners
<1>5. \A v \in Workers : Answers(v)' =>
        \A u \in Workers : Answers(u)' /\ conn'[u] = conn'[v] => u = v
  BY DEF OwnInv, Owners
<1> QED BY <1>1, <1>2, <1>3, <1>4, <1>5 DEF Owners

(* After a step of w that is not to a place where it answers, or that goes   *)
(* on answering for the same connection.                                   *)
LEMMA AnswersKept ==
  ASSUME TypeInv, NEW w \in Workers, NEW place \in Places, Goto(w, place),
         place \in {"hangUp", "send", "decide", "shut", "requeue"} =>
           Answers(w) /\ conn' = conn,
         place \notin {"read", "countOut"}, closing' = closing,
         conn' = conn \/ \E c : conn' = [conn EXCEPT ![w] = c]
  PROVE  \A v \in Workers : Answers(v)' => Answers(v) /\ conn'[v] = conn[v]
<1>1. worker \in [Workers -> Places] /\ conn \in [Workers -> Conns \cup {NoConn}]
  BY DEF TypeInv, WorkersOK
<1>2. worker'[w] = place /\ \A v \in Workers : v # w => worker'[v] = worker[v]
  BY <1>1, GotoType
<1>3. \A v \in Workers : v # w => conn'[v] = conn[v]
  BY <1>1
<1>4. Answers(w)' => Answers(w) /\ conn'[w] = conn[w]
  BY <1>2 DEF Answers, At
<1> QED BY <1>2, <1>3, <1>4 DEF Answers, At

(* A worker that goes on with the same connection under the mutex, where no  *)
(* other holds it.                                                         *)
LEMMA AnswersLocked ==
  ASSUME TypeInv, NEW w \in Workers, NEW place \in Places, Goto(w, place), conn' = conn,
         \A v \in Workers : v # w => ~At(v, "countOut"),
         Answers(w)' => Answers(w)
  PROVE  \A v \in Workers : Answers(v)' => Answers(v) /\ conn'[v] = conn[v]
<1>1. \A v \in Workers : v # w => worker'[v] = worker[v]
  BY GotoType DEF TypeInv, WorkersOK
<1> QED BY <1>1 DEF Answers, At

LEMMA OwnersRequeue ==
  ASSUME OwnInv, NEW w \in Workers, Requeue(w)
  PROVE  Owners'
<1> DEFINE q == connectionQueue_
<1>s. /\ TypeInv /\ q \in Seq(Conns) /\ worker \in [Workers -> Places]
      /\ socket \in [Conns -> {"none", "open", "closed"}]
  BY DEF OwnInv, TypeInv, WorkersOK, SocketsOK
<1>1. /\ Answers(w) /\ conn' = conn
      /\ \A v \in Workers : ~At(v, "countOut")
  BY DEF Requeue, MutexFree, Holds, At, Answers
<1>2. ASSUME NEW place \in Places, Goto(w, place)
      PROVE  \A v \in Workers : Answers(v)' => Answers(v) /\ conn'[v] = conn[v]
  BY <1>s, <1>1, <1>2, AnswersLocked
<1>3. CASE /\ Goto(w, "resetRequest") /\ UNCHANGED <<socket, closing>>
           /\ \/ q' = Append(q, conn[w])
              \/ q' = <<conn[w]>> \o q
              \/ q = <<>> /\ q' = <<conn[w]>>
  <2>1. worker'[w] = "resetRequest"
    BY <1>s, <1>3, GotoType, PlaceNames
  <2>2. ~Answers(w)'
    BY <2>1 DEF Answers, At
  <2>3. \A v \in Workers : Answers(v)' => Answers(v) /\ conn'[v] = conn[v]
    BY <1>2, <1>3, PlaceNames
  <2> QED BY <1>1, <1>3, <2>2, <2>3, OwnersPutBack
<1>4. CASE CloseConnection(w, conn[w]) /\ q' = q
  <2>1. worker'[w] = "countOut" /\ closing' = conn'[w]
    BY <1>s, <1>1, <1>4, GotoType, PlaceNames DEF CloseConnection
  <2>2. ~Answers(w)'
    BY <2>1 DEF Answers, At
  <2>3. \A v \in Workers : Answers(v)' => Answers(v) /\ conn'[v] = conn[v]
    BY <1>2, <1>4, PlaceNames DEF CloseConnection
  <2> QED BY <1>1, <1>4, <2>2, <2>3, OwnersClosed DEF CloseConnection
<1>5. CASE q # <<>> /\ CloseConnection(w, Head(q)) /\ q' = Tail(q)
  <2>1. /\ Head(q) \in Elems(q) /\ Tail(q) \in Seq(Conns)
        /\ Elems(q) = Elems(q') \cup {Head(q)}
        /\ Distinct(q') /\ Head(q) \notin Elems(q')
    BY <1>s, <1>5, TailElems DEF OwnInv, Owners
  <2>2. \A d \in Conns : d # Head(q) => socket'[d] = socket[d]
    BY <1>s, <1>5 DEF CloseConnection, Closed
  <2>3. Elems(q) \subseteq Conns
    BY <1>s, ElementOfSeq DEF Elems
  <2>4. \A v \in Workers : Answers(v)' => Answers(v) /\ conn'[v] = conn[v]
    BY <1>2, <1>5, PlaceNames DEF CloseConnection
  <2>5. \A v \in Workers : Answers(v) =>
          /\ conn[v] \in Conns /\ conn[v] \notin Elems(q) /\ socket[conn[v]] = "open"
          /\ \A u \in Workers : Answers(u) /\ conn[u] = conn[v] => u = v
    BY <1>s, AnswersBusy DEF OwnInv, Owners
  <2>6. \A d \in Elems(q) : socket[d] = "open"
    BY DEF OwnInv, Owners
  <2>7. \A d \in Elems(q') : socket'[d] = "open"
    BY <2>1, <2>2, <2>3, <2>6
  <2>8. \A v \in Workers : Answers(v)' =>
          /\ conn'[v] \notin Elems(q') /\ socket'[conn'[v]] = "open"
          /\ \A u \in Workers : Answers(u)' /\ conn'[u] = conn'[v] => u = v
    BY <2>1, <2>2, <2>4, <2>5
  <2> QED BY <2>1, <2>7, <2>8 DEF Owners
<1> QED BY <1>3, <1>4, <1>5
        DEF Requeue, RequeueBack, RequeueFront, RequeueClosed, RequeueFull

LEMMA OwnersCountOut ==
  ASSUME OwnInv, NEW w \in Workers, CountOut(w)
  PROVE  Owners'
<1>s. TypeInv /\ worker \in [Workers -> Places]
  BY DEF OwnInv, TypeInv, WorkersOK
<1>1. /\ At(w, "countOut") /\ Goto(w, "resetRequest") /\ conn' = conn /\ socket' = socket
      /\ \A v \in Workers : v # w => ~At(v, "countOut")
  BY DEF CountOut, OwnInv, MutexOK, Holds, At
<1>2. worker'[w] = "resetRequest"
  BY <1>s, <1>1, GotoType, PlaceNames
<1>3. ~Answers(w)'
  BY <1>2 DEF Answers, At
<1>4. \A v \in Workers : Answers(v)' => Answers(v) /\ conn'[v] = conn[v]
  BY <1>s, <1>1, <1>3, AnswersLocked, PlaceNames
<1>5. CASE closing = conn[w]
  BY <1>1, <1>4, <1>5, OwnersKept DEF CountOut
<1>6. CASE closing # conn[w]
  <2>1. Answers(w)
    BY <1>1, <1>6 DEF Answers
  <2> QED BY <1>1, <1>3, <1>4, <1>6, <2>1, OwnersPutBack DEF CountOut
<1> QED BY <1>5, <1>6

LEMMA OwnersTake ==
  ASSUME OwnInv, NEW w \in Workers, Take(w)
  PROVE  Owners'
<1> DEFINE q == connectionQueue_
<1>s. /\ q \in Seq(Conns) /\ worker \in [Workers -> Places]
      /\ conn \in [Workers -> Conns \cup {NoConn}]
  BY DEF OwnInv, TypeInv, WorkersOK
<1>1. CASE UNCHANGED <<q, conn>> /\ (Goto(w, "off") \/ Goto(w, "blocking"))
  <2>1. \A v \in Workers : Answers(v)' => Answers(v) /\ conn'[v] = conn[v]
    BY <1>1, AnswersKept, PlaceNames DEF OwnInv, Take
  <2>2. q' = q /\ socket' = socket
    BY <1>1 DEF Take, connVars
  <2> QED BY <2>1, <2>2, OwnersKept
<1>2. CASE /\ q # <<>> /\ conn' = [conn EXCEPT ![w] = Head(q)] /\ q' = Tail(q)
           /\ Goto(w, "read")
  <2>1. /\ Head(q) \in Elems(q) /\ Distinct(q')
        /\ Elems(q) = Elems(q') \cup {Head(q)} /\ Head(q) \notin Elems(q')
    BY <1>s, <1>2, TailElems DEF OwnInv, Owners
  <2>2. \A v \in Workers : v # w => worker'[v] = worker[v] /\ conn'[v] = conn[v]
    BY <1>s, <1>2, GotoType, PlaceNames
  <2>3. conn'[w] = Head(q) /\ socket' = socket /\ closing' = closing
    BY <1>s, <1>2 DEF Take, connVars
  <2>4. \A v \in Workers : v # w /\ Answers(v)' =>
          Answers(v) /\ conn'[v] = conn[v] /\ conn[v] \notin Elems(q)
    BY <2>2, <2>3 DEF Answers, At, OwnInv, Owners
  <2> QED BY <2>1, <2>3, <2>4 DEF OwnInv, Owners
<1> QED BY <1>1, <1>2 DEF Take

LEMMA OwnersAccept ==
  ASSUME OwnInv, NEW c \in Conns, Accept(c)
  PROVE  Owners'
<1> DEFINE q == connectionQueue_
<1>s. /\ q \in Seq(Conns) /\ socket \in [Conns -> {"none", "open", "closed"}]
  BY DEF OwnInv, TypeInv, SocketsOK
<1>1. socket[c] = "none" /\ q' = Append(q, c) /\ worker' = worker /\ conn' = conn
  BY DEF Accept
<1>2. c \notin Elems(q)
  BY <1>1 DEF OwnInv, Owners
<1>3. Elems(q') = Elems(q) \cup {c} /\ Distinct(q')
  BY <1>s, <1>1, <1>2, AppendElems DEF OwnInv, Owners
<1>4. socket'[c] = "open" /\ \A d \in Conns : d # c => socket'[d] = socket[d]
  BY <1>s DEF Accept
<1>5. Elems(q) \subseteq Conns
  BY <1>s, ElementOfSeq DEF Elems
<1>6. \A v \in Workers : Answers(v)' => Answers(v) /\ conn[v] # c /\ conn[v] \in Conns
  <2>1. closing' = closing
    BY DEF Accept
  <2> QED BY <1>1, <2>1, AnswersBusy DEF Answers, At, OwnInv, Owners
<1> QED BY <1>1, <1>3, <1>4, <1>5, <1>6 DEF OwnInv, Owners

LEMMA OwnersStep == OwnInv /\ [Next]_vars => Owners'
<1> SUFFICES ASSUME OwnInv, [Next]_vars PROVE Owners'
  OBVIOUS
<1>s. TypeInv /\ worker \in [Workers -> Places] /\ conn \in [Workers -> Conns \cup {NoConn}]
  BY DEF OwnInv, TypeInv, WorkersOK
<1>1. ASSUME connectionQueue_' = connectionQueue_, socket' = socket, conn' = conn,
             closing' = closing,
             \A v \in Workers : worker'[v] # worker[v] =>
               worker'[v] \in {"off", "look", "blocking", "waiting"}
      PROVE  Owners'
  BY <1>1, OwnersKept DEF Answers, At
<1>2. ASSUME NEW w \in Workers, Read(w) \/ Send(w) \/ Decide(w) PROVE Owners'
  <2>1. /\ Answers(w) /\ connectionQueue_' = connectionQueue_ /\ socket' = socket
        /\ closing' = closing
    BY <1>2 DEF Read, Send, Decide, At, Answers
  <2>2. CASE LetGo(w)
    <3>1. \A v \in Workers : Answers(v)' => Answers(v) /\ conn'[v] = conn[v]
      BY <1>s, <2>1, <2>2, AnswersKept, PlaceNames DEF LetGo
    <3> QED BY <2>1, <3>1, OwnersKept
  <2>3. CASE /\ conn' = conn
             /\ \/ Goto(w, "hangUp") \/ Goto(w, "send") \/ Goto(w, "decide")
                \/ Goto(w, "requeue") \/ Goto(w, "shut") \/ Goto(w, "resetRequest")
    <3>1. \A v \in Workers : Answers(v)' => Answers(v) /\ conn'[v] = conn[v]
      BY <1>s, <2>1, <2>3, AnswersKept, PlaceNames
    <3> QED BY <2>1, <3>1, OwnersKept
  <2> QED BY <1>2, <2>2, <2>3 DEF Read, ReadNothing, ReadPartly, ReadBad, ReadRequest,
                                  ReadThrows, Send, Decide
<1>3. ASSUME NEW w \in Workers, HangUp(w) \/ Shut(w) PROVE Owners'
  <2>1. /\ Answers(w) /\ connectionQueue_' = connectionQueue_ /\ Closed(conn[w])
        /\ closing' = closing
        /\ LetGo(w) \/ (Goto(w, "resetRequest") /\ conn' = conn)
    BY <1>3 DEF HangUp, Shut, At, Answers
  <2>2. \A v \in Workers : Answers(v)' => Answers(v) /\ conn'[v] = conn[v]
    BY <1>s, <2>1, AnswersKept, PlaceNames DEF LetGo
  <2>3. worker'[w] \in {"look", "resetRequest"}
    BY <1>s, <2>1 DEF LetGo, Goto
  <2>4. ~Answers(w)'
    BY <2>3 DEF Answers, At
  <2> QED BY <2>1, <2>2, <2>4, OwnersClosed
<1>4. ASSUME NEW w \in Workers, ResetRequest(w) \/ ResetResponse(w) PROVE Owners'
  <2>1. /\ connectionQueue_' = connectionQueue_ /\ conn' = conn /\ socket' = socket
        /\ closing' = closing
        /\ Goto(w, "resetResponse") \/ Goto(w, "notify")
    BY <1>4 DEF ResetRequest, ResetResponse
  <2>2. \A v \in Workers : Answers(v)' => Answers(v) /\ conn'[v] = conn[v]
    BY <1>s, <2>1, AnswersKept, PlaceNames
  <2> QED BY <2>1, <2>2, OwnersKept
<1>5. ASSUME NEW w \in Workers, Block(w) \/ SpuriousWake(w) PROVE Owners'
  BY <1>s, <1>1, <1>5 DEF Block, SpuriousWake, Goto, connVars
<1>6. ASSUME NEW w \in Workers, Notify(w) PROVE Owners'
  <2>1. [worker EXCEPT ![w] = "look"] \in [Workers -> Places]
    BY <1>s, PlaceNames
  <2>2. /\ \A v \in Workers : worker'[v] # worker[v] => worker'[v] = "look"
        /\ worker'[w] = "look"
    BY <1>s, <1>6, <2>1, WakeType DEF Notify
  <2>3. \A v \in Workers : v # w => conn'[v] = conn[v]
    BY <1>s, <1>6 DEF Notify
  <2>4. connectionQueue_' = connectionQueue_ /\ socket' = socket /\ closing' = closing
    BY <1>6 DEF Notify, connVars
  <2>5. \A v \in Workers : Answers(v)' => Answers(v) /\ conn'[v] = conn[v]
    BY <2>2, <2>3, <2>4 DEF Answers, At
  <2> QED BY <2>4, <2>5, OwnersKept
<1>7. CASE Start \/ StopNotifyAll
  BY <1>s, <1>1, <1>7 DEF Start, StopNotifyAll, connVars, At
<1>8. CASE AcceptNotify
  BY <1>s, <1>1, <1>8, WakeType DEF AcceptNotify, connVars
<1>9. CASE StopBegin \/ StopEnd \/ AcceptCount \/ AcceptEnd \/ UNCHANGED vars
  BY <1>1, <1>9 DEF StopBegin, StopEnd, AcceptCount, AcceptEnd, vars, connVars
<1>10. ASSUME NEW w \in Workers, Take(w) PROVE Owners'
  BY <1>10, OwnersTake
<1>11. ASSUME NEW w \in Workers, Requeue(w) PROVE Owners'
  BY <1>11, OwnersRequeue
<1>12. ASSUME NEW c \in Conns, Accept(c) PROVE Owners'
  BY <1>12, OwnersAccept
<1>13. ASSUME NEW w \in Workers, CountOut(w) PROVE Owners'
  BY <1>13, OwnersCountOut
<1> QED BY <1>2, <1>3, <1>4, <1>5, <1>6, <1>7, <1>8, <1>9, <1>10, <1>11, <1>12, <1>13
        DEF Next, Stop, Acceptor, Handle

LEMMA InitOwnInv == Init => OwnInv
<1> SUFFICES ASSUME Init PROVE OwnInv
  OBVIOUS
<1>1. connectionQueue_ = <<>> /\ Len(connectionQueue_) = 0
  BY DEF Init
<1>2. Owners
  BY <1>1 DEF Init, Owners, Elems, Distinct, Answers, At
<1>3. Idle /\ MutexOK
  BY DEF Init, Idle, MutexOK, Holds, At
<1> QED BY <1>2, <1>3, InitTypeInv DEF OwnInv

LEMMA OwnInvStep == OwnInv /\ [Next]_vars => OwnInv'
BY TypeStep, IdleStep, MutexStep, OwnersStep DEF OwnInv

LEMMA SpecOwnInv == Spec => []OwnInv
BY InitOwnInv, OwnInvStep, PTL DEF Spec

(* A connection is in the queue or with one worker, never both and never     *)
(* twice, and is open as long as it is: no descriptor is read, written or    *)
(* closed after it was closed.                                             *)
THEOREM HttpSoleOwner == Spec => []SoleOwner
<1>1. OwnInv => SoleOwner BY OwnersSuffice
<1> QED BY <1>1, SpecOwnInv, PTL

---------------------------------------------------------------------------
(* The flags of a connection in the queue.                                  *)

NoneFresh ==
  \A c \in Conns : socket[c] = "none" => ~requestComplete[c] /\ ~responseComplete[c]

Fresh ==
  \A c \in Elems(connectionQueue_) :
    /\ requestComplete[c] => \E w \in Workers : At(w, "resetRequest") /\ conn[w] = c
    /\ responseComplete[c] => \E w \in Workers : Releasing(w) /\ conn[w] = c

FreshInv == OwnInv /\ NoneFresh /\ Fresh

LEMMA FreshSuffices == FreshInv => FreshUnlessReleasing
BY DEF FreshInv, Fresh, FreshUnlessReleasing, Queued, Elems

(* Flags are set only for connections that a worker answers for, which are   *)
(* open.                                                                   *)
LEMMA NoneFreshStep == OwnInv /\ NoneFresh /\ [Next]_vars => NoneFresh'
<1> SUFFICES ASSUME OwnInv, NoneFresh, [Next]_vars PROVE NoneFresh'
  OBVIOUS
<1>s. /\ socket \in [Conns -> {"none", "open", "closed"}]
      /\ requestComplete \in [Conns -> BOOLEAN] /\ responseComplete \in [Conns -> BOOLEAN]
  BY DEF OwnInv, TypeInv, SocketsOK, FlagsOK
<1>1. ASSUME \A c \in Conns : socket'[c] = "none" => socket[c] = "none",
             \A c \in Conns : socket[c] = "none" =>
               (requestComplete'[c] => requestComplete[c])
               /\ (responseComplete'[c] => responseComplete[c])
      PROVE  NoneFresh'
  BY <1>1 DEF NoneFresh
<1>2. ASSUME NEW w \in Workers, Answers(w) PROVE socket[conn[w]] = "open" /\ conn[w] \in Conns
  BY <1>2, AnswersBusy DEF OwnInv, Owners
<1>3. ASSUME NEW c, Closed(c) PROVE \A d \in Conns : socket'[d] = "none" => socket[d] = "none"
  BY <1>s, <1>3 DEF Closed
<1>4. ASSUME NEW w \in Workers, CountOut(w) PROVE NoneFresh'
  BY <1>s, <1>1, <1>4 DEF CountOut
<1>5. ASSUME NEW w \in Workers, Read(w) PROVE NoneFresh'
  <2>1. Answers(w)
    BY <1>5 DEF Read, At, Answers
  <2>2. socket' = socket
    BY <1>5 DEF Read
  <2>3. \A d \in Conns : d # conn[w] => requestComplete'[d] = requestComplete[d]
    BY <1>s, <1>5 DEF Read, ReadNothing, ReadPartly, ReadBad, ReadRequest, ReadThrows
  <2>4. responseComplete' = responseComplete
    BY <1>5 DEF Read
  <2>5. \A d \in Conns : socket[d] = "none" => d # conn[w]
    BY <1>2, <2>1
  <2> QED BY <1>1, <2>2, <2>3, <2>4, <2>5
<1>6. ASSUME NEW w \in Workers, Send(w) PROVE NoneFresh'
  <2>1. Answers(w) /\ socket' = socket /\ requestComplete' = requestComplete
    BY <1>6 DEF Send, At, Answers
  <2>2. \A d \in Conns : d # conn[w] => responseComplete'[d] = responseComplete[d]
    BY <1>s, <1>6 DEF Send
  <2>3. \A d \in Conns : socket[d] = "none" => d # conn[w]
    BY <1>2, <2>1
  <2> QED BY <1>1, <2>1, <2>2, <2>3
<1>7. ASSUME NEW w \in Workers, Decide(w) \/ HangUp(w) \/ Shut(w) PROVE NoneFresh'
  BY <1>1, <1>3, <1>7 DEF Decide, HangUp, Shut
<1>8. ASSUME NEW w \in Workers, Requeue(w) PROVE NoneFresh'
  BY <1>1, <1>3, <1>8 DEF Requeue, RequeueBack, RequeueFront, RequeueClosed,
                          RequeueFull, CloseConnection
<1>9. ASSUME NEW w \in Workers, ResetRequest(w) \/ ResetResponse(w) PROVE NoneFresh'
  BY <1>s, <1>1, <1>9 DEF ResetRequest, ResetResponse
<1>10. ASSUME NEW w \in Workers, Take(w) \/ Block(w) \/ SpuriousWake(w) \/ Notify(w)
      PROVE  NoneFresh'
  BY <1>1, <1>10 DEF Take, Block, SpuriousWake, Notify, connVars
<1>11. CASE \/ Start \/ StopBegin \/ StopNotifyAll \/ StopEnd \/ AcceptNotify
            \/ AcceptCount \/ AcceptEnd \/ UNCHANGED vars
  BY <1>1, <1>11 DEF Start, StopBegin, StopNotifyAll, StopEnd, AcceptNotify, AcceptCount,
                     AcceptEnd, vars, connVars
<1>12. ASSUME NEW c \in Conns, Accept(c) PROVE NoneFresh'
  BY <1>s, <1>1, <1>12 DEF Accept
<1> QED BY <1>4, <1>5, <1>6, <1>7, <1>8, <1>9, <1>10, <1>11, <1>12
        DEF Next, Stop, Acceptor, Handle

(* No connection joins the queue, no flag of a queued one is set, and those  *)
(* who are about to reset flags still are.                                 *)
LEMMA FreshKept ==
  ASSUME FreshInv,
         Elems(connectionQueue_)' \subseteq Elems(connectionQueue_),
         \A c \in Elems(connectionQueue_) :
           /\ requestComplete'[c] => requestComplete[c]
           /\ responseComplete'[c] => responseComplete[c],
         \A v \in Workers : Releasing(v) => worker'[v] = worker[v] /\ conn'[v] = conn[v]
  PROVE  Fresh'
<1> SUFFICES ASSUME NEW c \in Elems(connectionQueue_)'
             PROVE  /\ requestComplete'[c] =>
                         \E w \in Workers : At(w, "resetRequest")' /\ conn'[w] = c
                    /\ responseComplete'[c] =>
                         \E w \in Workers : Releasing(w)' /\ conn'[w] = c
  BY DEF Fresh, Elems
<1>1. c \in Elems(connectionQueue_)
  OBVIOUS
<1>2. ASSUME requestComplete'[c]
      PROVE  \E w \in Workers : At(w, "resetRequest")' /\ conn'[w] = c
  <2>1. PICK w \in Workers : At(w, "resetRequest") /\ conn[w] = c
    BY <1>1, <1>2 DEF FreshInv, Fresh
  <2> QED BY <2>1 DEF At, Releasing
<1>3. ASSUME responseComplete'[c]
      PROVE  \E w \in Workers : Releasing(w)' /\ conn'[w] = c
  <2>1. PICK w \in Workers : Releasing(w) /\ conn[w] = c
    BY <1>1, <1>3 DEF FreshInv, Fresh
  <2> QED BY <2>1 DEF Releasing
<1> QED BY <1>2, <1>3

(* Who is not the one that moves, and is not woken, stays where it is.       *)
LEMMA OthersStay ==
  ASSUME TypeInv, NEW w \in Workers, ~Releasing(w),
         \/ /\ \E place : Goto(w, place)
            /\ conn' = conn \/ \E c : conn' = [conn EXCEPT ![w] = c]
         \/ /\ WakeOne([worker EXCEPT ![w] = "look"])
            /\ conn' = [conn EXCEPT ![w] = NoConn]
  PROVE  \A v \in Workers : Releasing(v) => worker'[v] = worker[v] /\ conn'[v] = conn[v]
<1>s. worker \in [Workers -> Places] /\ conn \in [Workers -> Conns \cup {NoConn}]
  BY DEF TypeInv, WorkersOK
<1>1. CASE /\ \E place : Goto(w, place)
           /\ conn' = conn \/ \E c : conn' = [conn EXCEPT ![w] = c]
  BY <1>s, <1>1 DEF Goto
<1>2. CASE /\ WakeOne([worker EXCEPT ![w] = "look"])
           /\ conn' = [conn EXCEPT ![w] = NoConn]
  <2>1. \A v \in Workers : Releasing(v) => v # w /\ v \notin Waiting
    BY DEF Releasing, Waiting, At
  <2> QED BY <1>s, <1>2, <2>1 DEF WakeOne
<1> QED BY <1>1, <1>2

(* A connection is put in the queue by a worker that is then about to reset  *)
(* its flags.                                                              *)
LEMMA FreshPutBack ==
  ASSUME FreshInv, NEW w \in Workers, ~Releasing(w),
         Goto(w, "resetRequest"), conn' = conn,
         Elems(connectionQueue_)' \subseteq Elems(connectionQueue_) \cup {conn[w]},
         \A c \in Conns : /\ requestComplete'[c] => requestComplete[c]
                          /\ responseComplete'[c] => responseComplete[c]
  PROVE  Fresh'
<1> DEFINE q == connectionQueue_
<1>s. q \in Seq(Conns) /\ worker \in [Workers -> Places]
  BY DEF FreshInv, OwnInv, TypeInv, WorkersOK
<1>1. worker'[w] = "resetRequest" /\ \A v \in Workers : v # w => worker'[v] = worker[v]
  BY <1>s, GotoType, PlaceNames
<1>2. Elems(q) \subseteq Conns
  BY <1>s, ElementOfSeq DEF Elems
<1>3. \A c \in Elems(q) : /\ requestComplete'[c] => requestComplete[c]
                          /\ responseComplete'[c] => responseComplete[c]
  BY <1>2
<1>4. ASSUME NEW c \in Elems(q)
      PROVE  /\ requestComplete'[c] =>
                  \E v \in Workers : At(v, "resetRequest")' /\ conn'[v] = c
             /\ responseComplete'[c] => \E v \in Workers : Releasing(v)' /\ conn'[v] = c
  <2>1. ASSUME requestComplete'[c]
        PROVE  \E v \in Workers : At(v, "resetRequest")' /\ conn'[v] = c
    <3>1. PICK v \in Workers : At(v, "resetRequest") /\ conn[v] = c
      BY <1>3, <2>1 DEF FreshInv, Fresh
    <3>2. v # w
      BY <3>1 DEF At, Releasing
    <3> QED BY <1>1, <3>1, <3>2 DEF At
  <2>2. ASSUME responseComplete'[c]
        PROVE  \E v \in Workers : Releasing(v)' /\ conn'[v] = c
    <3>1. PICK v \in Workers : Releasing(v) /\ conn[v] = c
      BY <1>3, <2>2 DEF FreshInv, Fresh
    <3>2. v # w
      BY <3>1
    <3> QED BY <1>1, <3>1, <3>2 DEF Releasing
  <2> QED BY <2>1, <2>2
<1>5. At(w, "resetRequest")' /\ Releasing(w)' /\ conn'[w] = conn[w]
  BY <1>1 DEF At, Releasing
<1> QED BY <1>4, <1>5 DEF Fresh

LEMMA FreshRequeue ==
  ASSUME FreshInv, NEW w \in Workers, Requeue(w)
  PROVE  Fresh'
<1> DEFINE q == connectionQueue_
<1>s. TypeInv /\ q \in Seq(Conns)
  BY DEF FreshInv, OwnInv, TypeInv
<1>1. /\ Answers(w) /\ ~Releasing(w) /\ conn' = conn
      /\ requestComplete' = requestComplete /\ responseComplete' = responseComplete
  BY DEF Requeue, At, Answers, Releasing
<1>2. conn[w] \in Conns
  BY <1>s, <1>1, AnswersBusy
<1>3. ASSUME Goto(w, "resetRequest"),
             \/ q' = Append(q, conn[w])
             \/ q' = <<conn[w]>> \o q
             \/ q = <<>> /\ q' = <<conn[w]>>
      PROVE  Fresh'
  <2>1. Elems(q') \subseteq Elems(q) \cup {conn[w]}
    <3>1. CASE q' = Append(q, conn[w])
      BY <1>s, <1>2, <3>1, AppendElems
    <3>2. CASE q' = <<conn[w]>> \o q
      BY <1>s, <1>2, <3>2, ConsElems
    <3>3. CASE q = <<>> /\ q' = <<conn[w]>>
      <4>1. Len(q') = 1 /\ q'[1] = conn[w]
        BY <3>3
      <4> QED BY <4>1 DEF Elems
    <3> QED BY <1>3, <3>1, <3>2, <3>3
  <2> QED BY <1>1, <1>3, <2>1, FreshPutBack DEF Elems
<1>4. ASSUME NEW c, CloseConnection(w, c), q' = q \/ (q # <<>> /\ q' = Tail(q))
      PROVE  Fresh'
  <2>1. Elems(q') \subseteq Elems(q)
    BY <1>s, <1>4, TailElems
  <2>2. \A v \in Workers : Releasing(v) => worker'[v] = worker[v] /\ conn'[v] = conn[v]
    BY <1>s, <1>1, <1>4, OthersStay DEF CloseConnection
  <2> QED BY <1>1, <2>1, <2>2, FreshKept DEF Elems
<1> QED BY <1>3, <1>4 DEF Requeue, RequeueBack, RequeueFront, RequeueClosed, RequeueFull

LEMMA FreshCountOut ==
  ASSUME FreshInv, NEW w \in Workers, CountOut(w)
  PROVE  Fresh'
<1> DEFINE q == connectionQueue_
<1>s. /\ TypeInv /\ q \in Seq(Conns)
      /\ requestComplete \in [Conns -> BOOLEAN] /\ responseComplete \in [Conns -> BOOLEAN]
  BY DEF FreshInv, OwnInv, TypeInv, FlagsOK
<1>1. /\ ~Releasing(w) /\ conn' = conn /\ Goto(w, "resetRequest")
      /\ conn[w] \in Conns
  BY <1>s DEF CountOut, At, Releasing, Busy, TypeInv, WorkersOK, Held
<1>2. Elems(q') \subseteq Elems(q) \cup {conn[w]}
  BY <1>s, <1>1, AppendElems DEF CountOut
<1>3. \A c \in Conns : /\ requestComplete'[c] => requestComplete[c]
                       /\ responseComplete'[c] => responseComplete[c]
  BY <1>s DEF CountOut
<1> QED BY <1>1, <1>2, <1>3, FreshPutBack DEF Elems

LEMMA FreshReset ==
  ASSUME FreshInv, NEW w \in Workers, ResetRequest(w) \/ ResetResponse(w)
  PROVE  Fresh'
<1>s. /\ worker \in [Workers -> Places]
      /\ requestComplete \in [Conns -> BOOLEAN] /\ responseComplete \in [Conns -> BOOLEAN]
      /\ conn[w] \in Conns
      /\ connectionQueue_' = connectionQueue_ /\ conn' = conn
  BY DEF FreshInv, OwnInv, TypeInv, WorkersOK, Held, FlagsOK, ResetRequest, ResetResponse,
         At, Busy
<1>1. \A v \in Workers : v # w => worker'[v] = worker[v]
  BY <1>s, GotoType, PlaceNames DEF ResetRequest, ResetResponse
<1>2. CASE ResetRequest(w)
  <2>1. /\ worker[w] = "resetRequest" /\ worker'[w] = "resetResponse"
        /\ ~requestComplete'[conn[w]] /\ responseComplete' = responseComplete
        /\ \A c \in Conns : requestComplete'[c] => requestComplete[c]
    BY <1>s, <1>2 DEF ResetRequest, At, Goto
  <2>2. \A v \in Workers : Releasing(v) => Releasing(v)'
    BY <1>1, <2>1 DEF Releasing
  <2>3. \A v \in Workers : At(v, "resetRequest") /\ conn[v] # conn[w] => At(v, "resetRequest")'
    BY <1>1 DEF At
  <2>4. Elems(connectionQueue_) \subseteq Conns
    BY ElementOfSeq DEF Elems, FreshInv, OwnInv, TypeInv
  <2> QED BY <1>s, <2>1, <2>2, <2>3, <2>4 DEF FreshInv, Fresh, Elems
<1>3. CASE ResetResponse(w)
  <2>1. /\ worker[w] = "resetResponse" /\ worker'[w] = "notify"
        /\ ~responseComplete'[conn[w]] /\ requestComplete' = requestComplete
        /\ \A c \in Conns : responseComplete'[c] => responseComplete[c]
    BY <1>s, <1>3 DEF ResetResponse, At, Goto
  <2>2. \A v \in Workers : Releasing(v) /\ conn[v] # conn[w] => Releasing(v)'
    BY <1>1 DEF Releasing
  <2>3. \A v \in Workers : At(v, "resetRequest") => At(v, "resetRequest")'
    BY <1>1, <2>1 DEF At
  <2>4. Elems(connectionQueue_) \subseteq Conns
    BY ElementOfSeq DEF Elems, FreshInv, OwnInv, TypeInv
  <2> QED BY <1>s, <2>1, <2>2, <2>3, <2>4 DEF FreshInv, Fresh, Elems
<1> QED BY <1>2, <1>3

LEMMA FreshStep == FreshInv /\ [Next]_vars => Fresh'
<1> SUFFICES ASSUME FreshInv, [Next]_vars PROVE Fresh'
  OBVIOUS
<1>s. /\ TypeInv /\ worker \in [Workers -> Places] /\ connectionQueue_ \in Seq(Conns)
      /\ requestComplete \in [Conns -> BOOLEAN] /\ responseComplete \in [Conns -> BOOLEAN]
  BY DEF FreshInv, OwnInv, TypeInv, WorkersOK, FlagsOK
<1>1. ASSUME connectionQueue_' = connectionQueue_,
             requestComplete' = requestComplete, responseComplete' = responseComplete,
             \A v \in Workers : Releasing(v) => worker'[v] = worker[v] /\ conn'[v] = conn[v]
      PROVE  Fresh'
  BY <1>1, FreshKept DEF Elems
<1>2. CASE Start
  <2>1. \A w \in Workers : ~At(w, "resetRequest") /\ ~Releasing(w)
    BY <1>2 DEF Start, FreshInv, OwnInv, Idle, At, Releasing
  <2> QED BY <1>1, <1>2, <2>1 DEF Start, connVars
<1>3. CASE StopNotifyAll
  <2>1. \A v \in Workers : Releasing(v) => worker'[v] = worker[v] /\ conn'[v] = conn[v]
    BY <1>3 DEF StopNotifyAll, Releasing, At
  <2> QED BY <1>1, <1>3, <2>1 DEF StopNotifyAll, connVars
<1>4. CASE AcceptNotify
  <2>1. \A v \in Workers : Releasing(v) => worker'[v] = worker[v] /\ conn'[v] = conn[v]
    BY <1>s, <1>4 DEF AcceptNotify, WakeOne, Waiting, Releasing, At
  <2> QED BY <1>1, <1>4, <2>1 DEF AcceptNotify, connVars
<1>5. CASE StopBegin \/ StopEnd \/ AcceptCount \/ AcceptEnd \/ UNCHANGED vars
  BY <1>1, <1>5 DEF StopBegin, StopEnd, AcceptCount, AcceptEnd, vars, connVars
<1>6. ASSUME NEW c \in Conns, Accept(c) PROVE Fresh'
  <2>1. /\ Elems(connectionQueue_') = Elems(connectionQueue_) \cup {c}
        /\ requestComplete' = requestComplete /\ responseComplete' = responseComplete
        /\ worker' = worker /\ conn' = conn
        /\ ~requestComplete[c] /\ ~responseComplete[c]
    BY <1>s, <1>6, AppendElems DEF Accept, FreshInv, NoneFresh
  <2> QED BY <2>1 DEF FreshInv, Fresh, At, Releasing
<1>7. ASSUME NEW w \in Workers, Take(w) PROVE Fresh'
  <2>1. \A v \in Workers : Releasing(v) => worker'[v] = worker[v] /\ conn'[v] = conn[v]
    <3>1. ~Releasing(w)
      BY <1>7 DEF Take, At, Releasing
    <3>2. /\ \E place : Goto(w, place)
          /\ conn' = conn \/ \E c : conn' = [conn EXCEPT ![w] = c]
      BY <1>7 DEF Take
    <3> QED BY <1>s, <3>1, <3>2, OthersStay
  <2>2. Elems(connectionQueue_') \subseteq Elems(connectionQueue_)
    BY <1>s, <1>7, TailElems DEF Take
  <2>3. requestComplete' = requestComplete /\ responseComplete' = responseComplete
    BY <1>7 DEF Take, connVars
  <2> QED BY <2>1, <2>2, <2>3, FreshKept DEF Elems
<1>8. ASSUME NEW w \in Workers, Read(w) \/ Send(w) PROVE Fresh'
  <2>1. Answers(w) /\ ~Releasing(w) /\ connectionQueue_' = connectionQueue_
    BY <1>8 DEF Read, Send, At, Answers, Releasing
  <2>2. conn[w] \notin Elems(connectionQueue_) /\ conn[w] \in Conns
    BY <1>s, <2>1, AnswersBusy DEF FreshInv, OwnInv, Owners
  <2>3. \A v \in Workers : Releasing(v) => worker'[v] = worker[v] /\ conn'[v] = conn[v]
    <3>1. /\ \E place : Goto(w, place)
          /\ conn' = conn \/ \E c : conn' = [conn EXCEPT ![w] = c]
      BY <1>8 DEF Read, Send, ReadNothing, ReadPartly, ReadBad, ReadRequest, ReadThrows, LetGo
    <3> QED BY <1>s, <2>1, <3>1, OthersStay
  <2>4. \A c \in Conns : c # conn[w] => /\ requestComplete'[c] = requestComplete[c]
                                        /\ responseComplete'[c] = responseComplete[c]
    BY <1>s, <1>8 DEF Read, Send, ReadNothing, ReadPartly, ReadBad, ReadRequest, ReadThrows
  <2>5. Elems(connectionQueue_) \subseteq Conns
    BY <1>s, ElementOfSeq DEF Elems
  <2> QED BY <2>1, <2>2, <2>3, <2>4, <2>5, FreshKept DEF Elems
<1>9. ASSUME NEW w \in Workers,
             \/ HangUp(w) \/ Decide(w) \/ Shut(w) \/ Block(w) \/ SpuriousWake(w)
      PROVE  Fresh'
  <2>1. /\ ~Releasing(w) /\ \E place : Goto(w, place)
        /\ conn' = conn \/ \E c : conn' = [conn EXCEPT ![w] = c]
        /\ connectionQueue_' = connectionQueue_
        /\ requestComplete' = requestComplete /\ responseComplete' = responseComplete
    BY <1>9 DEF HangUp, LetGo, Decide, Shut, Block, SpuriousWake, At, Releasing, connVars
  <2>2. \A v \in Workers : Releasing(v) => worker'[v] = worker[v] /\ conn'[v] = conn[v]
    BY <1>s, <2>1, OthersStay
  <2> QED BY <1>1, <2>1, <2>2
<1>10. ASSUME NEW w \in Workers, Notify(w) PROVE Fresh'
  <2>1. /\ ~Releasing(w)
        /\ connectionQueue_' = connectionQueue_
        /\ requestComplete' = requestComplete /\ responseComplete' = responseComplete
    BY <1>10 DEF Notify, At, Releasing, connVars
  <2>2. \A v \in Workers : Releasing(v) => worker'[v] = worker[v] /\ conn'[v] = conn[v]
    BY <1>s, <1>10, <2>1, OthersStay DEF Notify
  <2> QED BY <1>1, <2>1, <2>2
<1>11. ASSUME NEW w \in Workers, ResetRequest(w) \/ ResetResponse(w) PROVE Fresh'
  BY <1>11, FreshReset
<1>12. ASSUME NEW w \in Workers, Requeue(w) PROVE Fresh'
  BY <1>12, FreshRequeue
<1>13. ASSUME NEW w \in Workers, CountOut(w) PROVE Fresh'
  BY <1>13, FreshCountOut
<1> QED BY <1>2, <1>3, <1>4, <1>5, <1>6, <1>7, <1>8, <1>9, <1>10, <1>11, <1>12, <1>13
        DEF Next, Stop, Acceptor, Handle

LEMMA InitFreshInv == Init => FreshInv
<1> SUFFICES ASSUME Init PROVE FreshInv
  OBVIOUS
<1>1. OwnInv
  BY InitOwnInv
<1>2. Len(connectionQueue_) = 0
  BY DEF Init
<1>3. NoneFresh
  BY DEF Init, NoneFresh
<1>4. Fresh
  BY <1>2 DEF Fresh, Elems
<1> QED BY <1>1, <1>3, <1>4 DEF FreshInv

(* A connection in the queue still shows the flags of its last request only  *)
(* while the worker that put it back is about to reset them.                *)
THEOREM HttpFresh == Spec => []FreshUnlessReleasing
<1>1. Init => FreshInv BY InitFreshInv
<1>2. FreshInv /\ [Next]_vars => FreshInv'
  BY OwnInvStep, NoneFreshStep, FreshStep DEF FreshInv
<1>3. FreshInv => FreshUnlessReleasing BY FreshSuffices
<1> QED BY <1>1, <1>2, <1>3, PTL DEF Spec

---------------------------------------------------------------------------
(* The gauge.                                                              *)

(* The accept thread holds a connection exactly while it has to announce or  *)
(* count it, and lives only between Start and the join in Stop.             *)
AcceptorInv ==
  /\ accepted = NoConn <=> acceptor \in {"off", "poll"}
  /\ acceptor # "off" => running_ \/ stopper = "joinAcceptor"

(* ActiveCountsOpen without the modulus: the one value below zero wraps.    *)
Truth == Cardinality(Counted) - Uncounted
Gauge == activeConnections = IF Truth = -1 THEN Wrap - 1 ELSE Truth

GaugeInv == OwnInv /\ AcceptorInv /\ Gauge

LEMMA Modulus ==
  /\ \A k \in 0..(Wrap - 1) : k % Wrap = k
  /\ Wrap % Wrap = 0
  /\ (-1) % Wrap = Wrap - 1
<1>1. Wrap \in Nat /\ Wrap > 0
  BY WrapType
<1>2. \A k \in 0..(Wrap - 1) : k % Wrap = k
  BY <1>1
<1>3. Wrap % Wrap = 0
  BY <1>1
<1>4. (-1) % Wrap = Wrap - 1
  BY <1>1
<1> QED BY <1>2, <1>3, <1>4

(* There are no more connections to count than connections.                 *)
LEMMA CountedSize ==
  SocketsOK => /\ IsFiniteSet(Counted) /\ Cardinality(Counted) \in Nat
               /\ Cardinality(Counted) <= MaxConns
<1> SUFFICES ASSUME SocketsOK
             PROVE  /\ IsFiniteSet(Counted) /\ Cardinality(Counted) \in Nat
                    /\ Cardinality(Counted) <= MaxConns
  OBVIOUS
<1>1. IsFiniteSet(1..MaxConns) /\ Cardinality(1..MaxConns) = MaxConns
  <2>1. 1 \in Int /\ MaxConns \in Int
    BY WrapType
  <2>2. /\ IsFiniteSet(1..MaxConns)
        /\ Cardinality(1..MaxConns) = IF 1 > MaxConns THEN 0 ELSE MaxConns - 1 + 1
    BY <2>1, FS_Interval
  <2> QED BY <2>2, WrapType
<1>2. Counted \subseteq 1..MaxConns
  BY DEF Counted, Open, Conns, SocketsOK
<1>3. IsFiniteSet(Counted) /\ Cardinality(Counted) <= Cardinality(1..MaxConns)
  BY <1>1, <1>2, FS_Subset
<1>4. Cardinality(Counted) \in Nat
  BY <1>3, FS_CardinalityType
<1> QED BY <1>1, <1>3, <1>4

LEMMA TruthRange ==
  ASSUME SocketsOK
  PROVE  /\ Truth \in -1..(Wrap - 1) /\ Uncounted \in {0, 1}
         /\ Truth = Cardinality(Counted) - Uncounted
<1>1. Uncounted \in {0, 1}
  BY DEF Uncounted
<1> QED BY <1>1, CountedSize, WrapType DEF Truth

LEMMA GaugeSuffices == GaugeInv => ActiveCountsOpen
<1> SUFFICES ASSUME GaugeInv PROVE activeConnections = Truth % Wrap
  BY DEF ActiveCountsOpen, Truth
<1>s. Gauge /\ SocketsOK
  BY DEF GaugeInv, OwnInv, TypeInv
<1>1. CASE Truth = -1
  BY <1>s, <1>1, Modulus DEF Gauge
<1>2. CASE Truth # -1
  <2>1. Truth \in 0..(Wrap - 1)
    BY <1>s, <1>2, TruthRange, WrapType
  <2>2. Truth % Wrap = Truth
    BY <2>1, Modulus
  <2> QED BY <1>s, <1>2, <2>2 DEF Gauge
<1> QED BY <1>1, <1>2

(* A connection is counted out.                                            *)
LEMMA GaugeCountedOut ==
  ASSUME GaugeInv, NEW c \in Counted, Counted' = Counted \ {c}, CountedOut,
         accepted' = accepted
  PROVE  Gauge'
<1>s. Gauge /\ SocketsOK
  BY DEF GaugeInv, OwnInv, TypeInv
<1>1. /\ IsFiniteSet(Counted \ {c})
      /\ Cardinality(Counted \ {c}) = Cardinality(Counted) - 1
  <2>1. /\ IsFiniteSet(Counted \ {c})
        /\ Cardinality(Counted \ {c}) = IF c \in Counted THEN Cardinality(Counted) - 1
                                        ELSE Cardinality(Counted)
    BY <1>s, CountedSize, FS_RemoveElement
  <2> QED BY <2>1
<1>2. Cardinality(Counted \ {c}) \in Nat
  BY <1>1, FS_CardinalityType
<1>3. Cardinality(Counted') = Cardinality(Counted) - 1 /\ Uncounted' = Uncounted
  BY <1>1 DEF Uncounted
<1>4. Cardinality(Counted) >= 1
  BY <1>s, <1>1, <1>2, CountedSize
<1>5. Truth >= 0 /\ Truth \in 0..(Wrap - 1)
  BY <1>s, <1>4, TruthRange, CountedSize, WrapType
<1>6. activeConnections = Truth /\ activeConnections' = (Truth - 1) % Wrap
  BY <1>s, <1>5, TruthRange DEF Gauge, CountedOut, Decremented
<1>7. Truth' = Truth - 1
  BY <1>s, <1>3, TruthRange, CountedSize DEF Truth
<1>8. CASE Truth = 0
  BY <1>6, <1>7, <1>8, Modulus DEF Gauge
<1>9. CASE Truth # 0
  <2>1. Truth - 1 \in 0..(Wrap - 1)
    BY <1>5, <1>9, WrapType
  <2>2. (Truth - 1) % Wrap = Truth - 1
    BY <2>1, Modulus
  <2> QED BY <1>6, <1>7, <2>1, <2>2 DEF Gauge
<1> QED BY <1>8, <1>9

(* Who is counted, one by one.                                             *)
LEMMA CountedMember ==
  \A c : c \in Counted <=>
        \/ /\ c \in Conns /\ socket[c] = "open"
           /\ \A w \in Workers : Leaving(w) => conn[w] # c
        \/ c = closing /\ c # NoConn
BY DEF Counted, Open

LEMMA CountedMemberNext ==
  \A c : c \in Counted' <=>
        \/ /\ c \in Conns /\ socket'[c] = "open"
           /\ \A w \in Workers : Leaving(w)' => conn'[w] # c
        \/ c = closing' /\ c # NoConn
BY DEF Counted, Open

(* No connection is opened or closed, nobody begins or ends to give one up.  *)
LEMMA CountedSame ==
  ASSUME socket' = socket, closing' = closing,
         \A v \in Workers : Leaving(v)' <=> Leaving(v),
         \A v \in Workers : Leaving(v) => conn'[v] = conn[v]
  PROVE  Counted' = Counted
BY CountedMember, CountedMemberNext

(* One worker moves, and neither begins nor ends to give its connection up.   *)
LEMMA LeavingSame ==
  ASSUME TypeInv, NEW w \in Workers, NEW place \in Places, Goto(w, place),
         ~Leaving(w), place \notin {"hangUp", "shut"},
         conn' = conn \/ \E c : conn' = [conn EXCEPT ![w] = c]
  PROVE  /\ \A v \in Workers : Leaving(v)' <=> Leaving(v)
         /\ \A v \in Workers : Leaving(v) => conn'[v] = conn[v]
<1>1. worker'[w] = place /\ \A v \in Workers : v # w => worker'[v] = worker[v]
  BY GotoType DEF TypeInv, WorkersOK
<1>2. \A v \in Workers : v # w => conn'[v] = conn[v]
  BY DEF TypeInv, WorkersOK
<1> QED BY <1>1, <1>2 DEF Leaving

LEMMA AcceptorStep == AcceptorInv /\ [Next]_vars => AcceptorInv'
<1> SUFFICES ASSUME AcceptorInv, [Next]_vars PROVE AcceptorInv'
  OBVIOUS
<1>1. CASE Start \/ StopBegin \/ StopNotifyAll \/ StopEnd \/ UNCHANGED vars
  BY <1>1 DEF Start, StopBegin, StopNotifyAll, StopEnd, vars, AcceptorInv
<1>2. ASSUME NEW w \in Workers, Take(w) \/ Block(w) \/ SpuriousWake(w) \/ Handle(w)
      PROVE  AcceptorInv'
  BY <1>2 DEF Take, Block, SpuriousWake, Handle, Read, HangUp, Send, Decide, Shut,
              Requeue, CountOut, ResetRequest, ResetResponse, Notify, AcceptorInv
<1>3. CASE AcceptNotify \/ AcceptCount \/ AcceptEnd
  BY <1>3 DEF AcceptNotify, AcceptCount, AcceptEnd, AcceptorInv
<1>4. ASSUME NEW c \in Conns, Accept(c) PROVE AcceptorInv'
  <2>1. c # NoConn
    BY WrapType DEF Conns, NoConn
  <2> QED BY <1>4, <2>1 DEF Accept, AcceptorInv
<1> QED BY <1>1, <1>2, <1>3, <1>4 DEF Next, Stop, Acceptor

(* A worker counts its own connection out, and then closes it.              *)
LEMMA GaugeLeaves ==
  ASSUME GaugeInv, NEW w \in Workers, Answers(w), ~Leaving(w), CountedOut,
         Goto(w, "hangUp") \/ Goto(w, "shut"), conn' = conn, socket' = socket,
         closing' = closing, accepted' = accepted
  PROVE  Gauge'
<1>s. TypeInv /\ OwnInv /\ worker \in [Workers -> Places]
  BY DEF GaugeInv, OwnInv, TypeInv, WorkersOK
<1>1. /\ conn[w] \in Conns /\ socket[conn[w]] = "open"
      /\ \A v \in Workers : Answers(v) /\ conn[v] = conn[w] => v = w
  BY <1>s, AnswersBusy DEF OwnInv, Owners
<1>2. \A v \in Workers : Leaving(v) => conn[v] # conn[w]
  BY <1>1 DEF Leaving, Answers
<1>3. conn[w] # closing \/ closing = NoConn
  BY <1>s, <1>1 DEF OwnInv, MutexOK
<1>4. conn[w] \in Counted
  BY <1>1, <1>2, CountedMember
<1>5. Leaving(w)' /\ \A v \in Workers : v # w => (Leaving(v)' <=> Leaving(v))
  <2>1. worker'[w] \in {"hangUp", "shut"} /\ \A v \in Workers : v # w => worker'[v] = worker[v]
    BY <1>s, GotoType, PlaceNames
  <2> QED BY <2>1 DEF Leaving
<1>6. Counted' = Counted \ {conn[w]}
  <2>1. \A c : c \in Counted' <=> c \in Counted /\ c # conn[w]
    <3>1. conn[w] # NoConn
      BY <1>1, WrapType DEF Conns, NoConn
    <3> QED BY <1>3, <1>5, <3>1, CountedMember, CountedMemberNext
  <2> QED BY <2>1
<1> QED BY <1>4, <1>6, GaugeCountedOut

LEMMA GaugeHangUp ==
  ASSUME GaugeInv, NEW w \in Workers, HangUp(w) \/ Shut(w)
  PROVE  Gauge'
<1>s. /\ TypeInv /\ OwnInv /\ worker \in [Workers -> Places]
      /\ socket \in [Conns -> {"none", "open", "closed"}]
      /\ conn \in [Workers -> Conns \cup {NoConn}]
  BY DEF GaugeInv, OwnInv, TypeInv, WorkersOK, SocketsOK
<1>1. /\ Leaving(w) /\ closing' = closing /\ accepted' = accepted
      /\ activeConnections' = activeConnections
  BY DEF HangUp, Shut, At, Leaving
<1>2. worker'[w] \in {"look", "resetRequest"} /\ \A v \in Workers : v # w => worker'[v] = worker[v]
  BY <1>s, GotoType, PlaceNames DEF HangUp, Shut, LetGo
<1>3. ~Leaving(w)' /\ \A v \in Workers : v # w => (Leaving(v)' <=> Leaving(v))
  BY <1>2 DEF Leaving
<1>4. \A v \in Workers : v # w => conn'[v] = conn[v]
  BY <1>s DEF HangUp, Shut, LetGo
<1>5. /\ socket'[conn[w]] = "closed"
      /\ \A c \in Conns : c # conn[w] => socket'[c] = socket[c]
  <2>1. conn[w] \in Conns
    BY <1>s, <1>1, AnswersBusy DEF Leaving, Answers
  <2> QED BY <1>s, <2>1 DEF HangUp, Shut, Closed
<1>6. \A c : c \in Counted' <=> c \in Counted
  BY <1>1, <1>3, <1>4, <1>5, CountedMember, CountedMemberNext
<1> QED BY <1>1, <1>6 DEF GaugeInv, Gauge, Truth, Uncounted

LEMMA GaugeRequeue ==
  ASSUME GaugeInv, NEW w \in Workers, Requeue(w)
  PROVE  Gauge'
<1>s. /\ TypeInv /\ OwnInv /\ Gauge /\ worker \in [Workers -> Places]
      /\ socket \in [Conns -> {"none", "open", "closed"}]
      /\ connectionQueue_ \in Seq(Conns)
  BY DEF GaugeInv, OwnInv, TypeInv, WorkersOK, SocketsOK
<1>1. /\ Answers(w) /\ ~Leaving(w) /\ conn' = conn /\ accepted' = accepted
      /\ activeConnections' = activeConnections
  BY DEF Requeue, At, Answers, Leaving
<1>2. ASSUME Counted' = Counted PROVE Gauge'
  BY <1>s, <1>1, <1>2 DEF Gauge, Truth, Uncounted
<1>3. CASE Goto(w, "resetRequest") /\ UNCHANGED <<socket, closing>>
  BY <1>s, <1>1, <1>2, <1>3, LeavingSame, CountedSame, PlaceNames
<1>4. ASSUME NEW c \in Conns, socket[c] = "open", CloseConnection(w, c),
             \A v \in Workers : Leaving(v) => conn[v] # c
      PROVE  Gauge'
  <2>1. \A v \in Workers : Leaving(v)' <=> Leaving(v)
    BY <1>s, <1>1, <1>4, LeavingSame, PlaceNames DEF CloseConnection
  <2>2. closing = NoConn
    BY <1>s DEF Requeue, MutexFree, Holds, OwnInv, MutexOK, At
  <2>3. /\ closing' = c /\ socket'[c] = "closed" /\ c # NoConn
        /\ \A d \in Conns : d # c => socket'[d] = socket[d]
    BY <1>s, <1>4, WrapType DEF CloseConnection, Closed, Conns, NoConn
  <2>4. \A d : d \in Counted' <=> d \in Counted
    BY <1>1, <1>4, <2>1, <2>2, <2>3, CountedMember, CountedMemberNext
  <2> QED BY <1>2, <2>4
<1>5. CASE CloseConnection(w, conn[w])
  <2>1. conn[w] \in Conns /\ socket[conn[w]] = "open"
    BY <1>s, <1>1, AnswersBusy DEF OwnInv, Owners
  <2>2. \A v \in Workers : Leaving(v) => conn[v] # conn[w]
    BY <1>s, <1>1 DEF Leaving, Answers, OwnInv, Owners
  <2> QED BY <1>4, <1>5, <2>1, <2>2
<1>6. CASE connectionQueue_ # <<>> /\ CloseConnection(w, Head(connectionQueue_))
  <2>1. Head(connectionQueue_) \in Elems(connectionQueue_) /\ Head(connectionQueue_) \in Conns
    BY <1>s, <1>6, TailElems, HeadTailProperties
  <2>2. socket[Head(connectionQueue_)] = "open"
    BY <1>s, <2>1 DEF OwnInv, Owners
  <2>3. \A v \in Workers : Leaving(v) => conn[v] # Head(connectionQueue_)
    BY <1>s, <2>1 DEF Leaving, Answers, OwnInv, Owners
  <2> QED BY <1>4, <1>6, <2>1, <2>2, <2>3
<1> QED BY <1>3, <1>5, <1>6
        DEF Requeue, RequeueBack, RequeueFront, RequeueClosed, RequeueFull

LEMMA GaugeCountOut ==
  ASSUME GaugeInv, NEW w \in Workers, CountOut(w)
  PROVE  Gauge'
<1>s. TypeInv /\ OwnInv
  BY DEF GaugeInv, OwnInv
<1>1. /\ closing # NoConn /\ closing' = NoConn /\ socket' = socket /\ conn' = conn
      /\ socket[closing] = "closed" /\ accepted' = accepted
  BY <1>s DEF CountOut, OwnInv, MutexOK
<1>2. \A v \in Workers : Leaving(v)' <=> Leaving(v)
  <2>1. ~Leaving(w)
    BY DEF CountOut, At, Leaving
  <2> QED BY <1>s, <2>1, LeavingSame, PlaceNames DEF CountOut
<1>3. \A c : c \in Counted' <=> c \in Counted /\ c # closing
  BY <1>1, <1>2, CountedMember, CountedMemberNext
<1>4. closing \in Counted
  BY <1>1, CountedMember
<1>5. Counted' = Counted \ {closing}
  BY <1>3
<1> QED BY <1>1, <1>4, <1>5, GaugeCountedOut DEF CountOut

LEMMA GaugeAcceptor ==
  ASSUME GaugeInv, Acceptor
  PROVE  Gauge'
<1>s. /\ OwnInv /\ AcceptorInv /\ Gauge /\ SocketsOK /\ worker \in [Workers -> Places]
      /\ socket \in [Conns -> {"none", "open", "closed"}]
  BY DEF GaugeInv, OwnInv, TypeInv, SocketsOK, WorkersOK
<1>3. ASSUME NEW c \in Conns, Accept(c) PROVE Gauge'
  <2>0. /\ socket[c] = "none" /\ c # NoConn /\ socket'[c] = "open" /\ closing' = closing
        /\ conn' = conn /\ worker' = worker
        /\ \A d \in Conns : d # c => socket'[d] = socket[d]
    BY <1>s, <1>3, WrapType DEF Accept, Conns, NoConn
  <2>1. \A v \in Workers : Leaving(v) => conn[v] # c
    BY <1>s, <2>0 DEF Leaving, Answers, OwnInv, Owners
  <2>2. c # closing
    BY <1>s, <2>0 DEF OwnInv, MutexOK
  <2>3. c \notin Counted /\ Counted' = Counted \cup {c}
    <3>1. c \notin Counted
      BY <2>0, <2>2, CountedMember
    <3>2. \A v \in Workers : Leaving(v)' <=> Leaving(v)
      BY <2>0 DEF Leaving
    <3>3. \A d : d \in Counted' <=> d \in Counted \/ d = c
      BY <2>0, <2>1, <3>2, CountedMember, CountedMemberNext
    <3> QED BY <3>1, <3>3
  <2>4. Cardinality(Counted \cup {c}) = Cardinality(Counted) + 1
    <3>1. /\ IsFiniteSet(Counted \cup {c})
          /\ Cardinality(Counted \cup {c}) = IF c \in Counted THEN Cardinality(Counted)
                                             ELSE Cardinality(Counted) + 1
      BY <1>s, CountedSize, FS_AddElement
    <3> QED BY <2>3, <3>1
  <2>5. Uncounted = 0 /\ Uncounted' = 1
    <3>1. accepted = NoConn
      BY <1>s, <1>3 DEF Accept, AcceptorInv
    <3>2. accepted' # NoConn
      BY <1>3, <2>0 DEF Accept
    <3> QED BY <3>1, <3>2 DEF Uncounted
  <2>6. Truth' = Truth
    BY <1>s, <2>3, <2>4, <2>5, CountedSize DEF Truth
  <2> QED BY <1>s, <1>3, <2>6 DEF Accept, Gauge
<1>4. CASE AcceptNotify \/ AcceptEnd
  <2>1. /\ socket' = socket /\ closing' = closing /\ conn' = conn /\ accepted' = accepted
        /\ activeConnections' = activeConnections
    BY <1>4 DEF AcceptNotify, AcceptEnd, connVars
  <2>2. \A v \in Workers : Leaving(v)' <=> Leaving(v)
    BY <1>s, <1>4 DEF AcceptNotify, AcceptEnd, WakeOne, Waiting, At, Leaving
  <2>3. Counted' = Counted
    BY <2>1, <2>2, CountedSame
  <2> QED BY <1>s, <2>1, <2>3 DEF Gauge, Truth, Uncounted
<1>5. CASE AcceptCount
  <2>0. Counted' = Counted
    BY <1>5, CountedSame DEF AcceptCount, Leaving
  <2>1. Uncounted = 1 /\ Uncounted' = 0
    BY <1>s, <1>5 DEF AcceptCount, AcceptorInv, Uncounted
  <2>2. Truth' = Truth + 1 /\ Truth' = Cardinality(Counted)
    BY <1>s, <2>0, <2>1, CountedSize DEF Truth
  <2>3. activeConnections' = (activeConnections + 1) % Wrap
    BY <1>5 DEF AcceptCount
  <2>4. CASE Truth = -1
    <3>1. activeConnections + 1 = Wrap
      BY <1>s, <2>4, WrapType DEF Gauge
    <3> QED BY <2>2, <2>3, <2>4, <3>1, Modulus DEF Gauge
  <2>5. CASE Truth # -1
    <3>1. activeConnections = Truth
      BY <1>s, <2>5 DEF Gauge
    <3>2. Truth + 1 \in 0..(Wrap - 1)
      BY <1>s, <2>2, <2>5, TruthRange, CountedSize, WrapType
    <3>3. (Truth + 1) % Wrap = Truth + 1
      BY <3>2, Modulus
    <3>4. Truth' # -1
      BY <1>s, <2>2, CountedSize
    <3> QED BY <2>2, <2>3, <3>1, <3>3, <3>4 DEF Gauge
  <2> QED BY <2>4, <2>5
<1> QED BY <1>3, <1>4, <1>5 DEF Acceptor

LEMMA GaugeStep == GaugeInv /\ [Next]_vars => Gauge'
<1> SUFFICES ASSUME GaugeInv, [Next]_vars PROVE Gauge'
  OBVIOUS
<1>s. TypeInv /\ OwnInv /\ Gauge /\ worker \in [Workers -> Places]
  BY DEF GaugeInv, OwnInv, TypeInv, WorkersOK
<1>1. ASSUME socket' = socket, closing' = closing, accepted' = accepted,
             activeConnections' = activeConnections,
             \A v \in Workers : Leaving(v)' <=> Leaving(v),
             \A v \in Workers : Leaving(v) => conn'[v] = conn[v]
      PROVE  Gauge'
  BY <1>s, <1>1, CountedSame DEF Gauge, Truth, Uncounted
<1>2. ASSUME NEW w \in Workers, Read(w) \/ Decide(w) PROVE Gauge'
  <2>1. /\ Answers(w) /\ ~Leaving(w) /\ accepted' = accepted /\ socket' = socket
        /\ closing' = closing
    BY <1>2 DEF Read, Decide, At, Answers, Leaving
  <2>2. CASE CountedOut /\ conn' = conn /\ (Goto(w, "hangUp") \/ Goto(w, "shut"))
    BY <2>1, <2>2, GaugeLeaves
  <2>3. CASE /\ activeConnections' = activeConnections
             /\ \/ Goto(w, "look") \/ Goto(w, "send") \/ Goto(w, "requeue")
                \/ Goto(w, "resetRequest")
             /\ conn' = conn \/ \E c : conn' = [conn EXCEPT ![w] = c]
    BY <1>s, <1>1, <2>1, <2>3, LeavingSame, PlaceNames
  <2> QED BY <1>2, <2>2, <2>3 DEF Read, ReadNothing, ReadPartly, ReadBad, ReadRequest,
                                  ReadThrows, LetGo, Decide
<1>3. ASSUME NEW w \in Workers,
             Send(w) \/ ResetRequest(w) \/ ResetResponse(w) \/ Block(w) \/ SpuriousWake(w)
      PROVE  Gauge'
  <2>1. /\ ~Leaving(w) /\ conn' = conn /\ accepted' = accepted /\ socket' = socket
        /\ closing' = closing /\ activeConnections' = activeConnections
        /\ \/ Goto(w, "decide") \/ Goto(w, "resetResponse") \/ Goto(w, "notify")
           \/ Goto(w, "waiting") \/ Goto(w, "look")
    BY <1>3 DEF Send, ResetRequest, ResetResponse, Block, SpuriousWake, At, Leaving, connVars
  <2> QED BY <1>s, <1>1, <2>1, LeavingSame, PlaceNames
<1>4. ASSUME NEW w \in Workers, Take(w) PROVE Gauge'
  <2>1. /\ ~Leaving(w) /\ accepted' = accepted /\ socket' = socket
        /\ closing' = closing /\ activeConnections' = activeConnections
        /\ conn' = conn \/ \E c : conn' = [conn EXCEPT ![w] = c]
        /\ Goto(w, "off") \/ Goto(w, "read") \/ Goto(w, "blocking")
    BY <1>4 DEF Take, At, Leaving, connVars
  <2> QED BY <1>s, <1>1, <2>1, LeavingSame, PlaceNames
<1>5. ASSUME NEW w \in Workers, Notify(w) PROVE Gauge'
  <2>1. [worker EXCEPT ![w] = "look"] \in [Workers -> Places]
    BY <1>s, PlaceNames
  <2>2. \A v \in Workers :
          v # w => worker'[v] = worker[v] \/ (v \in Waiting /\ worker'[v] = "look")
    BY <1>s, <1>5 DEF Notify, WakeOne, Waiting
  <2>3. ~Leaving(w) /\ worker'[w] = "look"
    BY <1>s, <1>5, <2>1, WakeType DEF Notify, At, Leaving
  <2>4. \A v \in Workers : Leaving(v)' <=> Leaving(v)
    BY <2>2, <2>3 DEF Waiting, At, Leaving
  <2>5. \A v \in Workers : v # w => conn'[v] = conn[v]
    BY <1>5 DEF Notify, GaugeInv, OwnInv, TypeInv, WorkersOK
  <2> QED BY <1>1, <1>5, <2>3, <2>4, <2>5 DEF Notify, connVars
<1>6. CASE Start
  <2>1. \A v \in Workers : ~Leaving(v) /\ ~Leaving(v)'
    BY <1>s, <1>6 DEF Start, OwnInv, Idle, At, Leaving
  <2> QED BY <1>1, <1>6, <2>1 DEF Start, connVars
<1>7. CASE StopNotifyAll
  <2>1. \A v \in Workers : Leaving(v)' <=> Leaving(v)
    BY <1>7 DEF StopNotifyAll, At, Leaving
  <2> QED BY <1>1, <1>7, <2>1 DEF StopNotifyAll, connVars
<1>8. CASE StopBegin \/ StopEnd \/ UNCHANGED vars
  BY <1>1, <1>8 DEF StopBegin, StopEnd, vars, connVars, Leaving
<1>9. ASSUME NEW w \in Workers, HangUp(w) \/ Shut(w) PROVE Gauge'
  BY <1>9, GaugeHangUp
<1>10. ASSUME NEW w \in Workers, Requeue(w) PROVE Gauge'
  BY <1>10, GaugeRequeue
<1>11. ASSUME NEW w \in Workers, CountOut(w) PROVE Gauge'
  BY <1>11, GaugeCountOut
<1>12. CASE Acceptor
  BY <1>12, GaugeAcceptor
<1> QED BY <1>2, <1>3, <1>4, <1>5, <1>6, <1>7, <1>8, <1>9, <1>10, <1>11, <1>12
        DEF Next, Stop, Handle

LEMMA InitGaugeInv == Init => GaugeInv
<1> SUFFICES ASSUME Init PROVE GaugeInv
  OBVIOUS
<1>1. OwnInv
  BY InitOwnInv
<1>2. Counted = {}
  BY DEF Init, Counted, Open
<1>3. Truth = 0
  BY <1>2, FS_EmptySet DEF Init, Truth, Uncounted
<1>4. AcceptorInv
  BY DEF Init, AcceptorInv
<1>5. Gauge
  BY <1>3 DEF Init, Gauge
<1> QED BY <1>1, <1>4, <1>5 DEF GaugeInv

(* The statistic is the number of connections that are open and that no      *)
(* worker has counted out, with the one that closeConnection is about to      *)
(* count out, less the one the accept thread has queued and not yet counted.  *)
THEOREM HttpActiveCountsOpen == Spec => []ActiveCountsOpen
<1>1. Init => GaugeInv BY InitGaugeInv
<1>2. GaugeInv /\ [Next]_vars => GaugeInv'
  BY OwnInvStep, AcceptorStep, GaugeStep DEF GaugeInv
<1>3. GaugeInv => ActiveCountsOpen BY GaugeSuffices
<1> QED BY <1>1, <1>2, <1>3, PTL DEF Spec

---------------------------------------------------------------------------
(* Who looks after the queue.                                              *)

(* A worker that is about to block holds the mutex since it found nothing.  *)
NoBlocker  == \A w \in Workers : ~At(w, "blocking")
BlockEmpty == ~NoBlocker => connectionQueue_ = <<>>

Watchers  == {w \in Workers : worker[w] \in {"look", "resetRequest", "resetResponse", "notify"}}
Announced == IF acceptor = "notify" THEN 1 ELSE 0

(* ReadyIsWatched, with those who look and those who notify counted as one.  *)
Watched ==
  ~shouldStop_ /\ Waiting # {} => Len(connectionQueue_) <= Cardinality(Watchers) + Announced

WatchInv == TypeInv /\ Idle /\ MutexOK /\ BlockEmpty /\ Watched

LEMMA WatchersSize ==
  /\ IsFiniteSet(Watchers) /\ Cardinality(Watchers) \in Nat
  /\ Cardinality(Watchers) = Cardinality(Looking) + Cardinality(Notifiers)
<1>1. IsFiniteSet(Workers) /\ Looking \subseteq Workers /\ Notifiers \subseteq Workers
  BY HttpServerAssumption DEF Looking, Notifiers
<1>2. IsFiniteSet(Looking) /\ IsFiniteSet(Notifiers)
  BY <1>1, FS_Subset
<1>3. Watchers = Looking \cup Notifiers /\ Looking \cap Notifiers = {}
  BY DEF Watchers, Looking, Notifiers, At
<1>4. /\ IsFiniteSet(Looking \cup Notifiers)
      /\ Cardinality(Looking \cup Notifiers) =
           Cardinality(Looking) + Cardinality(Notifiers) - Cardinality(Looking \cap Notifiers)
  BY <1>2, FS_Union
<1>5. Cardinality(Looking \cap Notifiers) = 0
  BY <1>3, FS_EmptySet
<1>6. Cardinality(Looking) \in Nat /\ Cardinality(Notifiers) \in Nat
  BY <1>2, FS_CardinalityType
<1> QED BY <1>3, <1>4, <1>5, <1>6

LEMMA WatchersSizeNext == (IsFiniteSet(Watchers) /\ Cardinality(Watchers) \in Nat)'
BY WatchersSize, PTL

LEMMA WatchSuffices == WatchInv => ReadyIsWatched
BY WatchersSize DEF WatchInv, Watched, ReadyIsWatched, Announced

LEMMA BlockEmptyStep == TypeInv /\ MutexOK /\ BlockEmpty /\ [Next]_vars => BlockEmpty'
<1> SUFFICES ASSUME TypeInv, MutexOK, BlockEmpty, [Next]_vars PROVE BlockEmpty'
  OBVIOUS
<1>s. worker \in [Workers -> Places]
  BY DEF TypeInv, WorkersOK
<1>m. MutexFree => NoBlocker
  BY DEF MutexFree, NoBlocker, Holds, At
<1>1. ASSUME connectionQueue_' = connectionQueue_ \/ NoBlocker,
             \A v \in Workers : worker'[v] = "blocking" => worker[v] = "blocking"
      PROVE  BlockEmpty'
  BY <1>1 DEF BlockEmpty, NoBlocker, At
<1>2. ASSUME NEW w \in Workers, NEW place, Goto(w, place), place # "blocking",
             connectionQueue_' = connectionQueue_ \/ NoBlocker
      PROVE  BlockEmpty'
  BY <1>s, <1>1, <1>2 DEF Goto
<1>3. ASSUME NEW w \in Workers, Take(w) PROVE BlockEmpty'
  <2>1. CASE Goto(w, "blocking") /\ connectionQueue_ = <<>> /\ UNCHANGED connectionQueue_
    BY <2>1 DEF BlockEmpty
  <2>2. CASE Goto(w, "off") \/ Goto(w, "read")
    BY <1>m, <1>2, <1>3, <2>2 DEF Take
  <2> QED BY <1>3, <2>1, <2>2 DEF Take
<1>4. ASSUME NEW w \in Workers,
             \/ Read(w) \/ HangUp(w) \/ Send(w) \/ Decide(w) \/ Shut(w)
             \/ ResetRequest(w) \/ ResetResponse(w) \/ Block(w) \/ SpuriousWake(w)
      PROVE  BlockEmpty'
  BY <1>2, <1>4 DEF Read, ReadNothing, ReadPartly, ReadBad, ReadRequest, ReadThrows, LetGo,
                    HangUp, Send, Decide, Shut, ResetRequest, ResetResponse, Block,
                    SpuriousWake
<1>5. ASSUME NEW w \in Workers, Notify(w) PROVE BlockEmpty'
  <2>1. [worker EXCEPT ![w] = "look"] \in [Workers -> Places]
    BY <1>s, PlaceNames
  <2>2. \A v \in Workers : worker'[v] # worker[v] => worker'[v] = "look"
    BY <1>s, <1>5, <2>1, WakeType DEF Notify
  <2> QED BY <1>1, <1>5, <2>2 DEF Notify
<1>6. CASE Start \/ StopNotifyAll \/ AcceptNotify
  BY <1>s, <1>1, <1>6, WakeType DEF Start, StopNotifyAll, AcceptNotify, At
<1>7. CASE StopBegin \/ StopEnd \/ AcceptCount \/ AcceptEnd \/ UNCHANGED vars
  BY <1>1, <1>7 DEF StopBegin, StopEnd, AcceptCount, AcceptEnd, vars
<1>8. ASSUME NEW c \in Conns, Accept(c) PROVE BlockEmpty'
  BY <1>m, <1>1, <1>8 DEF Accept
<1>9. ASSUME NEW w \in Workers, Requeue(w) PROVE BlockEmpty'
  BY <1>m, <1>2, <1>9 DEF Requeue, RequeueBack, RequeueFront, RequeueClosed, RequeueFull,
                          CloseConnection
<1>10. ASSUME NEW w \in Workers, CountOut(w) PROVE BlockEmpty'
  <2>1. NoBlocker
    BY <1>10 DEF CountOut, MutexOK, NoBlocker, Holds, At
  <2> QED BY <1>2, <1>10, <2>1 DEF CountOut
<1> QED BY <1>3, <1>4, <1>5, <1>6, <1>7, <1>8, <1>9, <1>10 DEF Next, Stop, Acceptor, Handle

(* No watcher is lost, and nothing is queued.                              *)
LEMMA WatchedKept ==
  ASSUME WatchInv, shouldStop_' = shouldStop_, Waiting' \subseteq Waiting,
         Watchers \subseteq Watchers', connectionQueue_' = connectionQueue_,
         acceptor' = acceptor
  PROVE  Watched'
<1>1. Cardinality(Watchers) <= Cardinality(Watchers')
  BY WatchersSize, WatchersSizeNext, FS_Subset
<1>2. Announced' = Announced /\ Announced \in Nat
  BY DEF Announced
<1>3. Len(connectionQueue_) \in Nat
  BY LenProperties DEF WatchInv, TypeInv
<1> QED BY <1>1, <1>2, <1>3, WatchersSize, WatchersSizeNext DEF WatchInv, Watched

(* A worker moves, not to wait and not from where it watches, unless it goes *)
(* on watching.                                                            *)
LEMMA WatchersKept ==
  ASSUME TypeInv, NEW w \in Workers, NEW place \in Places, Goto(w, place),
         place # "waiting",
         w \notin Watchers
           \/ place \in {"look", "resetRequest", "resetResponse", "notify"}
  PROVE  Waiting' \subseteq Waiting /\ Watchers \subseteq Watchers'
<1>1. worker'[w] = place /\ \A v \in Workers : v # w => worker'[v] = worker[v]
  BY GotoType DEF TypeInv, WorkersOK
<1> QED BY <1>1 DEF Waiting, Watchers, At

(* One more watcher makes up for one more connection.                      *)
LEMMA WatcherAdded ==
  ASSUME NEW w, w \notin Watchers, Watchers' = Watchers \cup {w}
  PROVE  Cardinality(Watchers') = Cardinality(Watchers) + 1
<1>1. /\ IsFiniteSet(Watchers \cup {w})
      /\ Cardinality(Watchers \cup {w}) = IF w \in Watchers THEN Cardinality(Watchers)
                                          ELSE Cardinality(Watchers) + 1
  BY WatchersSize, FS_AddElement
<1> QED BY <1>1

LEMMA WatchedTake ==
  ASSUME WatchInv, NEW w \in Workers, Take(w)
  PROVE  Watched'
<1> DEFINE q == connectionQueue_
<1>s. worker \in [Workers -> Places] /\ q \in Seq(Conns)
  BY DEF WatchInv, TypeInv, WorkersOK
<1>1. CASE shouldStop_
  BY <1>1 DEF Take, Watched
<1>2. CASE ~shouldStop_ /\ q # <<>> /\ q' = Tail(q) /\ Goto(w, "read")
  <2>1. worker'[w] = "read" /\ \A v \in Workers : v # w => worker'[v] = worker[v]
    BY <1>s, <1>2, GotoType, PlaceNames
  <2>2. w \in Watchers /\ Watchers' = Watchers \ {w} /\ Waiting' = Waiting
    BY <2>1 DEF Take, Watchers, Waiting, At
  <2>3. /\ IsFiniteSet(Watchers \ {w})
        /\ Cardinality(Watchers \ {w}) = IF w \in Watchers THEN Cardinality(Watchers) - 1
                                         ELSE Cardinality(Watchers)
    BY WatchersSize, FS_RemoveElement
  <2>4. Len(q') = Len(q) - 1 /\ Len(q) \in Nat
    BY <1>s, <1>2, HeadTailProperties, LenProperties
  <2>5. Announced' = Announced /\ Announced \in Nat /\ shouldStop_' = shouldStop_
    BY DEF Take, Announced
  <2>6. Cardinality(Watchers') = Cardinality(Watchers) - 1
    BY <2>2, <2>3
  <2> QED BY <2>2, <2>4, <2>5, <2>6, WatchersSize DEF WatchInv, Watched
<1>3. CASE q = <<>> /\ q' = q
  <2>1. Len(q') = 0
    BY <1>3
  <2>2. Announced' \in Nat
    BY DEF Announced
  <2> QED BY <2>1, <2>2, WatchersSizeNext DEF Watched
<1> QED BY <1>1, <1>2, <1>3 DEF Take

LEMMA WatchedAcceptor ==
  ASSUME WatchInv, Acceptor
  PROVE  Watched'
<1> DEFINE q == connectionQueue_
<1>s. worker \in [Workers -> Places] /\ q \in Seq(Conns) /\ Len(q) \in Nat
  BY LenProperties DEF WatchInv, TypeInv, WorkersOK
<1>1. ASSUME NEW c \in Conns, Accept(c) PROVE Watched'
  <2>1. /\ Announced = 0 /\ Announced' = 1 /\ shouldStop_' = shouldStop_
        /\ Watchers' = Watchers /\ Waiting' = Waiting
    BY <1>1 DEF Accept, Announced, Watchers, Waiting, At
  <2>2. Len(q') = Len(q) + 1
    BY <1>s, <1>1, AppendProperties DEF Accept
  <2> QED BY <1>s, <2>1, <2>2, WatchersSize DEF WatchInv, Watched
<1>2. CASE AcceptNotify
  <2>1. /\ Announced = 1 /\ Announced' = 0 /\ shouldStop_' = shouldStop_ /\ q' = q
    BY <1>2 DEF AcceptNotify, Announced
  <2>2. CASE Waiting = {} /\ worker' = worker
    <3>1. Waiting' = {}
      BY <2>2 DEF Waiting, At
    <3> QED BY <3>1 DEF Watched
  <2>3. ASSUME NEW w \in Waiting, worker' = [worker EXCEPT ![w] = "look"]
        PROVE  Watched'
    <3>1. /\ w \in Workers /\ w \notin Watchers
          /\ Watchers' = Watchers \cup {w} /\ Waiting # {}
      BY <1>s, <2>3 DEF Watchers, Waiting, At
    <3>2. Cardinality(Watchers') = Cardinality(Watchers) + 1
      BY <3>1, WatcherAdded
    <3> QED BY <1>s, <2>1, <3>1, <3>2, WatchersSize DEF WatchInv, Watched
  <2> QED BY <1>2, <2>2, <2>3 DEF AcceptNotify, WakeOne
<1>3. CASE AcceptCount \/ AcceptEnd
  <2>1. /\ Announced = 0 /\ Announced' = 0 /\ shouldStop_' = shouldStop_ /\ q' = q
        /\ Watchers' = Watchers /\ Waiting' = Waiting
    BY <1>3 DEF AcceptCount, AcceptEnd, Announced, Watchers, Waiting, At
  <2> QED BY <2>1 DEF WatchInv, Watched
<1> QED BY <1>1, <1>2, <1>3 DEF Acceptor

(* A worker puts a connection in the queue, and will notify.                *)
LEMMA WatchedPutBack ==
  ASSUME WatchInv, NEW w \in Workers, w \notin Watchers, ~At(w, "waiting"),
         Goto(w, "resetRequest"), shouldStop_' = shouldStop_, acceptor' = acceptor,
         Len(connectionQueue_') <= Len(connectionQueue_) + 1,
         connectionQueue_' \in Seq(Conns)
  PROVE  Watched'
<1>s. /\ worker \in [Workers -> Places] /\ Len(connectionQueue_) \in Nat
      /\ Len(connectionQueue_') \in Nat
  BY LenProperties DEF WatchInv, TypeInv, WorkersOK
<1>1. worker'[w] = "resetRequest" /\ \A v \in Workers : v # w => worker'[v] = worker[v]
  BY <1>s, GotoType, PlaceNames
<1>2. Watchers' = Watchers \cup {w} /\ Waiting' = Waiting
  BY <1>1 DEF Watchers, Waiting, At
<1>3. Cardinality(Watchers') = Cardinality(Watchers) + 1
  BY <1>2, WatcherAdded
<1>4. Announced' = Announced /\ Announced \in Nat
  BY DEF Announced
<1> QED BY <1>s, <1>2, <1>3, <1>4, WatchersSize DEF WatchInv, Watched

LEMMA WatchedRequeue ==
  ASSUME WatchInv, NEW w \in Workers, Requeue(w)
  PROVE  Watched'
<1> DEFINE q == connectionQueue_
<1>s. /\ TypeInv /\ q \in Seq(Conns) /\ Len(q) \in Nat
      /\ conn[w] \in Conns
  BY LenProperties DEF WatchInv, TypeInv, WorkersOK, Held, Busy, Requeue, At
<1>1. /\ w \notin Watchers /\ ~At(w, "waiting")
      /\ shouldStop_' = shouldStop_ /\ acceptor' = acceptor
  BY DEF Requeue, Watchers, At
<1>2. q' \in Seq(Conns)
  BY QueueStep DEF WatchInv, Next, Handle
<1>3. CASE Goto(w, "resetRequest")
  <2>1. Len(q') <= Len(q) + 1
    <3>1. CASE q' = Append(q, conn[w])
      BY <1>s, <3>1, AppendProperties
    <3>2. CASE q' = <<conn[w]>> \o q
      <4>1. <<conn[w]>> \in Seq(Conns) /\ Len(<<conn[w]>>) = 1
        BY <1>s
      <4> QED BY <1>s, <3>2, <4>1, ConcatProperties
    <3>3. CASE q' = <<conn[w]>>
      BY <1>s, <3>3
    <3>4. ~Goto(w, "countOut")
      BY <1>3 DEF Goto, WatchInv, TypeInv, WorkersOK
    <3> QED BY <3>1, <3>2, <3>3, <3>4 DEF Requeue, RequeueBack, RequeueFront,
               RequeueClosed, RequeueFull, CloseConnection
  <2> QED BY <1>1, <1>2, <1>3, <2>1, WatchedPutBack
<1>4. CASE Goto(w, "countOut")
  <2>1. Waiting' \subseteq Waiting /\ Watchers \subseteq Watchers'
    BY <1>s, <1>1, <1>4, WatchersKept, PlaceNames
  <2>2. Cardinality(Watchers) <= Cardinality(Watchers')
    BY <2>1, WatchersSize, WatchersSizeNext, FS_Subset
  <2>3. Len(q') <= Len(q) /\ Len(q') \in Nat
    <3>1. q' = q \/ (q # <<>> /\ q' = Tail(q))
      <4>1. ~Goto(w, "resetRequest")
        BY <1>4 DEF Goto, WatchInv, TypeInv, WorkersOK
      <4> QED BY <4>1 DEF Requeue, RequeueBack, RequeueFront, RequeueClosed, RequeueFull
    <3> QED BY <1>s, <3>1, HeadTailProperties, LenProperties
  <2>4. Announced' = Announced /\ Announced \in Nat
    BY <1>1 DEF Announced
  <2> QED BY <1>s, <1>1, <2>1, <2>2, <2>3, <2>4, WatchersSize, WatchersSizeNext
          DEF WatchInv, Watched
<1> QED BY <1>3, <1>4 DEF Requeue, RequeueBack, RequeueFront, RequeueClosed, RequeueFull,
                          CloseConnection

LEMMA WatchedCountOut ==
  ASSUME WatchInv, NEW w \in Workers, CountOut(w)
  PROVE  Watched'
<1> DEFINE q == connectionQueue_
<1>s. q \in Seq(Conns) /\ Len(q) \in Nat /\ conn[w] \in Conns
  BY LenProperties DEF WatchInv, TypeInv, WorkersOK, Held, Busy, CountOut, At
<1>1. /\ w \notin Watchers /\ ~At(w, "waiting") /\ Goto(w, "resetRequest")
      /\ shouldStop_' = shouldStop_ /\ acceptor' = acceptor
  BY DEF CountOut, Watchers, At
<1>2. q' \in Seq(Conns) /\ Len(q') <= Len(q) + 1
  BY <1>s, AppendProperties DEF CountOut
<1> QED BY <1>1, <1>2, WatchedPutBack

LEMMA WatchedStep == WatchInv /\ [Next]_vars => Watched'
<1> SUFFICES ASSUME WatchInv, [Next]_vars PROVE Watched'
  OBVIOUS
<1>s. TypeInv /\ worker \in [Workers -> Places]
  BY DEF WatchInv, TypeInv, WorkersOK
<1>1. CASE Start
  <2>1. Waiting' = {}
    BY <1>1 DEF Start, Waiting, At
  <2> QED BY <2>1 DEF Watched
<1>2. CASE StopBegin
  BY <1>2 DEF StopBegin, Watched
<1>3. CASE StopNotifyAll
  <2>1. Waiting' = {}
    BY <1>3 DEF StopNotifyAll, Waiting, At
  <2> QED BY <2>1 DEF Watched
<1>4. CASE StopEnd \/ UNCHANGED vars
  BY <1>4, WatchedKept DEF StopEnd, vars, Watchers, Waiting, At
<1>5. ASSUME NEW w \in Workers, NEW place \in Places, Goto(w, place), place # "waiting",
             w \notin Watchers
               \/ place \in {"look", "resetRequest", "resetResponse", "notify"},
             UNCHANGED <<shouldStop_, connectionQueue_, acceptor>>
      PROVE  Watched'
  BY <1>s, <1>5, WatchersKept, WatchedKept
<1>6. ASSUME NEW w \in Workers, Read(w) \/ HangUp(w) \/ Send(w) \/ Decide(w) \/ Shut(w)
      PROVE  Watched'
  <2>1. w \notin Watchers
    BY <1>6 DEF Read, HangUp, Send, Decide, Shut, At, Watchers
  <2>2. /\ UNCHANGED <<shouldStop_, connectionQueue_, acceptor>>
        /\ \/ Goto(w, "look") \/ Goto(w, "send") \/ Goto(w, "decide") \/ Goto(w, "requeue")
           \/ Goto(w, "hangUp") \/ Goto(w, "shut") \/ Goto(w, "resetRequest")
    BY <1>6 DEF Read, ReadNothing, ReadPartly, ReadBad, ReadRequest, ReadThrows, LetGo,
                HangUp, Send, Decide, Shut
  <2> QED BY <1>5, <2>1, <2>2, PlaceNames
<1>7. ASSUME NEW w \in Workers, ResetRequest(w) \/ ResetResponse(w) \/ SpuriousWake(w)
      PROVE  Watched'
  BY <1>5, <1>7, PlaceNames DEF ResetRequest, ResetResponse, SpuriousWake
<1>8. ASSUME NEW w \in Workers, Block(w) PROVE Watched'
  <2>1. ~NoBlocker
    BY <1>8 DEF Block, NoBlocker
  <2>2. Len(connectionQueue_') = 0
    BY <1>8, <2>1 DEF Block, WatchInv, BlockEmpty
  <2>3. Announced' \in Nat
    BY DEF Announced
  <2> QED BY <2>2, <2>3, WatchersSizeNext DEF Watched
<1>9. ASSUME NEW w \in Workers, Notify(w) PROVE Watched'
  <2>1. /\ [worker EXCEPT ![w] = "look"] \in [Workers -> Places]
        /\ [worker EXCEPT ![w] = "look"][w] = "look"
    BY <1>s, PlaceNames
  <2>2. \A v \in Workers : worker'[v] = "look" \/ worker'[v] = worker[v]
    BY <1>s, <1>9, <2>1, WakeType DEF Notify
  <2>3. Waiting' \subseteq Waiting /\ Watchers \subseteq Watchers'
    BY <2>2 DEF Waiting, Watchers, At
  <2>4. UNCHANGED <<shouldStop_, connectionQueue_, acceptor>>
    BY <1>9 DEF Notify
  <2> QED BY <2>3, <2>4, WatchedKept
<1>10. ASSUME NEW w \in Workers, Take(w) PROVE Watched'
  BY <1>10, WatchedTake
<1>11. ASSUME NEW w \in Workers, Requeue(w) PROVE Watched'
  BY <1>11, WatchedRequeue
<1>12. CASE Acceptor
  BY <1>12, WatchedAcceptor
<1>13. ASSUME NEW w \in Workers, CountOut(w) PROVE Watched'
  BY <1>13, WatchedCountOut
<1> QED BY <1>1, <1>2, <1>3, <1>4, <1>6, <1>7, <1>8, <1>9, <1>10, <1>11, <1>12, <1>13
        DEF Next, Stop, Handle

LEMMA InitWatchInv == Init => WatchInv
<1> SUFFICES ASSUME Init PROVE WatchInv
  OBVIOUS
<1>1. TypeInv /\ Idle /\ MutexOK
  BY InitOwnInv DEF OwnInv
<1>2. BlockEmpty
  BY DEF Init, BlockEmpty
<1>3. Waiting = {}
  BY DEF Init, Waiting, At
<1> QED BY <1>1, <1>2, <1>3 DEF WatchInv, Watched

(* While the server runs and a worker sleeps, each queued connection has a   *)
(* worker about to look or a thread about to wake one: no wake-up is lost.   *)
THEOREM HttpReadyIsWatched == Spec => []ReadyIsWatched
<1>1. Init => WatchInv BY InitWatchInv
<1>2. WatchInv /\ [Next]_vars => WatchInv'
  BY TypeStep, IdleStep, MutexStep, BlockEmptyStep, WatchedStep DEF WatchInv
<1>3. WatchInv => ReadyIsWatched BY WatchSuffices
<1> QED BY <1>1, <1>2, <1>3, PTL DEF Spec
=============================================================================
