------------------------------ MODULE Promise ------------------------------
(***************************************************************************)
(* PromiseObject and its static microtask queue, as the engine's           *)
(* runtime/builtins/promise/promise.cpp implements them: promises,         *)
(* reactions, adoption of thenables, `finally`, the queue and the loop     *)
(* that drains it.                                                         *)
(*                                                                         *)
(* A thread runs C++ frames and JavaScript frames.  Its stack is a         *)
(* sequence, innermost frame first, and an empty stack is the embedder's   *)
(* own code, which may run a script or drain the queue.  One step is one   *)
(* critical section: what the code does under one mutex is atomic, what    *)
(* it does after releasing it is a later step of the same thread, and any  *)
(* other thread may step in between.                                       *)
(***************************************************************************)
EXTENDS Integers, Sequences, FiniteSets

CONSTANTS
  MaxPromises,      (* size of the pool of promises; bounds the model       *)
  Threads,          (* threads that run scripts or drain the queue          *)
  Free,             (* "no thread", the owner of an unlocked mutex          *)
  Plain,            (* values without a callable `then`                     *)
  Throwing,         (* objects whose `then` getter throws                   *)
  Foreign,          (* objects with a `then` method of their own            *)
  Undefined,        (* the JavaScript value undefined                       *)
  TypeErr,          (* the TypeError of a promise resolved with itself      *)
  ScriptValues,     (* values scripts pass to resolve and return            *)
  Reasons,          (* values scripts reject with and throw                 *)
  ScriptHandlers    (* the <<onFulfilled, onRejected>> pairs scripts use    *)

Promises  == 1..MaxPromises
NoPromise == 0
Value     == Plain \cup Throwing \cup Foreign \cup Promises

(* A handler is a JavaScript function, one of finally_'s two wrappers, one  *)
(* of the two native functions made for an adopted promise, or no function. *)
Handler == [fn : {"none", "js", "finally"}, on : {NoPromise}]
           \cup [fn : {"resolve", "reject"}, on : Promises]
None          == [fn |-> "none",    on |-> NoPromise]
Js            == [fn |-> "js",      on |-> NoPromise]
Finally       == [fn |-> "finally", on |-> NoPromise]
ResolveFn(p)  == [fn |-> "resolve", on |-> p]
RejectFn(p)   == [fn |-> "reject",  on |-> p]

ASSUME PromiseAssumption ==
  /\ MaxPromises \in Nat \ {0}
  /\ Undefined \in Plain
  /\ TypeErr \in Plain
  /\ Free \notin Threads
  /\ Plain \cap (Throwing \cup Foreign \cup Promises) = {}
  /\ ScriptValues \subseteq Value
  /\ Reasons \subseteq Value
  /\ ScriptHandlers \subseteq {None, Js, Finally} \X {None, Js, Finally}

VARIABLES
  created,    (* promises 1..created exist, numbered as they are made       *)
  state,      (* m_state, "Unborn" before the constructor runs              *)
  result,     (* m_result                                                   *)
  reactions,  (* m_reactions, one record for each pair addReaction pushes   *)
  lock,       (* owner of m_mutex between two steps                         *)
  queue,      (* s_microtaskQueue                                           *)
  stack,      (* frames of each thread, innermost first                     *)
  exposed,    (* promises whose resolve and reject a script can call        *)
  awaits,     (* history: the promise onFinally returned for a promise      *)
  budget      (* promises that scripts may still cause to be made; a bound  *)

vars == <<created, state, result, reactions, lock, queue, stack, exposed,
          awaits, budget>>

---------------------------------------------------------------------------
(* Records.                                                                *)

Reaction == [onFulfilled : Handler, onRejected : Handler, to : Promises]

(* A microtask.  "then" is the call of a thenable's method that resolve     *)
(* queues; src is the thenable and `to` the promise that adopts it.         *)
Thenable == Promises \cup Foreign
Job == [kind : {"fulfilled", "rejected"}, src : Promises,
        handler : Handler, to : Promises]
       \cup [kind : {"then"}, src : Thenable, handler : {None}, to : Promises]

CallFrame    == [kind : {"resolve", "reject"}, on : Promises, value : Value]
JobsFrame    == [kind : {"enqueue", "batch"}, jobs : Seq(Job)]
ScriptFrame  == [kind : {"script"}, ret : Promises, thr : Promises,
                 wrapper : {"no", "fulfilled", "rejected"}, arg : Value]
                \cup [kind : {"script"}, ret : {NoPromise}, thr : Promises,
                      wrapper : {"no"}, arg : Value]
Frame        == CallFrame \cup JobsFrame \cup ScriptFrame

Call(fn, p, v) == [kind |-> fn, on |-> p, value |-> v]
Script(ret, thr, wrapper, arg) ==
  [kind |-> "script", ret |-> ret, thr |-> thr, wrapper |-> wrapper,
   arg |-> arg]
Jobs(kind, js) == [kind |-> kind, jobs |-> js]

ReactionJob(kind, p, h, q) == [kind |-> kind, src |-> p, handler |-> h, to |-> q]
ThenJob(v, p)              == [kind |-> "then", src |-> v, handler |-> None, to |-> p]

Existing == 1..created

Running(t, kind) == stack[t] # <<>> /\ Head(stack[t]).kind = kind
InScript(t)      == stack[t] = <<>> \/ Running(t, "script")

Replace(t, frames) == stack' = [stack EXCEPT ![t] = frames \o Tail(@)]
Push(t, frame)     == stack' = [stack EXCEPT ![t] = <<frame>> \o @]

(* How many promises the adoption of v may cost.                            *)
Cost(v) == IF v \in Thenable THEN 1 ELSE 0

---------------------------------------------------------------------------
Init ==
  /\ created = 0
  /\ state = [p \in Promises |-> "Unborn"]
  /\ result = [p \in Promises |-> Undefined]
  /\ reactions = [p \in Promises |-> <<>>]
  /\ lock = [p \in Promises |-> Free]
  /\ queue = <<>>
  /\ stack = [t \in Threads |-> <<>>]
  /\ exposed = {}
  /\ awaits = [p \in Promises |-> NoPromise]
  /\ budget = MaxPromises

---------------------------------------------------------------------------
(* What scripts call.                                                      *)

(* new Promise(executor): the executor runs at once, with resolve and      *)
(* reject in hand; if it throws, the constructor rejects the promise.      *)
NewPromise(t) ==
  /\ InScript(t)
  /\ budget >= 1 /\ created < MaxPromises
  /\ created' = created + 1
  /\ state' = [state EXCEPT ![created + 1] = "Pending"]
  /\ exposed' = exposed \cup {created + 1}
  /\ budget' = budget - 1
  /\ Push(t, Script(NoPromise, created + 1, "no", Undefined))
  /\ UNCHANGED <<result, reactions, lock, queue, awaits>>

CallResolve(t, p, v) ==
  /\ InScript(t)
  /\ p \in exposed
  /\ v \in Promises => v \in Existing
  /\ budget >= Cost(v)
  /\ budget' = budget - Cost(v)
  /\ Push(t, Call("resolve", p, v))
  /\ UNCHANGED <<created, state, result, reactions, lock, queue, exposed, awaits>>

CallReject(t, p, e) ==
  /\ InScript(t)
  /\ p \in exposed
  /\ e \in Promises => e \in Existing
  /\ Push(t, Call("reject", p, e))
  /\ UNCHANGED <<created, state, result, reactions, lock, queue, exposed,
                 awaits, budget>>

(* Mutation: then() keeps the reactions without looking at the state.      *)
RegisterAlways(p, onFulfilled, onRejected) ==
  /\ lock[p] = Free
  /\ created < MaxPromises
  /\ created' = created + 1
  /\ state' = [state EXCEPT ![created + 1] = "Pending"]
  /\ reactions' = [reactions EXCEPT ![p] =
       Append(@, [onFulfilled |-> onFulfilled,
                  onRejected |-> onRejected, to |-> created + 1])]
  /\ UNCHANGED queue

(* Mutation: the reaction is pushed without its derived promise.           *)
RegisterUnlinked(p, onFulfilled, onRejected) ==
  /\ lock[p] = Free
  /\ created < MaxPromises
  /\ created' = created + 1
  /\ state' = [state EXCEPT ![created + 1] = "Pending"]
  /\ state[p] = "Pending"
  /\ reactions' = [reactions EXCEPT ![p] =
       Append(@, [onFulfilled |-> onFulfilled,
                  onRejected |-> onRejected, to |-> NoPromise])]
  /\ UNCHANGED queue

(* then(): makes the derived promise, then under m_mutex either keeps the  *)
(* pair of reactions or, if p is settled already, queues its job.          *)
Register(p, onFulfilled, onRejected) ==
  /\ lock[p] = Free
  /\ created < MaxPromises
  /\ created' = created + 1
  /\ state' = [state EXCEPT ![created + 1] = "Pending"]
  /\ \/ /\ state[p] = "Pending"
        /\ reactions' = [reactions EXCEPT ![p] =
             Append(@, [onFulfilled |-> onFulfilled,
                        onRejected |-> onRejected, to |-> created + 1])]
        /\ UNCHANGED queue
     \/ /\ state[p] = "Fulfilled"
        /\ queue' = Append(queue,
             ReactionJob("fulfilled", p, onFulfilled, created + 1))
        /\ UNCHANGED reactions
     \/ /\ state[p] = "Rejected"
        /\ queue' = Append(queue,
             ReactionJob("rejected", p, onRejected, created + 1))
        /\ UNCHANGED reactions

CallThen(t, p, pair) ==
  /\ InScript(t)
  /\ p \in Existing
  /\ budget >= 1
  /\ budget' = budget - 1
  /\ Register(p, pair[1], pair[2])
  /\ UNCHANGED <<result, lock, stack, exposed, awaits>>

---------------------------------------------------------------------------
(* resolve() and reject().                                                 *)

(* Mutations of Settle: the onFulfilled jobs whatever the outcome; both jobs *)
(* of each pair, isReject ignored; the reactions dropped.                  *)
SettleFulfilledJobs(t, p, how, v) ==
  /\ state' = [state EXCEPT ![p] = how]
  /\ result' = [result EXCEPT ![p] = v]
  /\ reactions' = [reactions EXCEPT ![p] = <<>>]
  /\ Replace(t, <<Jobs("enqueue",
       [i \in 1..Len(reactions[p]) |->
          ReactionJob("fulfilled", p, reactions[p][i].onFulfilled,
                      reactions[p][i].to)])>>)

SettleBothJobs(t, p, how, v) ==
  /\ state' = [state EXCEPT ![p] = how]
  /\ result' = [result EXCEPT ![p] = v]
  /\ reactions' = [reactions EXCEPT ![p] = <<>>]
  /\ Replace(t, <<Jobs("enqueue",
       [i \in 1..(2 * Len(reactions[p])) |->
          LET r == reactions[p][(i + 1) \div 2]
          IN  ReactionJob(IF how = "Fulfilled" THEN "fulfilled" ELSE "rejected", p,
                          IF i % 2 = 1 THEN r.onFulfilled ELSE r.onRejected,
                          r.to)])>>)

SettleDropped(t, p, how, v) ==
  /\ state' = [state EXCEPT ![p] = how]
  /\ result' = [result EXCEPT ![p] = v]
  /\ reactions' = [reactions EXCEPT ![p] = <<>>]
  /\ Replace(t, <<>>)

(* The tail of both: the state and the result are written and m_reactions  *)
(* moved out under m_mutex; the jobs are queued after it is released.      *)
Settle(t, p, how, v) ==
  /\ state' = [state EXCEPT ![p] = how]
  /\ result' = [result EXCEPT ![p] = v]
  /\ reactions' = [reactions EXCEPT ![p] = <<>>]
  /\ Replace(t, <<Jobs("enqueue",
       [i \in 1..Len(reactions[p]) |->
          IF how = "Fulfilled"
          THEN ReactionJob("fulfilled", p, reactions[p][i].onFulfilled,
                           reactions[p][i].to)
          ELSE ReactionJob("rejected", p, reactions[p][i].onRejected,
                           reactions[p][i].to)])>>)

(* Mutation: only the engine's own promises are adopted, not every object   *)
(* with a `then` method.                                                   *)
ResolveOwnKind(t) ==
  /\ Running(t, "resolve")
  /\ LET p == Head(stack[t]).on
         v == Head(stack[t]).value
     IN  /\ lock[p] = Free
         /\ state[p] = "Pending"
         /\ IF v \in Promises
            THEN /\ queue' = Append(queue, ThenJob(v, p))
                 /\ Replace(t, <<>>)
                 /\ UNCHANGED <<state, result, reactions, lock>>
            ELSE /\ Settle(t, p, "Fulfilled", v)
                 /\ UNCHANGED <<lock, queue>>
  /\ UNCHANGED <<created, exposed, awaits, budget>>

(* A promise that is settled ignores the call.  One that is resolved with  *)
(* itself, or with an object whose `then` getter throws, calls reject      *)
(* while it still holds m_mutex.  A thenable is adopted by a queued job    *)
(* and the promise stays pending.                                          *)
Resolve(t) ==
  /\ Running(t, "resolve")
  /\ LET p == Head(stack[t]).on
         v == Head(stack[t]).value
     IN  /\ lock[p] = Free
         /\ \/ /\ state[p] # "Pending"
               /\ Replace(t, <<>>)
               /\ UNCHANGED <<state, result, reactions, lock, queue>>
            \/ /\ state[p] = "Pending"
               /\ v = p \/ v \in Throwing
               /\ lock' = [lock EXCEPT ![p] = t]
               /\ Replace(t, <<Call("reject", p, TypeErr)>>)
               /\ UNCHANGED <<state, result, reactions, queue>>
            \/ /\ state[p] = "Pending"
               /\ v # p /\ v \in Thenable
               /\ queue' = Append(queue, ThenJob(v, p))
               /\ Replace(t, <<>>)
               /\ UNCHANGED <<state, result, reactions, lock>>
            \/ /\ state[p] = "Pending"
               /\ v \in Plain
               /\ Settle(t, p, "Fulfilled", v)
               /\ UNCHANGED <<lock, queue>>
  /\ UNCHANGED <<created, exposed, awaits, budget>>

(* Mutation: reject() does not look whether the promise is still pending.  *)
RejectAgain(t) ==
  /\ Running(t, "reject")
  /\ LET p == Head(stack[t]).on
     IN  lock[p] = Free /\ Settle(t, p, "Rejected", Head(stack[t]).value)
  /\ UNCHANGED <<created, lock, queue, exposed, awaits, budget>>

Reject(t) ==
  /\ Running(t, "reject")
  /\ LET p == Head(stack[t]).on
         e == Head(stack[t]).value
     IN  /\ lock[p] = Free
         /\ \/ /\ state[p] # "Pending"
               /\ Replace(t, <<>>)
               /\ UNCHANGED <<state, result, reactions>>
            \/ /\ state[p] = "Pending"
               /\ Settle(t, p, "Rejected", e)
  /\ UNCHANGED <<created, lock, queue, exposed, awaits, budget>>

(* Mutation: a new task goes to the front of the queue.                    *)
EnqueueFirst(t) ==
  /\ Running(t, "enqueue")
  /\ LET jobs == Head(stack[t]).jobs
     IN  IF jobs = <<>>
         THEN Replace(t, <<>>) /\ UNCHANGED queue
         ELSE /\ queue' = <<Head(jobs)>> \o queue
              /\ Replace(t, <<Jobs("enqueue", Tail(jobs))>>)
  /\ UNCHANGED <<created, state, result, reactions, lock, exposed, awaits, budget>>

(* fulfillReactions and rejectReactions: one enqueueMicrotask at a time.   *)
Enqueue(t) ==
  /\ Running(t, "enqueue")
  /\ LET jobs == Head(stack[t]).jobs
     IN  \/ /\ jobs = <<>>
            /\ Replace(t, <<>>)
            /\ UNCHANGED queue
         \/ /\ jobs # <<>>
            /\ queue' = Append(queue, Head(jobs))
            /\ Replace(t, <<Jobs("enqueue", Tail(jobs))>>)
  /\ UNCHANGED <<created, state, result, reactions, lock, exposed, awaits, budget>>

---------------------------------------------------------------------------
(* The microtask loop.                                                     *)

(* processMicrotasks: the embedder moves the whole queue out and runs the  *)
(* batch; what a task queues meanwhile waits for the next call.            *)
ProcessMicrotasks(t) ==
  /\ stack[t] = <<>>
  /\ queue # <<>>
  /\ Push(t, Jobs("batch", queue))
  /\ queue' = <<>>
  /\ UNCHANGED <<created, state, result, reactions, lock, exposed, awaits, budget>>

(* Mutation: without a handler there is nothing to do.                     *)
HandlerFramesSilent(job) ==
  LET v == result[job.src]
      q == job.to
      h == job.handler
  IN  CASE h.fn = "none"    -> <<>>
        [] h.fn = "js"      -> <<Script(q, q, "no", v)>>
        [] h.fn = "finally" -> <<Script(q, q, job.kind, v)>>
        [] OTHER            -> <<Call(h.fn, h.on, v),
                                 Call("resolve", q, Undefined)>>

(* The frames handleFulfilled or handleRejected runs for a reaction job:    *)
(* pass the result through, call the script, or call a native function and  *)
(* then resolve the derived promise with its undefined.                     *)
HandlerFrames(job) ==
  LET v == result[job.src]
      q == job.to
      h == job.handler
  IN  CASE h.fn = "none"    -> <<Call(IF job.kind = "fulfilled"
                                      THEN "resolve" ELSE "reject", q, v)>>
        [] h.fn = "js"      -> <<Script(q, q, "no", v)>>
        [] h.fn = "finally" -> <<Script(q, q, job.kind, v)>>
        [] OTHER            -> <<Call(h.fn, h.on, v),
                                 Call("resolve", q, Undefined)>>

RunReaction(t) ==
  /\ Running(t, "batch")
  /\ Head(stack[t]).jobs # <<>>
  /\ LET job == Head(Head(stack[t]).jobs)
     IN  /\ job.kind # "then"
         /\ Replace(t, HandlerFrames(job) \o
                         <<Jobs("batch", Tail(Head(stack[t]).jobs))>>)
  /\ UNCHANGED <<created, state, result, reactions, lock, queue, exposed,
                 awaits, budget>>

(* The job that adopts a thenable: thenMethod.call(value, resolve, reject). *)
(* A promise registers the two native functions; a foreign thenable is a    *)
(* script that holds them and may call them, or throw.                      *)
RunThen(t) ==
  /\ Running(t, "batch")
  /\ Head(stack[t]).jobs # <<>>
  /\ LET job  == Head(Head(stack[t]).jobs)
         rest == Jobs("batch", Tail(Head(stack[t]).jobs))
     IN  /\ job.kind = "then"
         /\ \/ /\ job.src \in Promises
               /\ Register(job.src, ResolveFn(job.to), RejectFn(job.to))
               /\ Replace(t, <<rest>>)
               /\ UNCHANGED exposed
            \/ /\ job.src \in Foreign
               /\ exposed' = exposed \cup {job.to}
               /\ Replace(t, <<Script(NoPromise, job.to, "no", Undefined), rest>>)
               /\ UNCHANGED <<created, state, reactions, queue>>
  /\ UNCHANGED <<result, lock, awaits, budget>>

EndBatch(t) ==
  /\ Running(t, "batch")
  /\ Head(stack[t]).jobs = <<>>
  /\ Replace(t, <<>>)
  /\ UNCHANGED <<created, state, result, reactions, lock, queue, exposed,
                 awaits, budget>>

---------------------------------------------------------------------------
(* How a script frame ends.                                                *)

(* An executor or a foreign `then` returns: its value is dropped.          *)
ReturnIgnored(t) ==
  /\ Running(t, "script")
  /\ Head(stack[t]).ret = NoPromise
  /\ Replace(t, <<>>)
  /\ UNCHANGED <<created, state, result, reactions, lock, queue, exposed,
                 awaits, budget>>

(* A handler returns v: the derived promise is resolved with it.           *)
ReturnValue(t, v) ==
  /\ Running(t, "script")
  /\ Head(stack[t]).ret # NoPromise
  /\ Head(stack[t]).wrapper = "no"
  /\ v \in Promises => v \in Existing
  /\ budget >= Cost(v)
  /\ budget' = budget - Cost(v)
  /\ Replace(t, <<Call("resolve", Head(stack[t]).ret, v)>>)
  /\ UNCHANGED <<created, state, result, reactions, lock, queue, exposed, awaits>>

(* onFinally returns no promise: the wrapper passes the original outcome.  *)
ReturnFinally(t, v) ==
  /\ Running(t, "script")
  /\ Head(stack[t]).wrapper # "no"
  /\ v \notin Promises
  /\ Replace(t, <<Call(IF Head(stack[t]).wrapper = "fulfilled"
                       THEN "resolve" ELSE "reject",
                       Head(stack[t]).ret, Head(stack[t]).arg)>>)
  /\ UNCHANGED <<created, state, result, reactions, lock, queue, exposed,
                 awaits, budget>>

(* onFinally returns the promise v: the wrapper makes a new promise whose   *)
(* executor settles it with the original outcome, and returns that one.     *)
ReturnFinallyPromise(t, v) ==
  /\ Running(t, "script")
  /\ Head(stack[t]).wrapper # "no"
  /\ v \in Existing
  /\ budget >= 2 /\ created < MaxPromises
  /\ created' = created + 1
  /\ state' = [state EXCEPT ![created + 1] =
       IF Head(stack[t]).wrapper = "fulfilled" THEN "Fulfilled" ELSE "Rejected"]
  /\ result' = [result EXCEPT ![created + 1] = Head(stack[t]).arg]
  /\ budget' = budget - 2
  /\ awaits' = [awaits EXCEPT ![Head(stack[t]).ret] = v]
  /\ Replace(t, <<Call("resolve", Head(stack[t]).ret, created + 1)>>)
  /\ UNCHANGED <<reactions, lock, queue, exposed>>

Throw(t, e) ==
  /\ Running(t, "script")
  /\ e \in Promises => e \in Existing
  /\ Replace(t, <<Call("reject", Head(stack[t]).thr, e)>>)
  /\ UNCHANGED <<created, state, result, reactions, lock, queue, exposed,
                 awaits, budget>>

---------------------------------------------------------------------------
(* What a thread goes on to do once it is running: it is not a choice of    *)
(* the script's, so a fair scheduler gets to it.                            *)
Native(t) == Resolve(t) \/ Reject(t) \/ Enqueue(t)
             \/ RunReaction(t) \/ RunThen(t) \/ EndBatch(t)

EndScript(t) ==
  \/ ReturnIgnored(t)
  \/ \E v \in ScriptValues : ReturnValue(t, v)
  \/ \E v \in ScriptValues : ReturnFinally(t, v)
  \/ \E v \in ScriptValues : ReturnFinallyPromise(t, v)
  \/ \E e \in Reasons : Throw(t, e)

Api(t) ==
  \/ NewPromise(t)
  \/ \E p \in Promises, v \in ScriptValues : CallResolve(t, p, v)
  \/ \E p \in Promises, e \in Reasons : CallReject(t, p, e)
  \/ \E p \in Promises, pair \in ScriptHandlers : CallThen(t, p, pair)

Next == \E t \in Threads :
          Api(t) \/ Native(t) \/ EndScript(t) \/ ProcessMicrotasks(t)

Spec == Init /\ [][Next]_vars

(* The threads are scheduled fairly, every script and handler ends, and    *)
(* the embedder drains the queue between scripts.  Scripts may run in      *)
(* between any number of times, hence strong fairness.                     *)
FairSpec ==
  /\ Spec
  /\ \A t \in Threads : /\ WF_vars(Native(t))
                        /\ SF_vars(EndScript(t))
                        /\ SF_vars(ProcessMicrotasks(t))

---------------------------------------------------------------------------
(* Properties.                                                             *)

TypeOK ==
  /\ created \in 0..MaxPromises
  /\ state \in [Promises -> {"Unborn", "Pending", "Fulfilled", "Rejected"}]
  /\ result \in [Promises -> Value]
  /\ reactions \in [Promises -> Seq(Reaction)]
  /\ lock \in [Promises -> Threads \cup {Free}]
  /\ queue \in Seq(Job)
  /\ stack \in [Threads -> Seq(Frame)]
  /\ exposed \subseteq Promises
  /\ awaits \in [Promises -> Promises \cup {NoPromise}]
  /\ budget \in 0..MaxPromises

(* The jobs on their way to the queue, in it, or in a batch being run.     *)
FrameJobs(t, k) ==
  IF stack[t][k].kind \in {"enqueue", "batch"} THEN stack[t][k].jobs ELSE <<>>

(* A settled promise keeps no reaction: then() and the settling calls agree *)
(* under m_mutex on who delivers it, so none is left where nobody looks.   *)
SettledHasNoReactions ==
  \A p \in Promises : state[p] # "Pending" => reactions[p] = <<>>

(* resolve() adopts thenables, so a fulfilled promise, which then() hands  *)
(* straight to handlers, never holds one.                                  *)
FulfilledIsPlain ==
  \A p \in Promises : state[p] = "Fulfilled" => result[p] \in Plain

(* Whichever thread queued it and however long ago, a reaction job fits    *)
(* the outcome of its promise: no onRejected runs for a fulfilled one.     *)
Fits(job) ==
  /\ job.kind = "fulfilled" => state[job.src] = "Fulfilled"
  /\ job.kind = "rejected"  => state[job.src] = "Rejected"

JobsFitOutcome ==
  /\ \A i \in 1..Len(queue) : Fits(queue[i])
  /\ \A t \in Threads : \A k \in 1..Len(stack[t]) :
       \A i \in 1..Len(FrameJobs(t, k)) : Fits(FrameJobs(t, k)[i])

(* The places that hold the right to settle q: a reaction or job derived    *)
(* into q or adopting for q, a handler running for q, a call under way.    *)
ForReaction(r, q) == r.to = q \/ r.onFulfilled = ResolveFn(q)
ForJob(job, q)    == job.to = q \/ job.handler.on = q
ForFrame(f, q)    == \/ f.kind = "script" /\ f.thr = q
                     \/ f.kind \in {"resolve", "reject"} /\ f.on = q

Holders(q) ==
  (UNION {{<<"reaction", p, i>> : i \in {j \in 1..Len(reactions[p]) :
                                           ForReaction(reactions[p][j], q)}}
          : p \in Promises})
  \cup {<<"job", i>> : i \in {j \in 1..Len(queue) : ForJob(queue[j], q)}}
  \cup (UNION {UNION {
           (IF ForFrame(stack[t][k], q) THEN {<<"frame", t, k>>} ELSE {})
           \cup {<<"frame", t, k, i>> : i \in {j \in 1..Len(FrameJobs(t, k)) :
                                                ForJob(FrameJobs(t, k)[j], q)}}
           : k \in 1..Len(stack[t])} : t \in Threads})

(* A promise made by then(), whose resolving functions no script holds, has *)
(* exactly one party that will settle it until it is settled, and none      *)
(* after: its reaction is neither lost nor delivered twice, on any thread.  *)
SoleHolder ==
  \A q \in Existing \ exposed :
    Cardinality(Holders(q)) = IF state[q] = "Pending" THEN 1 ELSE 0

(* Reactions of one promise run in the order then() registered them:        *)
(* derived promises are numbered as they are made.  It holds on one thread; *)
(* with two, then() can queue between a settle and its enqueueing.          *)
Pipeline(t) ==
  (IF Running(t, "batch") THEN Head(stack[t]).jobs ELSE <<>>) \o queue
ReactionOrder ==
  \A t \in Threads : \A i, j \in 1..Len(Pipeline(t)) :
    LET a == Pipeline(t)[i]
        b == Pipeline(t)[j]
    IN  i < j /\ a.kind # "then" /\ b.kind # "then" /\ a.src = b.src
          => a.to < b.to

(* A settled promise never changes its state or its result again, whatever  *)
(* races to settle it.                                                      *)
SettleOnce ==
  [][\A p \in Promises : state[p] \in {"Fulfilled", "Rejected"}
       => state'[p] = state[p] /\ result'[p] = result[p]]_vars

(* Liveness: the handler of every queued reaction gets its turn: in the end *)
(* the derived promise is settled, or adopts a thenable and waits for it,   *)
(* unless resolve() has deadlocked the thread that runs the loop.           *)
Adopting(q) ==
  \/ q \in exposed
  \/ \E i \in 1..Len(queue) : queue[i].kind = "then" /\ queue[i].to = q
  \/ \E p \in Promises : \E i \in 1..Len(reactions[p]) :
       reactions[p][i].onFulfilled = ResolveFn(q)

Served ==
  \A q \in Promises :
    (\E i \in 1..Len(queue) : queue[i].kind # "then" /\ queue[i].to = q)
      ~> \/ state[q] # "Pending"
         \/ Adopting(q)
         \/ \E p \in Promises : lock[p] # Free

(* "If the result is a promise, wait for it, then return the original       *)
(* value" (promise.cpp:243).                                                *)
FinallyWaits ==
  \A q \in Promises :
    awaits[q] # NoPromise /\ state[q] # "Pending" => state[awaits[q]] # "Pending"

(* "Resolved with itself: reject with a TypeError" (promise.cpp:97).        *)
SelfResolutionRejects ==
  \A p \in Promises :
    (\E t \in Threads : Running(t, "resolve") /\ Head(stack[t]).on = p
                         /\ Head(stack[t]).value = p /\ state[p] = "Pending")
      ~> state[p] = "Rejected"
=============================================================================
