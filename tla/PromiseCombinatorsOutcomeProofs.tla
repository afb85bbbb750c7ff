----------------- MODULE PromiseCombinatorsOutcomeProofs -----------------
(***************************************************************************)
(* Proofs about what the combinators of promise_static.cpp settle their     *)
(* aggregates with, on one thread and for any number of promises, scripts   *)
(* and iterators: all the outcomes when they count their elements, and the   *)
(* first that decides otherwise.  The invariant follows an element from the  *)
(* promise that settles, along the queue and the batch, to its handler.     *)
(***************************************************************************)
EXTENDS PromiseCombinatorsProofs, FunctionTheorems

(* On one thread: the handlers of elements run when no executor does, on top *)
(* of the batch that has nothing under it.                                 *)
OnBatch(t) ==
  \A d \in 1..Len(stack[t]) :
    Handles(FrameAt(t, d)) => d = 3 /\ FrameAt(t, 1).kind = "batch"

(* The executor that has not ended is on the stack.                         *)
Phases(t) ==
  /\ \A a \in Aggregates : phase[a] # "none"
  /\ \A a \in Promises : phase[a] = "loop" <=> \E d : LoopAt(a, t, d)

(* What a script that settles no derived promise would reject is no          *)
(* aggregate, unless it is an iterator.                                    *)
Strays(t) ==
  \A d \in 1..Len(stack[t]) :
    FrameAt(t, d).kind = "script" /\ FrameAt(t, d).thr \in Aggregates =>
      d - 1 \in 1..Len(stack[t]) /\ FrameAt(t, d - 1).kind = "loop"

(* What an aggregate may be settled with, once its executor has ended        *)
(* otherwise than by an exception.                                         *)
Earned(a, how, v) ==
  \/ /\ how = "Fulfilled" /\ combinator[a] \in {"all", "allSettled"}
     /\ v = ResultArray /\ remaining[a] = 0
  \/ /\ how = "Rejected" /\ combinator[a] = "any"
     /\ v = AggregateError /\ remaining[a] = 0
  \/ /\ ~ (how = "Fulfilled" /\ combinator[a] \in {"all", "allSettled"})
     /\ ~ (how = "Rejected" /\ combinator[a] = "any")
     /\ \E i \in First(a) : LET p == element[ready[i]].src
                            IN  how = state[p] /\ v = result[p]

Just(a, how, v) ==
  /\ phase[a] \in {"done", "threw"}
  /\ phase[a] = "done" => Earned(a, how, v)

Outcomes == [resolve |-> "Fulfilled", reject |-> "Rejected"]

Judged(a, f) ==
  f.kind \in {"resolve", "reject"} /\ f.on = a => Just(a, Outcomes[f.kind], f.value)

StatesJust   == \A a \in Aggregates : Settled(a) => Just(a, state[a], result[a])
CallsJust(t) == \A a \in Aggregates : \A d \in 1..Len(stack[t]) : Judged(a, FrameAt(t, d))

(* The aggregate whose iterator threw is rejected at once.                  *)
Threw(t) ==
  \A a \in Aggregates : phase[a] = "threw" =>
    \/ state[a] = "Rejected"
    \/ state[a] = "Pending" /\ Running(t, "reject") /\ Head(stack[t]).on = a

Verdicts(t) == StatesJust /\ CallsJust(t) /\ Threw(t)

(* What a slot holds is the outcome of its element.                         *)
Recorded ==
  \A q \in Promises : IsElement(q) /\ Slot(q) # Hole =>
    LET p == element[q].src
    IN  /\ Settled(p) /\ Slot(q) = Outcome(p)
        /\ combinator[element[q].of] = "all" => state[p] = "Fulfilled"
        /\ combinator[element[q].of] = "any" => state[p] = "Rejected"

---------------------------------------------------------------------------
(* The elements in the order in which they became ready.                    *)
Has(s, q) == \E i \in 1..Len(s) : s[i].kind # "then" /\ s[i].to = q

ReadyInv ==
  /\ ready \in Seq(Promises)
  /\ \A i \in 1..Len(ready) : IsElement(ready[i]) /\ Settled(element[ready[i]].src)
  /\ \A i, j \in 1..Len(ready) : ready[i] = ready[j] => i = j

(* Who is ready waits no more for its promise to settle.                    *)
Passed(t) ==
  \A i \in 1..Len(ready) :
    /\ ~ Has(EnqueueOf(stack[t]), ready[i])
    /\ \A p \in Promises : \A j \in 1..Len(reactions[p]) : reactions[p][j].to # ready[i]

(* q's turn is before r's.                                                  *)
Turn(q, r) == \A i, j \in 1..Len(ready) : ready[i] = q /\ ready[j] = r => i < j
Later(x, y) == x.kind # "then" /\ y.kind # "then" => Turn(x.to, y.to)
InTurn(s)   == \A i, j \in 1..Len(s) : i < j => Later(s[i], s[j])
Turns(s, r) == \A i \in 1..Len(s) : \A j \in 1..Len(r) : Later(s[i], r[j])
Ready(q)    == \E i \in 1..Len(ready) : ready[i] = q
AllReady(s) == \A i \in 1..Len(s) : s[i].kind # "then" /\ IsElement(s[i].to) => Ready(s[i].to)

(* The handler that runs was the first of the pipeline.                     *)
Handling(t, q) == \E d \in 1..Len(stack[t]) : Handles(FrameAt(t, d)) /\ FrameAt(t, d).on = q
Behind(q, s) == \A i \in 1..Len(s) : s[i].kind # "then" => Turn(q, s[i].to)

Queue(t) ==
  /\ InTurn(BatchOf(stack[t])) /\ InTurn(queue) /\ Turns(BatchOf(stack[t]), queue)
  /\ AllReady(BatchOf(stack[t])) /\ AllReady(queue)
  /\ \A q \in Promises : Handling(t, q) =>
       Ready(q) /\ Behind(q, BatchOf(stack[t])) /\ Behind(q, queue)

Waits(t, q) == Has(BatchOf(stack[t]), q) \/ Has(queue, q) \/ Handling(t, q)

Undecided(t) ==
  \A a \in Aggregates : \A i \in 1..Len(ready) :
    Decides(a, i) /\ ~ decided[a] => Waits(t, ready[i])

OneInv(t) ==
  /\ CombInv /\ Line(t)
  /\ OnBatch(t) /\ Phases(t) /\ Strays(t) /\ Verdicts(t) /\ Recorded
  /\ ReadyInv /\ Passed(t) /\ Queue(t) /\ Undecided(t)

---------------------------------------------------------------------------
(* What Promise does to the stack of the thread: it takes at most the top    *)
(* frame away and puts on frames that are no executor, settle no aggregate   *)
(* and are no handlers but one, on top of the batch that calls it.           *)
Steady(K, f) ==
  /\ Plainly(f)
  /\ f.kind \in {"resolve", "reject"} => f.on \notin K.own
  /\ f.kind = "script" => f.thr \notin K.own

Joins(K, t, b, fs) ==
  \A k \in 1..Len(fs) :
    \/ Steady(K, fs[k])
    \/ Handles(fs[k]) /\ k = 1 /\ Len(fs) = 3 /\ fs[3].kind = "batch" /\ b = 0

Moves(K, t) ==
  \E b, fs : /\ TopChanged(t, b, fs) /\ Len(stack[t]) \in Nat
             /\ b = Len(stack[t]) \/ b = Len(stack[t]) - 1
             /\ Joins(K, t, b, fs)

(* The frame is replaced by steady ones, or one of them is pushed.          *)
LEMMA SteadyReplace ==
  ASSUME NEW K, NEW S, stack \in [Threads -> Seq(S)], NEW t \in Threads, stack[t] # <<>>,
         \/ Replace(t, <<>>)
         \/ \E f : Replace(t, <<f>>) /\ Steady(K, f)
  PROVE  Moves(K, t)
<1>1. CASE Replace(t, <<>>)
  <2>1. PICK fs, L : fs = <<>> /\ L = Len(stack[t])
    OBVIOUS
  <2>2. fs \in Seq({}) /\ Replace(t, fs) /\ Len(fs) = 0
    BY <1>1, <2>1
  <2>3. TopChanged(t, L - 1, fs) /\ L \in Nat
    BY <2>1, <2>2, ReplaceTop
  <2>4. Joins(K, t, L - 1, fs)
    BY <2>2 DEF Joins
  <2>. QED  BY <2>1, <2>3, <2>4 DEF Moves
<1>2. ASSUME NEW f, Replace(t, <<f>>), Steady(K, f)  PROVE Moves(K, t)
  <2>1. PICK fs, L : fs = <<f>> /\ L = Len(stack[t])
    OBVIOUS
  <2>2. fs \in Seq({f}) /\ Replace(t, fs) /\ \A k \in 1..Len(fs) : fs[k] = f
    BY <1>2, <2>1
  <2>3. TopChanged(t, L - 1, fs) /\ L \in Nat
    BY <2>1, <2>2, ReplaceTop
  <2>4. Joins(K, t, L - 1, fs)
    BY <1>2, <2>2 DEF Joins
  <2>. QED  BY <2>1, <2>3, <2>4 DEF Moves
<1>. QED  BY <1>1, <1>2

LEMMA SteadyPush ==
  ASSUME NEW K, NEW S, stack \in [Threads -> Seq(S)], NEW t \in Threads,
         \/ UNCHANGED stack
         \/ \E f : Push(t, f) /\ Steady(K, f)
  PROVE  Moves(K, t)
<1>1. CASE UNCHANGED stack
  <2>1. PICK fs, L : fs = <<>> /\ L = Len(stack[t])
    OBVIOUS
  <2>2. Len(fs) = 0 /\ L \in Nat
    BY <2>1, LenProperties
  <2>3. TopChanged(t, L, fs)
    BY <1>1, <2>1, <2>2 DEF TopChanged, FrameAt
  <2>4. Joins(K, t, L, fs)
    BY <2>2 DEF Joins
  <2>. QED  BY <2>1, <2>2, <2>3, <2>4 DEF Moves
<1>2. ASSUME NEW f, Push(t, f), Steady(K, f)  PROVE Moves(K, t)
  <2>1. PICK fs, L : fs = <<f>> /\ L = Len(stack[t])
    OBVIOUS
  <2>2. /\ fs \in Seq({f}) /\ stack' = [stack EXCEPT ![t] = fs \o @]
        /\ \A k \in 1..Len(fs) : fs[k] = f
    BY <1>2, <2>1 DEF Push
  <2>3. TopChanged(t, L, fs) /\ L \in Nat
    BY <2>1, <2>2, PushTop
  <2>4. Joins(K, t, L, fs)
    BY <1>2, <2>2 DEF Joins
  <2>. QED  BY <2>1, <2>3, <2>4 DEF Moves
<1>. QED  BY <1>1, <1>2

(* Calls on other promises than the aggregates, jobs, and scripts that       *)
(* reject none of them.                                                    *)
LEMMA SteadyFrames ==
  ASSUME NEW K
  PROVE  /\ \A fn \in {"resolve", "reject"} : \A p, v : p \notin K.own => Steady(K, Call(fn, p, v))
         /\ \A kind \in {"enqueue", "batch"} : \A js : Steady(K, Jobs(kind, js))
         /\ \A ret, thr, wrapper, arg : thr \notin K.own => Steady(K, Script(ret, thr, wrapper, arg))
  BY DEF Steady, Plainly, Call, Jobs, Script

(* resolve and reject.  An aggregate is resolved with a plain value alone,   *)
(* so it does not reject itself.                                            *)
LEMMA ResolveMoves ==
  ASSUME NEW K, IsMore(K), IInv(K), NEW t \in Threads, Resolve(t) \/ Reject(t)
  PROVE  Moves(K, t)
<1>1. stack \in [Threads -> Seq(FitFrame(K))]
  BY DEF IInv
<1>2. CASE Resolve(t)
  <2>1. PICK p, v : p = Head(stack[t]).on /\ v = Head(stack[t]).value
    OBVIOUS
  <2>2. stack[t] # <<>> /\ Running(t, "resolve")
    BY <1>2 DEF Resolve, Running
  <2>3. \/ Replace(t, <<>>)
        \/ (v = p \/ v \in Throwing) /\ Replace(t, <<Call("reject", p, TypeErr)>>)
        \/ Settle(t, p, "Fulfilled", v)
    BY <1>2, <2>1 DEF Resolve
  <2>4. ASSUME v = p \/ v \in Throwing  PROVE p \notin K.own
    <3>1. p \in K.own => v \in Plain /\ p \in Promises
      BY <2>1, <2>2, HeadFrame DEF IsMore
    <3>. QED  BY <2>4, <3>1, PromiseAssumption
  <2>5. Settle(t, p, "Fulfilled", v) => \E js : Replace(t, <<Jobs("enqueue", js)>>)
    BY DEF Settle
  <2>. QED  BY <1>1, <2>2, <2>3, <2>4, <2>5, SteadyFrames, SteadyReplace
<1>3. CASE Reject(t)
  <2>1. PICK p, v : p = Head(stack[t]).on /\ v = Head(stack[t]).value
    OBVIOUS
  <2>2. stack[t] # <<>>
    BY <1>3 DEF Reject, Running
  <2>3. Replace(t, <<>>) \/ Settle(t, p, "Rejected", v)
    BY <1>3, <2>1 DEF Reject
  <2>4. Settle(t, p, "Rejected", v) => \E js : Replace(t, <<Jobs("enqueue", js)>>)
    BY DEF Settle
  <2>. QED  BY <1>1, <2>2, <2>3, <2>4, SteadyFrames, SteadyReplace
<1>. QED  BY <1>2, <1>3

LEMMA EnqueueMoves ==
  ASSUME NEW K, IsMore(K), IInv(K), NEW t \in Threads, Enqueue(t) \/ EndBatch(t)
  PROVE  Moves(K, t)
<1>1. stack \in [Threads -> Seq(FitFrame(K))] /\ stack[t] # <<>>
  BY DEF IInv, Enqueue, EndBatch, Running
<1>2. Replace(t, <<>>) \/ \E js : Replace(t, <<Jobs("enqueue", js)>>)
  BY DEF Enqueue, EndBatch
<1>. QED  BY <1>1, <1>2, SteadyFrames, SteadyReplace

(* The frames of a reaction job.                                            *)
LEMMA HandlerJoins ==
  ASSUME NEW K, Serves(K), NEW job \in FitJob(K), job.kind # "then",
         NEW rest, NEW js, rest = Jobs("batch", js),
         NEW t, NEW b, b = 0, NEW fs
  PROVE  fs = HandlerFrames(job) \o <<rest>> => Joins(K, t, b, fs) /\ \E S : fs \in Seq(S)
<1>a. SUFFICES ASSUME fs = HandlerFrames(job) \o <<rest>>
               PROVE  Joins(K, t, b, fs) /\ \E S : fs \in Seq(S)
  OBVIOUS
<1>0. PICK v, q, h : v = result[job.src] /\ q = job.to /\ h = job.handler
  OBVIOUS
<1>1. Steady(K, rest) /\ q \notin K.own /\ h.on \notin K.own /\ rest.kind = "batch"
  BY <1>0, SteadyFrames DEF FitJob, HandlerFits, Jobs
<1>2. ASSUME NEW f, Steady(K, f), fs = <<f>> \o <<rest>>
      PROVE  Joins(K, t, b, fs) /\ \E S : fs \in Seq(S)
  <2>1. fs = <<f, rest>>
    BY <1>2, ConcatTwo
  <2>2. Len(fs) = 2 /\ fs[1] = f /\ fs[2] = rest /\ fs \in Seq({f, rest})
    BY <2>1, TwoSeq
  <2>3. \A k \in 1..Len(fs) : Steady(K, fs[k])
    BY <1>1, <1>2, <2>2
  <2>. QED  BY <2>2, <2>3 DEF Joins
<1>3. CASE h.fn = "none"
  BY <1>a, <1>0, <1>1, <1>2, <1>3, SteadyFrames DEF HandlerFrames
<1>4. CASE h.fn = "js"
  BY <1>a, <1>0, <1>1, <1>2, <1>4, SteadyFrames DEF HandlerFrames
<1>5. CASE h.fn = "finally"
  BY <1>a, <1>0, <1>1, <1>2, <1>5, SteadyFrames DEF HandlerFrames
<1>6. CASE h.fn \notin {"none", "js", "finally"}
  <2>0. PICK f, g : f = Call(h.fn, h.on, v) /\ g = Call("resolve", q, Undefined)
    OBVIOUS
  <2>1. fs = <<f, g>> \o <<rest>>
    BY <1>a, <1>0, <1>6, <2>0 DEF HandlerFrames
  <2>2. fs = <<f, g, rest>>
    BY <2>1, ConcatThree
  <2>3. Len(fs) = 3 /\ fs[1] = f /\ fs[2] = g /\ fs[3] = rest /\ fs \in Seq({f, g, rest})
    BY <2>2, ThreeSeq
  <2>4. Steady(K, g)
    BY <1>1, <2>0, SteadyFrames
  <2>5. Steady(K, f) \/ Handles(f)
    <3>1. h \in AnyHandler(K)
      BY <1>0 DEF FitJob, AnyJob, AnyHandler, Handler, None
    <3>2. CASE h.fn \in Natives(K)
      <4>1. \E n \in K.native : n.fn = h.fn /\ n.how = job.kind
        BY <1>0, <3>2 DEF FitJob, NativeFits
      <4>2. job.kind \in {"fulfilled", "rejected"}
        BY DEF FitJob, AnyJob
      <4>3. h.fn \in {"onFulfilled", "onRejected"}
        BY <4>1, <4>2 DEF Serves
      <4>. QED  BY <2>0, <4>3 DEF Handles, Call
    <3>3. CASE h.fn \notin Natives(K)
      <4>1. h.fn \in {"resolve", "reject"}
        BY <1>6, <3>1, <3>3 DEF AnyHandler, Handler
      <4>. QED  BY <1>1, <2>0, <4>1, SteadyFrames
    <3>. QED  BY <3>2, <3>3
  <2>6. \A k \in 1..Len(fs) : (k = 1 /\ fs[k] = f) \/ Steady(K, fs[k])
    BY <1>1, <2>3, <2>4
  <2>. QED  BY <1>1, <2>3, <2>5, <2>6 DEF Joins
<1>. QED  BY <1>3, <1>4, <1>5, <1>6

---------------------------------------------------------------------------
(* A job of the batch, which is the only frame.                             *)
LEMMA RunMoves ==
  ASSUME NEW K, Serves(K), IInv(K), NEW t \in Threads, Line(t),
         RunReaction(t) \/ RunThen(t)
  PROVE  Moves(K, t)
<1>1. /\ IsMore(K) /\ Running(t, "batch") /\ Head(stack[t]).jobs # <<>>
      /\ stack \in [Threads -> Seq(FitFrame(K))]
  BY DEF RunReaction, RunThen, Serves, IInv
<1>2. stack[t] # <<>> /\ Head(stack[t]).kind = "batch"
  BY <1>1 DEF Running
<1>3. PICK js, rest, job : /\ js = Tail(Head(stack[t]).jobs) /\ rest = Jobs("batch", js)
                           /\ job = Head(Head(stack[t]).jobs)
  OBVIOUS
<1>4. job \in FitJob(K)
  <2>1. Head(stack[t]).jobs \in Seq(FitJob(K))
    BY <1>1, <1>2, HeadFrame
  <2>. QED  BY <1>1, <1>3, <2>1, HeadTailProperties
<1>5. Len(stack[t]) = 1
  <2>1. stack[t] \in Seq(FitFrame(K)) /\ stack[t][1].kind = "batch"
    BY <1>1, <1>2, Parts
  <2>2. 1 \in 1..Len(stack[t])
    BY <1>2, <2>1, LenProperties, EmptySeq
  <2>. QED  BY <2>1, <2>2 DEF Line, Shape
<1>6. CASE RunReaction(t)
  <2>0. PICK fs : fs = HandlerFrames(job) \o <<rest>>
    OBVIOUS
  <2>1. job.kind # "then" /\ Replace(t, fs)
    BY <1>3, <1>6, <2>0 DEF RunReaction
  <2>2. PICK b : b = 0
    OBVIOUS
  <2>3. Joins(K, t, b, fs) /\ \E S : fs \in Seq(S)
    BY <1>3, <1>4, <2>0, <2>1, <2>2, HandlerJoins
  <2>4. TopChanged(t, Len(stack[t]) - 1, fs)
    BY <1>1, <1>2, <2>1, <2>3, ReplaceTop
  <2>5. b = Len(stack[t]) - 1 /\ Len(stack[t]) \in Nat
    BY <1>5, <2>2
  <2>. QED  BY <2>3, <2>4, <2>5 DEF Moves
<1>7. CASE RunThen(t)
  <2>1. CASE Replace(t, <<rest>>)
    BY <1>1, <1>2, <1>3, <2>1, SteadyFrames, SteadyReplace
  <2>2. CASE Replace(t, <<Script(NoPromise, job.to, "no", Undefined), rest>>)
    <3>0. PICK f, fs, L : /\ f = Script(NoPromise, job.to, "no", Undefined) /\ fs = <<f, rest>>
                          /\ L = Len(stack[t])
      OBVIOUS
    <3>1. Len(fs) = 2 /\ fs[1] = f /\ fs[2] = rest /\ fs \in Seq({f, rest})
      BY <3>0, TwoSeq
    <3>2. job.to \notin K.own
      BY <1>4 DEF FitJob, HandlerFits
    <3>3. \A k \in 1..Len(fs) : Steady(K, fs[k])
      BY <1>3, <3>0, <3>1, <3>2, SteadyFrames
    <3>4. Replace(t, fs)
      BY <2>2, <3>0
    <3>5. TopChanged(t, L - 1, fs) /\ L \in Nat
      BY <1>1, <1>2, <3>0, <3>1, <3>4, ReplaceTop
    <3>6. Joins(K, t, L - 1, fs)
      BY <3>3 DEF Joins
    <3>. QED  BY <3>0, <3>5, <3>6 DEF Moves
  <2>. QED  BY <1>3, <1>7, <2>1, <2>2 DEF RunThen
<1>. QED  BY <1>6, <1>7

(* Who would reject an aggregate is its iterator.                           *)
LEMMA OnlyIterators ==
  ASSUME NEW S, stack \in [Threads -> Seq(S)], NEW t \in Threads, Strays(t),
         Running(t, "script"), Head(stack[t]).thr \in Aggregates
  PROVE  InIterator(t)
<1>1. PICK L : L = Len(stack[t])
  OBVIOUS
<1>2. stack[t] # <<>> /\ stack[t] \in Seq(S)
  BY DEF Running
<1>3. L \in Nat /\ L >= 1 /\ Head(stack[t]) = stack[t][1]
  BY <1>1, <1>2, LenProperties, EmptySeq, HeadTailProperties
<1>4. FrameAt(t, L) = Head(stack[t]) /\ FrameAt(t, L - 1) = stack[t][2] /\ L \in 1..L
  <2>1. L + 1 - L = 1 /\ L + 1 - (L - 1) = 2
    BY <1>3
  <2>. QED  BY <1>1, <1>3, <2>1 DEF FrameAt
<1>5. L - 1 \in 1..L /\ FrameAt(t, L - 1).kind = "loop"
  BY <1>1, <1>4 DEF Strays, Running
<1>. QED  BY <1>1, <1>3, <1>4, <1>5 DEF InIterator

LEMMA EndScriptMoves ==
  ASSUME NEW K, IsMore(K), IInv(K), K.own = Aggregates, NEW t \in Threads, Strays(t),
         ~ InIterator(t), EndScript(t)
  PROVE  Moves(K, t)
<1>0. stack \in [Threads -> Seq(FitFrame(K))]
  BY DEF IInv
<1>1. Running(t, "script")
  BY DEF EndScript, ReturnIgnored, ReturnValue, ReturnFinally, ReturnFinallyPromise, Throw
<1>2. stack[t] # <<>> /\ Head(stack[t]).thr \notin K.own
  BY <1>0, <1>1, OnlyIterators DEF Running
<1>3. \/ Replace(t, <<>>)
      \/ \E fn \in {"resolve", "reject"} : \E v : \E p :
           Replace(t, <<Call(fn, p, v)>>) /\ p \notin K.own
  <2>1. CASE ReturnIgnored(t)
    BY <2>1 DEF ReturnIgnored
  <2>2. Head(stack[t]).ret # NoPromise => Head(stack[t]).ret \notin K.own
    BY <1>1, <1>2, HeadFrame
  <2>3. Head(stack[t]).wrapper # "no" => Head(stack[t]).ret # NoPromise
    <3>1. Head(stack[t]).wrapper # "no" => Head(stack[t]).ret \in Promises
      BY <1>1, <1>2, HeadFrame
    <3>. QED  BY <3>1, Numbers DEF IInv
  <2>4. ASSUME NEW v, ReturnValue(t, v) \/ ReturnFinallyPromise(t, v)
        PROVE  \E fn \in {"resolve", "reject"} : \E w : \E p :
                 Replace(t, <<Call(fn, p, w)>>) /\ p \notin K.own
    BY <2>2, <2>3, <2>4 DEF ReturnValue, ReturnFinallyPromise
  <2>5. ASSUME NEW v, ReturnFinally(t, v)
        PROVE  \E fn \in {"resolve", "reject"} : \E w : \E p :
                 Replace(t, <<Call(fn, p, w)>>) /\ p \notin K.own
    BY <2>2, <2>3, <2>5 DEF ReturnFinally
  <2>6. ASSUME NEW v, Throw(t, v)
        PROVE  \E fn \in {"resolve", "reject"} : \E w : \E p :
                 Replace(t, <<Call(fn, p, w)>>) /\ p \notin K.own
    BY <1>2, <2>6 DEF Throw
  <2>. QED  BY <2>1, <2>4, <2>5, <2>6 DEF EndScript
<1>. QED  BY <1>0, <1>2, <1>3, SteadyFrames, SteadyReplace

LEMMA ApiMoves ==
  ASSUME NEW K, NextIsFree(K), IInv(K), NEW t \in Threads,
         Api(t) \/ ProcessMicrotasks(t)
  PROVE  Moves(K, t)
<1>0. stack \in [Threads -> Seq(FitFrame(K))] /\ exposed \cap K.own = {} /\ created + 1 \notin K.own
  BY DEF IInv, NextIsFree
<1>2. CASE NewPromise(t)
  BY <1>0, <1>2, SteadyPush, SteadyFrames DEF NewPromise
<1>3. ASSUME NEW p, NEW v, CallResolve(t, p, v) \/ CallReject(t, p, v)  PROVE Moves(K, t)
  <2>1. p \notin K.own
    BY <1>0, <1>3 DEF CallResolve, CallReject
  <2>. QED  BY <1>0, <1>3, <2>1, SteadyPush, SteadyFrames DEF CallResolve, CallReject
<1>4. ASSUME NEW p, NEW pair, CallThen(t, p, pair)  PROVE Moves(K, t)
  BY <1>0, <1>4, SteadyPush DEF CallThen
<1>5. CASE ProcessMicrotasks(t)
  BY <1>0, <1>5, SteadyPush, SteadyFrames DEF ProcessMicrotasks
<1>. QED  BY <1>2, <1>3, <1>4, <1>5 DEF Api

LEMMA PromiseMoves ==
  ASSUME NEW K, Serves(K), IInv(K), NextIsFree(K), K.own = Aggregates,
         NEW t \in Threads, Line(t), Strays(t), PromiseStep(t)
  PROVE  Moves(K, t)
<1>1. IsMore(K)
  BY DEF Serves
<1>. QED  BY <1>1, ResolveMoves, EnqueueMoves, RunMoves, EndScriptMoves, ApiMoves
          DEF PromiseStep, Native

---------------------------------------------------------------------------
(* An aggregate is settled by the call on top of the stack and by nothing    *)
(* else.                                                                   *)
SettledBy(t, a) ==
  /\ state[a] = "Pending" /\ stack[t] # <<>> /\ Head(stack[t]).on = a
  /\ \/ /\ Head(stack[t]).kind = "resolve" /\ state'[a] = "Fulfilled"
        /\ result'[a] = Head(stack[t]).value
     \/ /\ Head(stack[t]).kind = "reject" /\ state'[a] = "Rejected"
        /\ result'[a] = Head(stack[t]).value

Calm(t, a) ==
  /\ (state'[a] = state[a] /\ result'[a] = result[a]) \/ SettledBy(t, a)
  /\ state[a] = "Pending" /\ Running(t, "reject") /\ Head(stack[t]).on = a => state'[a] = "Rejected"

LEMMA PromiseCalm ==
  ASSUME NEW K, IsMore(K), IInv(K), NEW t \in Threads, PromiseStep(t), NEW a \in Existing
  PROVE  Calm(t, a)
<1>1. a # created + 1 /\ a \in Promises /\ ScalarsOK
  <2>1. ScalarsOK
    BY DEF IInv
  <2>2. a <= created /\ a \in Promises /\ a \in Nat /\ created \in Nat
    BY <2>1, Numbers
  <2>. QED  BY <2>1, <2>2
<1>2. CASE Resolve(t)
  <2>1. Head(stack[t]).on \in Promises
    BY <1>2, HeadFrame DEF Resolve, Running
  <2>. QED  BY <1>1, <1>2, <2>1 DEF Resolve, Settle, Calm, SettledBy, Running, ScalarsOK
<1>3. CASE Reject(t)
  <2>1. Head(stack[t]).on \in Promises
    BY <1>3, HeadFrame DEF Reject, Running
  <2>. QED  BY <1>1, <1>3, <2>1 DEF Reject, Settle, Calm, SettledBy, Running, ScalarsOK
<1>4. CASE ~ Resolve(t) /\ ~ Reject(t)
  <2>1. state'[a] = state[a] /\ result'[a] = result[a]
    <3>1. \/ UNCHANGED state
          \/ \E x : state' = [state EXCEPT ![created + 1] = x]
      BY <1>4 DEF PromiseStep, Api, NewPromise, CallResolve, CallReject, CallThen, Register, Native,
         Enqueue, RunReaction, RunThen, EndBatch, ProcessMicrotasks, EndScript,
         ReturnIgnored, ReturnValue, ReturnFinally, ReturnFinallyPromise, Throw
    <3>2. \/ UNCHANGED result
          \/ \E x : result' = [result EXCEPT ![created + 1] = x]
      BY <1>4 DEF PromiseStep, Api, NewPromise, CallResolve, CallReject, CallThen, Register, Native,
         Enqueue, RunReaction, RunThen, EndBatch, ProcessMicrotasks, EndScript,
         ReturnIgnored, ReturnValue, ReturnFinally, ReturnFinallyPromise, Throw
    <3>. QED  BY <1>1, <3>1, <3>2 DEF ScalarsOK
  <2>2. ~ Running(t, "reject")
    BY <1>4 DEF PromiseStep, Api, NewPromise, CallResolve, CallReject, CallThen, Native, InScript,
       Enqueue, RunReaction, RunThen, EndBatch, ProcessMicrotasks, EndScript, Running,
       ReturnIgnored, ReturnValue, ReturnFinally, ReturnFinallyPromise, Throw
  <2>. QED  BY <2>1, <2>2 DEF Calm
<1>. QED  BY <1>2, <1>3, <1>4

---------------------------------------------------------------------------
(* Where the frames are after such a step.                                  *)
Moved(K, t, b, fs, N) ==
  /\ N = Len(fs) /\ N \in Nat /\ b \in Nat /\ Joins(K, t, b, fs)
  /\ \A d : d \in 1..Len(stack'[t]) =>
       \/ d <= b /\ d \in 1..Len(stack[t]) /\ FrameAt(t, d)' = FrameAt(t, d)
       \/ d > b /\ \E k \in 1..N : d = b + N + 1 - k /\ FrameAt(t, d)' = fs[k]
  /\ \A d : d \in 1..Len(stack[t]) /\ d <= b =>
       d \in 1..Len(stack'[t]) /\ FrameAt(t, d)' = FrameAt(t, d)
  /\ \A k \in 1..N : \A d : d = b + N + 1 - k =>
       d \in 1..Len(stack'[t]) /\ FrameAt(t, d)' = fs[k]

LEMMA MovedFrames ==
  ASSUME NEW K, NEW t \in Threads, Moves(K, t)
  PROVE  \E b, fs, N : Moved(K, t, b, fs, N)
<1>1. PICK b, fs : TopChanged(t, b, fs) /\ Len(stack[t]) \in Nat /\ Joins(K, t, b, fs)
  BY DEF Moves
<1>2. PICK N : N = Len(fs)
  OBVIOUS
<1>3. b \in Nat /\ N \in Nat
  BY <1>1, <1>2 DEF TopChanged
<1>4. /\ \A u \in Threads : \A d : d \in 1..Len(stack'[u]) =>
              \/ (u # t \/ d <= b) /\ d \in 1..Len(stack[u]) /\ FrameAt(u, d)' = FrameAt(u, d)
              \/ u = t /\ d > b /\ \E k \in 1..N : d = b + N + 1 - k /\ FrameAt(u, d)' = fs[k]
      /\ \A u \in Threads : \A d : d \in 1..Len(stack[u]) /\ (u # t \/ d <= b) =>
              d \in 1..Len(stack'[u]) /\ FrameAt(u, d)' = FrameAt(u, d)
      /\ \A k \in 1..N : \A d : d = b + N + 1 - k =>
              d \in 1..Len(stack'[t]) /\ FrameAt(t, d)' = fs[k]
  BY <1>1, <1>2, TopFrames
<1>5. \A d : d \in 1..Len(stack'[t]) =>
           \/ d <= b /\ d \in 1..Len(stack[t]) /\ FrameAt(t, d)' = FrameAt(t, d)
           \/ d > b /\ \E k \in 1..N : d = b + N + 1 - k /\ FrameAt(t, d)' = fs[k]
  BY <1>4
<1>6. \A d : d \in 1..Len(stack[t]) /\ d <= b =>
           d \in 1..Len(stack'[t]) /\ FrameAt(t, d)' = FrameAt(t, d)
  BY <1>4
<1>7. Moved(K, t, b, fs, N)
  BY <1>1, <1>2, <1>3, <1>4, <1>5, <1>6 DEF Moved
<1>. QED  BY <1>7

LEMMA MovesFrames ==
  ASSUME NEW K, NEW t \in Threads, Moves(K, t), K.own = Aggregates, UNCHANGED combinator,
         OnBatch(t), Strays(t)
  PROVE  OnBatch(t)' /\ Strays(t)'
<1>0. PICK b, fs, N : Moved(K, t, b, fs, N)
  BY MovedFrames
<1>1. /\ N = Len(fs) /\ N \in Nat /\ b \in Nat /\ Joins(K, t, b, fs)
      /\ \A d : d \in 1..Len(stack'[t]) =>
           \/ d <= b /\ d \in 1..Len(stack[t]) /\ FrameAt(t, d)' = FrameAt(t, d)
           \/ d > b /\ \E k \in 1..N : d = b + N + 1 - k /\ FrameAt(t, d)' = fs[k]
      /\ \A d : d \in 1..Len(stack[t]) /\ d <= b =>
           d \in 1..Len(stack'[t]) /\ FrameAt(t, d)' = FrameAt(t, d)
      /\ \A k \in 1..N : \A d : d = b + N + 1 - k =>
           d \in 1..Len(stack'[t]) /\ FrameAt(t, d)' = fs[k]
  BY <1>0 DEF Moved
<1>2. \A k \in 1..N :
        \/ Steady(K, fs[k])
        \/ Handles(fs[k]) /\ k = 1 /\ N = 3 /\ fs[3].kind = "batch" /\ b = 0
  BY <1>1 DEF Joins
<1>3. Aggregates' = Aggregates
  BY DEF Aggregates
<1>4. ASSUME NEW d \in 1..Len(stack'[t]), Handles(FrameAt(t, d)')
      PROVE  d = 3 /\ (FrameAt(t, 1)').kind = "batch"
  <2>1. CASE d <= b /\ d \in 1..Len(stack[t]) /\ FrameAt(t, d)' = FrameAt(t, d)
    <3>1. d = 3 /\ FrameAt(t, 1).kind = "batch"
      BY <1>4, <2>1 DEF OnBatch
    <3>2. 1 \in 1..Len(stack[t]) /\ 1 <= b
      BY <1>1, <2>1, <3>1
    <3>. QED  BY <1>1, <3>1, <3>2
  <2>2. CASE \E k \in 1..N : d = b + N + 1 - k /\ FrameAt(t, d)' = fs[k]
    <3>1. PICK k \in 1..N : d = b + N + 1 - k /\ FrameAt(t, d)' = fs[k]
      BY <2>2
    <3>2. k = 1 /\ N = 3 /\ fs[3].kind = "batch" /\ b = 0
      BY <1>2, <1>4, <3>1 DEF Steady, Plainly, Handles
    <3>3. 3 \in 1..N /\ 1 = b + N + 1 - 3 /\ d = 3
      BY <3>1, <3>2
    <3>. QED  BY <1>1, <3>2, <3>3
  <2>. QED  BY <1>1, <2>1, <2>2
<1>5. ASSUME NEW d \in 1..Len(stack'[t]),
             (FrameAt(t, d)').kind = "script", (FrameAt(t, d)').thr \in Aggregates
      PROVE  d - 1 \in 1..Len(stack'[t]) /\ (FrameAt(t, d - 1)').kind = "loop"
  <2>1. CASE d <= b /\ d \in 1..Len(stack[t]) /\ FrameAt(t, d)' = FrameAt(t, d)
    <3>1. d - 1 \in 1..Len(stack[t]) /\ FrameAt(t, d - 1).kind = "loop"
      BY <1>5, <2>1 DEF Strays
    <3>2. PICK e : e = d - 1
      OBVIOUS
    <3>3. e <= b
      BY <1>1, <2>1, <3>2
    <3>. QED  BY <1>1, <3>1, <3>2, <3>3
  <2>2. CASE \E k \in 1..N : d = b + N + 1 - k /\ FrameAt(t, d)' = fs[k]
    <3>1. PICK k \in 1..N : d = b + N + 1 - k /\ FrameAt(t, d)' = fs[k]
      BY <2>2
    <3>. QED  BY <1>2, <1>5, <3>1 DEF Steady, Handles
  <2>. QED  BY <1>1, <2>1, <2>2
<1>6. OnBatch(t)'
  BY <1>4 DEF OnBatch
<1>7. Strays(t)'
  BY <1>3, <1>5 DEF Strays
<1>. QED  BY <1>6, <1>7

(* The executors' frames are left alone.                                    *)
LEMMA KeepsPhases ==
  ASSUME NEW t \in Threads, Keeps(t), Phases(t), UNCHANGED <<phase, combinator>>
  PROVE  Phases(t)'
<1>1. Aggregates' = Aggregates
  BY DEF Aggregates
<1>2. \A a : \A d : LoopAt(a, t, d)' <=> LoopAt(a, t, d)
  BY DEF Keeps
<1>. QED  BY <1>1, <1>2 DEF Phases

---------------------------------------------------------------------------
(* What an aggregate may be settled with stays so.                          *)
JustKept == \A a \in Aggregates : \A how, v : Just(a, how, v) => Just(a, how, v)'

LEMMA PromiseVerdicts ==
  ASSUME NEW K, Serves(K), IInv(K), K.own = Aggregates, Aggregates \subseteq Existing,
         NEW t \in Threads, Moves(K, t), PromiseStep(t), UNCHANGED <<combinator, phase>>,
         Verdicts(t), JustKept
  PROVE  Verdicts(t)'
<1>1. Aggregates' = Aggregates /\ IsMore(K)
  BY DEF Aggregates, Serves
<1>2. \A a \in Aggregates : Calm(t, a)
  BY <1>1, PromiseCalm
<1>3. ASSUME NEW a \in Aggregates, Settled(a)'  PROVE Just(a, state[a], result[a])'
  <2>1. CASE state'[a] = state[a] /\ result'[a] = result[a]
    <3>1. Just(a, state[a], result[a])
      BY <1>3, <2>1 DEF Verdicts, StatesJust, Settled
    <3>2. \A how, v : Just(a, how, v) => Just(a, how, v)'
      BY DEF JustKept
    <3>3. PICK how, v : how = state[a] /\ v = result[a]
      OBVIOUS
    <3>4. Just(a, how, v)'
      BY <3>1, <3>2, <3>3
    <3>. QED  BY <2>1, <3>3, <3>4 DEF Just, Earned
  <2>2. CASE SettledBy(t, a)
    <3>0. stack \in [Threads -> Seq(FitFrame(K))]
      BY DEF IInv
    <3>1. PICK L : L = Len(stack[t])
      OBVIOUS
    <3>2. L \in Nat /\ L >= 1 /\ FrameAt(t, L) = Head(stack[t])
      <4>1. stack[t] \in Seq(FitFrame(K)) /\ stack[t] # <<>>
        BY <2>2, <3>0 DEF SettledBy
      <4>2. L \in Nat /\ L >= 1 /\ Head(stack[t]) = stack[t][1]
        BY <3>1, <4>1, LenProperties, EmptySeq, HeadTailProperties
      <4>. QED  BY <3>1, <4>2 DEF FrameAt
    <3>3. PICK how, v : how = state'[a] /\ v = result'[a]
      OBVIOUS
    <3>4. Judged(a, FrameAt(t, L))
      BY <3>1, <3>2 DEF Verdicts, CallsJust
    <3>5. Just(a, how, v)
      BY <2>2, <3>2, <3>3, <3>4 DEF Judged, Outcomes, SettledBy
    <3>6. Just(a, how, v)'
      BY <3>5 DEF JustKept
    <3>. QED  BY <3>3, <3>6 DEF Just, Earned
  <2>. QED  BY <1>2, <2>1, <2>2 DEF Calm
<1>4. ASSUME NEW a \in Aggregates, NEW d \in 1..Len(stack'[t])
      PROVE  Judged(a, FrameAt(t, d))'
  <2>1. PICK f : f = FrameAt(t, d)'
    OBVIOUS
  <2>2. Steady(K, f) \/ Handles(f) \/ (d \in 1..Len(stack[t]) /\ f = FrameAt(t, d))
    <3>1. PICK b, fs, N : Moved(K, t, b, fs, N)
      BY MovedFrames
    <3>2. \/ d \in 1..Len(stack[t]) /\ FrameAt(t, d)' = FrameAt(t, d)
          \/ \E k \in 1..N : FrameAt(t, d)' = fs[k]
      BY <3>1 DEF Moved
    <3>3. \A k \in 1..N : Steady(K, fs[k]) \/ Handles(fs[k])
      BY <3>1 DEF Moved, Joins
    <3>. QED  BY <2>1, <3>2, <3>3
  <2>3. ASSUME f.kind \in {"resolve", "reject"}, f.on = a
        PROVE  Just(a, Outcomes[f.kind], f.value)'
    <3>1. Judged(a, f)
      BY <2>2, <2>3 DEF Steady, Handles, Verdicts, CallsJust
    <3>2. PICK how, v : how = Outcomes[f.kind] /\ v = f.value
      OBVIOUS
    <3>3. Just(a, how, v)'
      BY <2>3, <3>1, <3>2 DEF JustKept, Judged
    <3>. QED  BY <3>2, <3>3 DEF Just, Earned, Outcomes
  <2>. QED  BY <2>1, <2>3 DEF Judged, Just, Earned, Outcomes
<1>5. ASSUME NEW a \in Aggregates, phase[a] = "threw"  PROVE state'[a] = "Rejected"
  BY <1>2, <1>5 DEF Calm, SettledBy, Verdicts, Threw
<1>6. StatesJust' /\ CallsJust(t)' /\ Threw(t)'
  BY <1>1, <1>3, <1>4, <1>5 DEF StatesJust, CallsJust, Threw
<1>. QED  BY <1>6 DEF Verdicts

---------------------------------------------------------------------------
(* What a step leaves as it is: the outcomes, the elements, and who is ready. *)
Stays ==
  /\ \A p \in Promises : Settled(p) => state'[p] = state[p] /\ result'[p] = result[p]
  /\ \A q \in Promises : IsElement(q) => element'[q] = element[q]

Grows == ready' = ready \/ \E x \in Promises : ready' = Append(ready, x)

LEMMA ReadyGrows ==
  ASSUME ready \in Seq(Promises), Grows, NEW n, n = Len(ready)
  PROVE  /\ n \in Nat /\ ready' \in Seq(Promises)
         /\ \A i \in 1..n : i \in 1..Len(ready') /\ ready'[i] = ready[i]
         /\ \A i \in 1..Len(ready') : i \in 1..n \/ (i = n + 1 /\ ready' = Append(ready, ready'[i]))
<1>1. n \in Nat
  BY LenProperties
<1>2. CASE ready' = ready
  BY <1>1, <1>2
<1>3. ASSUME NEW x \in Promises, ready' = Append(ready, x)
      PROVE  /\ ready' \in Seq(Promises) /\ Len(ready') = n + 1 /\ ready'[n + 1] = x
             /\ \A i \in 1..n : ready'[i] = ready[i]
  BY <1>3, AppendProperties
<1>. QED  BY <1>1, <1>2, <1>3 DEF Grows

(* The first to decide stays the first.                                     *)
LEMMA FirstKept ==
  ASSUME ReadyInv, ElementsInv, Stays, Grows, NEW a, combinator'[a] = combinator[a],
         NEW i \in First(a)
  PROVE  /\ i \in First(a)' /\ i \in 1..Len(ready) /\ i \in 1..Len(ready') /\ ready'[i] = ready[i]
         /\ element'[ready[i]] = element[ready[i]]
         /\ LET p == element[ready[i]].src IN state'[p] = state[p] /\ result'[p] = result[p]
<1>1. PICK n : n = Len(ready)
  OBVIOUS
<1>2. ready \in Seq(Promises)
  BY DEF ReadyInv
<1>3. /\ n \in Nat
      /\ \A j \in 1..n : j \in 1..Len(ready') /\ ready'[j] = ready[j]
  BY <1>1, <1>2, ReadyGrows
<1>4. \A j \in 1..n :
        /\ element'[ready[j]] = element[ready[j]]
        /\ state'[element[ready[j]].src] = state[element[ready[j]].src]
        /\ result'[element[ready[j]].src] = result[element[ready[j]].src]
  <2>1. TAKE j \in 1..n
  <2>2. ready[j] \in Promises /\ IsElement(ready[j]) /\ Settled(element[ready[j]].src)
    BY <1>1, <1>2, ElementOfSeq DEF ReadyInv
  <2>3. element[ready[j]].src \in Promises
    BY <2>2 DEF ElementsInv, IsElement
  <2>. QED  BY <2>2, <2>3 DEF Stays
<1>5. Deciding(a)' = Deciding(a)
  BY DEF Deciding
<1>6. \A j \in 1..n : Decides(a, j)' <=> Decides(a, j)
  BY <1>3, <1>4, <1>5 DEF Decides
<1>7. i \in 1..n /\ Decides(a, i) /\ \A j \in 1..(i - 1) : ~ Decides(a, j)
  BY <1>1 DEF First
<1>8. \A j \in 1..(i - 1) : j \in 1..n
  BY <1>3, <1>7
<1>9. \A j \in 1..(i - 1) : ~ Decides(a, j)'
  BY <1>6, <1>7, <1>8
<1>10. Decides(a, i)' /\ i \in 1..Len(ready')
  BY <1>3, <1>6, <1>7
<1>11. i \in First(a)'
  BY <1>9, <1>10 DEF First
<1>. QED  BY <1>1, <1>3, <1>4, <1>7, <1>11

(* A verdict stays just while the aggregate's executor has ended.           *)
LEMMA JustStays ==
  ASSUME ReadyInv, ElementsInv, Stays, Grows,
         \A a \in Aggregates :
           /\ combinator'[a] = combinator[a]
           /\ phase[a] \in {"done", "threw"} => phase'[a] = phase[a]
           /\ phase[a] = "done" /\ remaining[a] = 0 => remaining'[a] = 0
  PROVE  JustKept
<1>1. ASSUME NEW a \in Aggregates, NEW how, NEW v, Just(a, how, v)
      PROVE  Just(a, how, v)'
  <2>1. phase'[a] = phase[a] /\ phase[a] \in {"done", "threw"} /\ combinator'[a] = combinator[a]
    BY <1>1 DEF Just
  <2>2. ASSUME phase[a] = "done"  PROVE Earned(a, how, v)'
    <3>1. Earned(a, how, v)
      BY <1>1, <2>2 DEF Just
    <3>2. remaining[a] = 0 => remaining'[a] = 0
      BY <2>2
    <3>3. ASSUME NEW i \in First(a),
                 how = state[element[ready[i]].src], v = result[element[ready[i]].src]
          PROVE  \E j \in First(a)' : how = state'[element'[ready'[j]].src]
                                      /\ v = result'[element'[ready'[j]].src]
      BY <2>1, <3>3, FirstKept
    <3>4. CASE \/ how = "Fulfilled" /\ combinator[a] \in {"all", "allSettled"}
               \/ how = "Rejected" /\ combinator[a] = "any"
      BY <2>1, <3>1, <3>2, <3>4 DEF Earned
    <3>5. CASE ~ (\/ how = "Fulfilled" /\ combinator[a] \in {"all", "allSettled"}
                  \/ how = "Rejected" /\ combinator[a] = "any")
      <4>1. \E i \in First(a) : how = state[element[ready[i]].src] /\ v = result[element[ready[i]].src]
        BY <3>1, <3>5 DEF Earned
      <4>. QED  BY <2>1, <3>3, <3>5, <4>1 DEF Earned
    <3>. QED  BY <3>4, <3>5
  <2>. QED  BY <2>1, <2>2 DEF Just
<1>. QED  BY <1>1 DEF JustKept

(* What is recorded stays so.                                              *)
LEMMA RecordedStays ==
  ASSUME Recorded, ElementsInv, Stays, UNCHANGED element,
         \A q \in Promises : IsElement(q) => Slot(q)' = Slot(q),
         \A a \in Aggregates : combinator'[a] = combinator[a]
  PROVE  Recorded'
<1>1. SUFFICES ASSUME NEW q \in Promises, IsElement(q)', Slot(q)' # Hole'
               PROVE  LET p == element[q].src
                      IN  /\ Settled(p)' /\ Slot(q)' = Outcome(p)'
                          /\ combinator'[element[q].of] = "all" => state'[p] = "Fulfilled"
                          /\ combinator'[element[q].of] = "any" => state'[p] = "Rejected"
  BY DEF Recorded
<1>2. IsElement(q) /\ Slot(q)' = Slot(q) /\ Slot(q) # Hole
  BY <1>1 DEF IsElement, Hole
<1>3. element[q].of \in Aggregates /\ element[q].src \in Promises
  BY <1>2 DEF ElementsInv, IsElement
<1>4. PICK p : p = element[q].src
  OBVIOUS
<1>5. /\ Settled(p) /\ Slot(q) = Outcome(p)
      /\ combinator[element[q].of] = "all" => state[p] = "Fulfilled"
      /\ combinator[element[q].of] = "any" => state[p] = "Rejected"
  BY <1>2, <1>4 DEF Recorded
<1>6. state'[p] = state[p] /\ result'[p] = result[p]
  BY <1>3, <1>4, <1>5 DEF Stays
<1>7. Outcome(p)' = Outcome(p) /\ Settled(p)'
  BY <1>5, <1>6 DEF Outcome, Settled, Entry
<1>. QED  BY <1>2, <1>3, <1>4, <1>5, <1>6, <1>7

(* A step of Promise.                                                      *)
LEMMA PromiseStays ==
  ASSUME NEW K, IsMore(K), IInv(K), NEW t \in Threads, PromiseStep(t), UNCHANGED element
  PROVE  Stays
<1>1. [Next]_vars
  BY DEF PromiseStep, Next
<1>2. \A p \in Promises : IsSettled(p) => state'[p] = state[p] /\ result'[p] = result[p]
  BY <1>1, StepStable
<1>. QED  BY <1>2 DEF Stays, Settled, IsSettled

---------------------------------------------------------------------------
(* The line, in terms of the frames counted from the bottom.                *)
LEMMA ShapeIs ==
  \A t, S, n : stack[t] \in Seq(S) /\ n = Len(stack[t]) =>
    /\ Shape(stack[t]) <=> \A d \in 1..n : /\ FrameAt(t, d).kind = "enqueue" => d = n
                                           /\ FrameAt(t, d).kind = "batch" => d = 1
    /\ BatchOf(stack[t]) =
         IF n # 0 /\ FrameAt(t, 1).kind = "batch" THEN FrameAt(t, 1).jobs ELSE <<>>
    /\ EnqueueOf(stack[t]) =
         IF n # 0 /\ FrameAt(t, n).kind = "enqueue" THEN FrameAt(t, n).jobs ELSE <<>>
<1>0. SUFFICES ASSUME NEW t, NEW S, NEW n, stack[t] \in Seq(S), n = Len(stack[t])
      PROVE  /\ Shape(stack[t]) <=> \A d \in 1..n : /\ FrameAt(t, d).kind = "enqueue" => d = n
                                                    /\ FrameAt(t, d).kind = "batch" => d = 1
             /\ BatchOf(stack[t]) =
                  IF n # 0 /\ FrameAt(t, 1).kind = "batch" THEN FrameAt(t, 1).jobs ELSE <<>>
             /\ EnqueueOf(stack[t]) =
                  IF n # 0 /\ FrameAt(t, n).kind = "enqueue" THEN FrameAt(t, n).jobs ELSE <<>>
  OBVIOUS
<1>1. PICK s : s = stack[t]
  OBVIOUS
<1>2. n \in Nat /\ (s = <<>> <=> n = 0) /\ n = Len(s)
  BY <1>0, <1>1, LenProperties, EmptySeq
<1>3. \A d : FrameAt(t, d) = s[n + 1 - d]
  BY <1>0, <1>1 DEF FrameAt
<1>4. Shape(s) <=> \A d \in 1..n : /\ FrameAt(t, d).kind = "enqueue" => d = n
                                   /\ FrameAt(t, d).kind = "batch" => d = 1
  <2>1. ASSUME Shape(s), NEW d \in 1..n
        PROVE  /\ FrameAt(t, d).kind = "enqueue" => d = n
               /\ FrameAt(t, d).kind = "batch" => d = 1
    <3>1. PICK k \in 1..n : k = n + 1 - d
      BY <1>2
    <3>2. (s[k].kind = "enqueue" => k = 1) /\ (s[k].kind = "batch" => k = n)
      BY <1>2, <2>1 DEF Shape
    <3>3. (k = 1 => d = n) /\ (k = n => d = 1)
      BY <1>2, <3>1
    <3>. QED  BY <1>3, <3>1, <3>2, <3>3
  <2>2. ASSUME \A d \in 1..n : /\ FrameAt(t, d).kind = "enqueue" => d = n
                               /\ FrameAt(t, d).kind = "batch" => d = 1,
               NEW k \in 1..n
        PROVE  (s[k].kind = "enqueue" => k = 1) /\ (s[k].kind = "batch" => k = n)
    <3>1. PICK d \in 1..n : d = n + 1 - k
      BY <1>2
    <3>2. n + 1 - d = k /\ (d = n => k = 1) /\ (d = 1 => k = n)
      BY <1>2, <3>1
    <3>. QED  BY <1>3, <2>2, <3>2
  <2>. QED  BY <1>2, <2>1, <2>2 DEF Shape
<1>5. FrameAt(t, 1) = s[n] /\ FrameAt(t, n) = s[1]
  <2>1. n + 1 - 1 = n /\ n + 1 - n = 1
    BY <1>2
  <2>. QED  BY <1>3, <2>1
<1>6. BatchOf(s) = IF n # 0 /\ FrameAt(t, 1).kind = "batch" THEN FrameAt(t, 1).jobs ELSE <<>>
  BY <1>2, <1>5 DEF BatchOf
<1>7. EnqueueOf(s) = IF n # 0 /\ FrameAt(t, n).kind = "enqueue" THEN FrameAt(t, n).jobs ELSE <<>>
  BY <1>2, <1>5 DEF EnqueueOf
<1>. QED  BY <1>1, <1>4, <1>6, <1>7

LEMMA ShapeIsNext ==
  (\A t, S, n : stack[t] \in Seq(S) /\ n = Len(stack[t]) =>
    /\ Shape(stack[t]) <=> \A d \in 1..n : /\ FrameAt(t, d).kind = "enqueue" => d = n
                                           /\ FrameAt(t, d).kind = "batch" => d = 1
    /\ BatchOf(stack[t]) =
         IF n # 0 /\ FrameAt(t, 1).kind = "batch" THEN FrameAt(t, 1).jobs ELSE <<>>
    /\ EnqueueOf(stack[t]) =
         IF n # 0 /\ FrameAt(t, n).kind = "enqueue" THEN FrameAt(t, n).jobs ELSE <<>>)'
BY ShapeIs, PTL

(* Frames that queue nothing and run no batch go and come on top.           *)
LEMMA TopQuiet ==
  ASSUME NEW t \in Threads, NEW S, stack[t] \in Seq(S), NEW T, stack'[t] \in Seq(T),
         Shape(stack[t]), NEW b, NEW fs, TopChanged(t, b, fs), NEW n, n = Len(stack[t]),
         \A k \in 1..Len(fs) : Quiet(fs[k]),
         \A d \in (b + 1)..n : Quiet(FrameAt(t, d)),
         b = n /\ n # 0 => FrameAt(t, n).kind # "enqueue"
  PROVE  /\ Shape(stack'[t]) /\ BatchOf(stack'[t]) = BatchOf(stack[t])
         /\ EnqueueOf(stack'[t]) = <<>> /\ EnqueueOf(stack[t]) = <<>>
<1>1. PICK N, m : N = Len(fs) /\ m = Len(stack'[t])
  OBVIOUS
<1>2. n \in Nat /\ b \in Nat /\ N \in Nat /\ b <= n /\ m = b + N
  BY <1>1, LenProperties DEF TopChanged
<1>0. /\ \A u \in Threads : \A d : d \in 1..Len(stack'[u]) =>
              \/ (u # t \/ d <= b) /\ d \in 1..Len(stack[u]) /\ FrameAt(u, d)' = FrameAt(u, d)
              \/ u = t /\ d > b /\ \E k \in 1..N : d = b + N + 1 - k /\ FrameAt(u, d)' = fs[k]
      /\ \A u \in Threads : \A d : d \in 1..Len(stack[u]) /\ (u # t \/ d <= b) =>
              d \in 1..Len(stack'[u]) /\ FrameAt(u, d)' = FrameAt(u, d)
  <2>1. Len(stack[t]) \in Nat /\ N = Len(fs) /\ TopChanged(t, b, fs)
    BY <1>1, <1>2
  <2>. QED  BY <2>1, TopFrames
<1>3. /\ \A d : d \in 1..m =>
           \/ d <= b /\ d \in 1..n /\ FrameAt(t, d)' = FrameAt(t, d)
           \/ d > b /\ \E k \in 1..N : d = b + N + 1 - k /\ FrameAt(t, d)' = fs[k]
      /\ \A d : d \in 1..n /\ d <= b => d \in 1..m /\ FrameAt(t, d)' = FrameAt(t, d)
  BY <1>0, <1>1
<1>4. /\ \A d \in 1..n : /\ FrameAt(t, d).kind = "enqueue" => d = n
                         /\ FrameAt(t, d).kind = "batch" => d = 1
      /\ BatchOf(stack[t]) =
           IF n # 0 /\ FrameAt(t, 1).kind = "batch" THEN FrameAt(t, 1).jobs ELSE <<>>
      /\ EnqueueOf(stack[t]) =
           IF n # 0 /\ FrameAt(t, n).kind = "enqueue" THEN FrameAt(t, n).jobs ELSE <<>>
  <2>1. stack[t] \in Seq(S) /\ n = Len(stack[t])
    OBVIOUS
  <2>2. Shape(stack[t])
    OBVIOUS
  <2>. QED  BY <2>1, <2>2, ShapeIs
<1>5. /\ Shape(stack'[t]) <=> \A d \in 1..m : /\ (FrameAt(t, d)').kind = "enqueue" => d = m
                                              /\ (FrameAt(t, d)').kind = "batch" => d = 1
      /\ BatchOf(stack'[t]) =
           IF m # 0 /\ (FrameAt(t, 1)').kind = "batch" THEN (FrameAt(t, 1)').jobs ELSE <<>>
      /\ EnqueueOf(stack'[t]) =
           IF m # 0 /\ (FrameAt(t, m)').kind = "enqueue" THEN (FrameAt(t, m)').jobs ELSE <<>>
  BY <1>1, ShapeIsNext
<1>6. \A d \in 1..m : /\ (FrameAt(t, d)').kind # "enqueue"
                      /\ (FrameAt(t, d)').kind = "batch" => d = 1
  <2>1. ASSUME NEW d \in 1..m, d <= b /\ d \in 1..n /\ FrameAt(t, d)' = FrameAt(t, d)
        PROVE  FrameAt(t, d).kind # "enqueue"
    <3>1. d = n => b = n /\ n # 0
      BY <1>2, <2>1
    <3>. QED  BY <1>4, <2>1, <3>1
  <2>. QED  BY <1>1, <1>3, <1>4, <2>1 DEF Quiet
<1>7. n # 0 => FrameAt(t, n).kind # "enqueue"
  <2>1. n # 0 /\ b # n => n \in (b + 1)..n
    BY <1>2
  <2>. QED  BY <2>1 DEF Quiet
<1>8. CASE b = 0
  <2>1. n # 0 => 1 \in (b + 1)..n
    BY <1>2, <1>8
  <2>2. n # 0 => FrameAt(t, 1).kind # "batch"
    BY <2>1 DEF Quiet
  <2>3. m # 0 => 1 \in 1..m
    BY <1>2
  <2>4. m # 0 => (FrameAt(t, 1)').kind # "batch"
    BY <1>1, <1>3, <1>8, <2>3 DEF Quiet
  <2>5. BatchOf(stack[t]) = <<>> /\ BatchOf(stack'[t]) = <<>>
    BY <1>4, <1>5, <2>2, <2>4
  <2>6. EnqueueOf(stack[t]) = <<>>
    BY <1>4, <1>7
  <2>7. EnqueueOf(stack'[t]) = <<>> /\ Shape(stack'[t])
    <3>1. m # 0 => m \in 1..m
      BY <1>2
    <3>. QED  BY <1>5, <1>6, <3>1
  <2>. QED  BY <2>5, <2>6, <2>7
<1>9. CASE b # 0
  <2>1. 1 \in 1..n /\ 1 <= b /\ n # 0 /\ m # 0
    BY <1>2, <1>9
  <2>2. FrameAt(t, 1)' = FrameAt(t, 1)
    BY <1>3, <2>1
  <2>3. BatchOf(stack'[t]) = BatchOf(stack[t])
    BY <1>4, <1>5, <2>1, <2>2
  <2>4. EnqueueOf(stack[t]) = <<>>
    BY <1>4, <1>7
  <2>5. EnqueueOf(stack'[t]) = <<>> /\ Shape(stack'[t])
    <3>1. m # 0 => m \in 1..m
      BY <1>2
    <3>. QED  BY <1>5, <1>6, <3>1
  <2>. QED  BY <2>3, <2>4, <2>5
<1>. QED  BY <1>8, <1>9

---------------------------------------------------------------------------
(* Where the frames of t are when those of fs have come on the lower b.      *)
Lands(t, b, fs, N) ==
  /\ N = Len(fs) /\ N \in Nat /\ b \in Nat
  /\ \A d : d \in 1..Len(stack'[t]) =>
       \/ d <= b /\ d \in 1..Len(stack[t]) /\ FrameAt(t, d)' = FrameAt(t, d)
       \/ d > b /\ \E k \in 1..N : d = b + N + 1 - k /\ FrameAt(t, d)' = fs[k]
  /\ \A d : d \in 1..Len(stack[t]) /\ d <= b =>
       d \in 1..Len(stack'[t]) /\ FrameAt(t, d)' = FrameAt(t, d)
  /\ \A k \in 1..N : \A d : d = b + N + 1 - k =>
       d \in 1..Len(stack'[t]) /\ FrameAt(t, d)' = fs[k]

LEMMA TopLands ==
  ASSUME NEW t \in Threads, NEW b, NEW fs, TopChanged(t, b, fs), Len(stack[t]) \in Nat
  PROVE  \E N : Lands(t, b, fs, N)
<1>2. PICK N : N = Len(fs)
  OBVIOUS
<1>3. b \in Nat /\ N \in Nat
  BY <1>2 DEF TopChanged
<1>4. /\ \A u \in Threads : \A d : d \in 1..Len(stack'[u]) =>
              \/ (u # t \/ d <= b) /\ d \in 1..Len(stack[u]) /\ FrameAt(u, d)' = FrameAt(u, d)
              \/ u = t /\ d > b /\ \E k \in 1..N : d = b + N + 1 - k /\ FrameAt(u, d)' = fs[k]
      /\ \A u \in Threads : \A d : d \in 1..Len(stack[u]) /\ (u # t \/ d <= b) =>
              d \in 1..Len(stack'[u]) /\ FrameAt(u, d)' = FrameAt(u, d)
      /\ \A k \in 1..N : \A d : d = b + N + 1 - k =>
              d \in 1..Len(stack'[t]) /\ FrameAt(t, d)' = fs[k]
  BY <1>2, TopFrames
<1>5. \A d : d \in 1..Len(stack'[t]) =>
           \/ d <= b /\ d \in 1..Len(stack[t]) /\ FrameAt(t, d)' = FrameAt(t, d)
           \/ d > b /\ \E k \in 1..N : d = b + N + 1 - k /\ FrameAt(t, d)' = fs[k]
  BY <1>4
<1>6. \A d : d \in 1..Len(stack[t]) /\ d <= b =>
           d \in 1..Len(stack'[t]) /\ FrameAt(t, d)' = FrameAt(t, d)
  BY <1>4
<1>7. Lands(t, b, fs, N)
  BY <1>2, <1>3, <1>4, <1>5, <1>6 DEF Lands
<1>. QED  BY <1>7

LEMMA LandsOnBatch ==
  ASSUME NEW t, NEW b, NEW fs, NEW N, Lands(t, b, fs, N), OnBatch(t),
         \A k \in 1..N : ~ Handles(fs[k])
  PROVE  OnBatch(t)'
<1>1. ASSUME NEW d \in 1..Len(stack'[t]), Handles(FrameAt(t, d)')
      PROVE  d = 3 /\ (FrameAt(t, 1)').kind = "batch"
  <2>1. d <= b /\ d \in 1..Len(stack[t]) /\ FrameAt(t, d)' = FrameAt(t, d) /\ b \in Nat
    BY <1>1 DEF Lands
  <2>2. d = 3 /\ FrameAt(t, 1).kind = "batch"
    BY <1>1, <2>1 DEF OnBatch
  <2>3. 1 \in 1..Len(stack[t]) /\ 1 <= b
    BY <2>1, <2>2
  <2>. QED  BY <2>2, <2>3 DEF Lands
<1>2. \A f : Handles(f)' <=> Handles(f)
  BY DEF Handles
<1>. QED  BY <1>1 DEF OnBatch

LEMMA LandsStrays ==
  ASSUME NEW t, NEW b, NEW fs, NEW N, Lands(t, b, fs, N), Strays(t),
         \A d \in 1..Len(stack[t]) :
           FrameAt(t, d).kind = "script" /\ FrameAt(t, d).thr \in Aggregates'
             => FrameAt(t, d).thr \in Aggregates,
         \A k \in 1..N : fs[k].kind = "script" /\ fs[k].thr \in Aggregates' =>
           \/ k + 1 \in 1..N /\ fs[k + 1].kind = "loop"
           \/ k = N /\ b \in 1..Len(stack[t]) /\ FrameAt(t, b).kind = "loop"
  PROVE  Strays(t)'
<1>1. ASSUME NEW d \in 1..Len(stack'[t]),
             (FrameAt(t, d)').kind = "script", (FrameAt(t, d)').thr \in Aggregates'
      PROVE  d - 1 \in 1..Len(stack'[t]) /\ (FrameAt(t, d - 1)').kind = "loop"
  <2>0. N \in Nat /\ b \in Nat
    BY DEF Lands
  <2>1. CASE d <= b /\ d \in 1..Len(stack[t]) /\ FrameAt(t, d)' = FrameAt(t, d)
    <3>1. d - 1 \in 1..Len(stack[t]) /\ FrameAt(t, d - 1).kind = "loop"
      BY <1>1, <2>1 DEF Strays
    <3>2. PICK e : e = d - 1
      OBVIOUS
    <3>3. e <= b
      BY <2>0, <2>1, <3>2
    <3>. QED  BY <3>1, <3>2, <3>3 DEF Lands
  <2>2. ASSUME NEW k \in 1..N, d = b + N + 1 - k, FrameAt(t, d)' = fs[k]
        PROVE  d - 1 \in 1..Len(stack'[t]) /\ (FrameAt(t, d - 1)').kind = "loop"
    <3>0. PICK e : e = d - 1
      OBVIOUS
    <3>1. CASE k + 1 \in 1..N /\ fs[k + 1].kind = "loop"
      <4>1. e = b + N + 1 - (k + 1)
        BY <2>0, <2>2, <3>0
      <4>. QED  BY <3>0, <3>1, <4>1 DEF Lands
    <3>2. CASE k = N /\ b \in 1..Len(stack[t]) /\ FrameAt(t, b).kind = "loop"
      <4>1. e = b /\ b <= b
        BY <2>0, <2>2, <3>0, <3>2
      <4>. QED  BY <3>0, <3>2, <4>1 DEF Lands
    <3>. QED  BY <1>1, <2>2, <3>1, <3>2
  <2>. QED  BY <1>1, <2>1, <2>2 DEF Lands
<1>. QED  BY <1>1 DEF Strays

(* The verdicts, when the aggregates stay what they are, but for one that is *)
(* made, and the calls that come are just.                                 *)
Unsettled(a, t) ==
  /\ state'[a] = "Pending" /\ phase'[a] = "loop"
  /\ \A d \in 1..Len(stack[t]) :
       ~ (FrameAt(t, d).kind \in {"resolve", "reject"} /\ FrameAt(t, d).on = a)

LEMMA LandsVerdicts ==
  ASSUME NEW t, NEW b, NEW fs, NEW N, Lands(t, b, fs, N), Verdicts(t), JustKept,
         \A a \in Aggregates' : a \in Aggregates \/ Unsettled(a, t),
         \A a \in Aggregates : state'[a] = state[a] /\ result'[a] = result[a],
         \A k \in 1..N : \A a \in Aggregates' : Judged(a, fs[k])',
         \A a \in Aggregates' : phase'[a] = "threw" =>
           \/ state'[a] = "Rejected"
           \/ state'[a] = "Pending" /\ Running(t, "reject")' /\ Head(stack'[t]).on = a
  PROVE  Verdicts(t)'
<1>1. ASSUME NEW a \in Aggregates', Settled(a)'  PROVE Just(a, state[a], result[a])'
  <2>1. a \in Aggregates /\ state'[a] = state[a] /\ result'[a] = result[a]
    BY <1>1 DEF Unsettled, Settled
  <2>2. Just(a, state[a], result[a])
    BY <1>1, <2>1 DEF Verdicts, StatesJust, Settled
  <2>3. PICK how, v : how = state[a] /\ v = result[a]
    OBVIOUS
  <2>4. Just(a, how, v)'
    BY <2>1, <2>2, <2>3 DEF JustKept
  <2>. QED  BY <2>1, <2>3, <2>4 DEF Just, Earned
<1>2. ASSUME NEW a \in Aggregates', NEW d \in 1..Len(stack'[t])
      PROVE  Judged(a, FrameAt(t, d))'
  <2>1. PICK f : f = FrameAt(t, d)'
    OBVIOUS
  <2>2. CASE d \in 1..Len(stack[t]) /\ f = FrameAt(t, d)
    <3>1. ASSUME f.kind \in {"resolve", "reject"}, f.on = a
          PROVE Just(a, Outcomes[f.kind], f.value)'
      <4>1. a \in Aggregates
        BY <2>2, <3>1 DEF Unsettled
      <4>2. Just(a, Outcomes[f.kind], f.value)
        BY <2>2, <3>1, <4>1 DEF Verdicts, CallsJust, Judged
      <4>3. PICK how, v : how = Outcomes[f.kind] /\ v = f.value
        OBVIOUS
      <4>4. Just(a, how, v)'
        BY <4>1, <4>2, <4>3 DEF JustKept
      <4>. QED  BY <4>3, <4>4 DEF Just, Earned, Outcomes
    <3>. QED  BY <2>1, <3>1 DEF Judged, Just, Earned, Outcomes
  <2>3. ASSUME NEW k \in 1..N, f = fs[k]  PROVE Judged(a, FrameAt(t, d))'
    <3>1. Judged(a, fs[k])'
      OBVIOUS
    <3>. QED  BY <2>1, <2>3, <3>1 DEF Judged, Just, Earned, Outcomes
  <2>. QED  BY <2>1, <2>2, <2>3 DEF Lands
<1>3. StatesJust' /\ CallsJust(t)' /\ Threw(t)'
  BY <1>1, <1>2 DEF StatesJust, CallsJust, Threw
<1>. QED  BY <1>3 DEF Verdicts

---------------------------------------------------------------------------
LEMMA CombStacks ==
  CombInv => \E S : stack \in [Threads -> Seq(S)]
<1>1. ASSUME CombInv  PROVE \E S : stack \in [Threads -> Seq(S)]
  <2>1. PICK K : K = Combined
    OBVIOUS
  <2>2. IInv(K)
    BY <1>1, <2>1, CombFacts
  <2>. QED  BY <2>2 DEF IInv
<1>. QED  BY <1>1

LEMMA CombStacksNext ==
  (CombInv => \E S : stack \in [Threads -> Seq(S)])'
BY CombStacks, PTL

(* The frames speak of promises that exist.                                 *)
LEMMA FrameBounds ==
  ASSUME CombInv, NEW t \in Threads, NEW d \in 1..Len(stack[t]), NEW f, f = FrameAt(t, d)
  PROVE  /\ f.kind \in {"resolve", "reject", "loop", "subscribe", "onFulfilled", "onRejected"} =>
              f.on \in Promises /\ f.on \in Existing
         /\ f.kind = "script" => f.thr \in Existing
<1>1. PICK K : K = Combined
  OBVIOUS
<1>2. IInv(K) /\ IsMore(K) /\ ScalarsOK
  BY <1>1, CombFacts
<1>3. stack[t] \in Seq(FitFrame(K))
  BY <1>2 DEF IInv
<1>4. f \in FitFrame(K)
  <2>1. PICK j : j = Len(stack[t]) + 1 - d
    OBVIOUS
  <2>2. j \in 1..Len(stack[t])
    BY <1>3, <2>1, LenProperties
  <2>3. stack[t][j] \in FitFrame(K)
    BY <1>3, <2>2, ElementOfSeq
  <2>. QED  BY <2>1, <2>3 DEF FrameAt
<1>5. created \in Nat /\ \A p \in Promises : p \in Nat /\ (p <= created => p \in Existing)
  BY <1>2, Numbers DEF Existing, Promises
<1>6. CASE f \in FitCall(K)
  BY <1>5, <1>6 DEF FitCall
<1>7. CASE f \in FitNative(K)
  BY <1>2, <1>5, <1>7 DEF FitNative, IsMore, Natives
<1>8. CASE f \in FitScript(K)
  BY <1>5, <1>8 DEF FitScript, ScriptFrame
<1>. QED  BY <1>4, <1>6, <1>7, <1>8 DEF FitFrame

(* The line when the frames that go and come queue nothing and run nothing.  *)
StillLine(t) ==
  /\ BatchOf(stack'[t]) = BatchOf(stack[t])
  /\ EnqueueOf(stack'[t]) = <<>> /\ EnqueueOf(stack[t]) = <<>>

LEMMA TopLine ==
  ASSUME CombInv, CombInv', NEW t \in Threads, Line(t),
         NEW b, NEW fs, TopChanged(t, b, fs), NEW n, n = Len(stack[t]),
         \A k \in 1..Len(fs) : Quiet(fs[k]),
         \A d \in (b + 1)..n : Quiet(FrameAt(t, d)),
         b = n /\ n # 0 => FrameAt(t, n).kind # "enqueue",
         EnqueueOf(stack[t]) = <<>> =>
           /\ InLine(BatchOf(stack[t]), queue', <<>>)
           /\ \A p \in Promises : Rising(reactions'[p])
  PROVE  Line(t)' /\ StillLine(t)
<1>1. PICK S : stack \in [Threads -> Seq(S)]
  BY CombStacks
<1>2. PICK T : stack' \in [Threads -> Seq(T)]
  BY CombStacksNext
<1>3. Shape(stack[t])
  BY DEF Line
<1>4. /\ Shape(stack'[t]) /\ BatchOf(stack'[t]) = BatchOf(stack[t])
      /\ EnqueueOf(stack'[t]) = <<>> /\ EnqueueOf(stack[t]) = <<>>
  <2>1. stack[t] \in Seq(S) /\ stack'[t] \in Seq(T)
    BY <1>1, <1>2
  <2>. QED  BY <1>3, <2>1, TopQuiet
<1>5. \A p \in Promises : Rising(reactions[p])'
  BY <1>4 DEF Rising
<1>. QED  BY <1>4, <1>5 DEF Line, StillLine

LEMMA SameLine ==
  ASSUME NEW t, Line(t), UNCHANGED <<queue, reactions>>, EnqueueOf(stack[t]) = <<>>
  PROVE  /\ InLine(BatchOf(stack[t]), queue', <<>>)
         /\ \A p \in Promises : Rising(reactions'[p])
BY DEF Line

(* A promise is made, or none.                                              *)
LEMMA BornStays ==
  ASSUME CombInv, UNCHANGED result,
         \/ UNCHANGED state
         \/ created < MaxPromises /\ state' = [state EXCEPT ![created + 1] = "Pending"],
         \A q \in Promises : IsElement(q) => element'[q] = element[q]
  PROVE  Stays /\ \A p \in Existing : state'[p] = state[p] /\ result'[p] = result[p]
<1>1. PICK K : K = Combined
  OBVIOUS
<1>2. IInv(K) /\ ScalarsOK
  BY <1>1, CombFacts
<1>3. created \in Nat /\ \A p \in Existing : p \in Promises /\ p <= created /\ p \in Nat
  BY <1>2, Numbers
<1>4. \A p \in Promises : Settled(p) => p \in Existing
  <2>1. ASSUME NEW p \in Promises, Settled(p)  PROVE p \in Existing
    <3>1. ~ (p > created)
      BY <1>2, <2>1 DEF IInv, BornInOrder, Settled
    <3>. QED  BY <1>3, <3>1 DEF Existing, Promises
  <2>. QED  BY <2>1
<1>5. \A p \in Existing : state'[p] = state[p]
  BY <1>2, <1>3 DEF ScalarsOK
<1>. QED  BY <1>4, <1>5 DEF Stays

---------------------------------------------------------------------------
(* What one thread adds that is about the frames.                           *)
Frames(t) == Line(t) /\ OnBatch(t) /\ Phases(t) /\ Strays(t) /\ Verdicts(t) /\ Recorded

LEMMA LandsHandling ==
  ASSUME NEW t, NEW b, NEW fs, NEW N, Lands(t, b, fs, N), NEW n, n = Len(stack[t]), n \in Nat,
         \A k \in 1..N : ~ Handles(fs[k]),
         \A d \in (b + 1)..n : ~ Handles(FrameAt(t, d))
  PROVE  \A q : Handling(t, q)' <=> Handling(t, q)
<1>1. b \in Nat
  BY DEF Lands
<1>2. ASSUME NEW q, Handling(t, q)  PROVE Handling(t, q)'
  <2>1. PICK d \in 1..n : Handles(FrameAt(t, d)) /\ FrameAt(t, d).on = q
    BY <1>2 DEF Handling
  <2>2. d <= b
    BY <1>1, <2>1
  <2>3. d \in 1..Len(stack'[t]) /\ FrameAt(t, d)' = FrameAt(t, d)
    BY <2>2 DEF Lands
  <2>. QED  BY <2>1, <2>3 DEF Handling, Handles
<1>3. ASSUME NEW q, Handling(t, q)'  PROVE Handling(t, q)
  <2>1. PICK d \in 1..Len(stack'[t]) : Handles(FrameAt(t, d)') /\ (FrameAt(t, d)').on = q
    BY <1>3 DEF Handling, Handles
  <2>2. d \in 1..Len(stack[t]) /\ FrameAt(t, d)' = FrameAt(t, d)
    BY <2>1 DEF Lands
  <2>. QED  BY <2>1, <2>2 DEF Handling
<1>. QED  BY <1>2, <1>3

LEMMA CombineOne ==
  ASSUME CombInv, CombInv', NEW t \in Threads, Threads = {t}, Frames(t), ReadyInv,
         NEW k \in Kinds, Combine(t, k), UNCHANGED ready
  PROVE  /\ Frames(t)' /\ StillLine(t) /\ Stays /\ \A q : Handling(t, q)' <=> Handling(t, q)
         /\ \A a \in Aggregates' : a \in Aggregates \/ a \notin Existing
<1>1. PICK K, p, L : K = Combined /\ p = created + 1 /\ L = Len(stack[t])
  OBVIOUS
<1>2. /\ IInv(K) /\ ScalarsOK /\ SlotsInv /\ ElementsInv /\ Aggregates \subseteq Existing
      /\ Line(t) /\ OnBatch(t) /\ Phases(t) /\ Strays(t) /\ Verdicts(t) /\ Recorded
  BY <1>1, CombFacts DEF CombInv, SlotsInv, Frames
<1>3. PICK fs : fs = <<Iterator(p), Loop(p)>>
  OBVIOUS
<1>4. /\ TopChanged(t, L, fs) /\ L \in Nat /\ Len(fs) = 2
      /\ fs[1] = Iterator(p) /\ fs[2] = Loop(p)
      /\ L # 0 => FrameAt(t, L).kind = "script"
  BY <1>1, <1>2, <1>3, CombineTop
<1>5. /\ fs[1].kind = "script" /\ fs[1].thr = p /\ fs[2].kind = "loop" /\ fs[2].on = p
  BY <1>4 DEF Iterator, Script, Loop, Call
<1>6. PICK N : Lands(t, L, fs, N)
  BY <1>1, <1>4, TopLands
<1>7. N = 2 /\ \A j \in 1..N : j = 1 \/ j = 2
  BY <1>4, <1>6 DEF Lands
<1>8. /\ created < MaxPromises /\ state' = [state EXCEPT ![p] = "Pending"]
      /\ combinator' = [combinator EXCEPT ![p] = k] /\ phase' = [phase EXCEPT ![p] = "loop"]
      /\ UNCHANGED <<result, reactions, queue, remaining, results, element, decided>>
      /\ InScript(t)
  BY <1>1 DEF Combine
<1>9. p \in Promises /\ p \notin Existing /\ k # "none"
  BY <1>1, <1>2, <1>8, Numbers, CombinatorsAssumption DEF Existing
<1>10. /\ p \notin Aggregates /\ \A a \in Promises : a # p =>
            combinator'[a] = combinator[a] /\ phase'[a] = phase[a]
       /\ combinator'[p] = k /\ phase'[p] = "loop" /\ state'[p] = "Pending"
  BY <1>2, <1>8, <1>9 DEF SlotsInv, ScalarsOK
<1>11. Aggregates' = Aggregates \cup {p}
  BY <1>9, <1>10 DEF Aggregates
<1>12. Stays /\ \A a \in Existing : state'[a] = state[a] /\ result'[a] = result[a]
  BY <1>1, <1>8, BornStays
<1>13. Line(t)' /\ StillLine(t)
  <2>1. \A j \in 1..Len(fs) : Quiet(fs[j])
    BY <1>4, <1>5 DEF Quiet
  <2>2. \A d \in (L + 1)..L : Quiet(FrameAt(t, d))
    BY <1>4
  <2>3. L # 0 => FrameAt(t, L).kind # "enqueue"
    BY <1>4
  <2>4. EnqueueOf(stack[t]) = <<>> =>
          InLine(BatchOf(stack[t]), queue', <<>>) /\ \A x \in Promises : Rising(reactions'[x])
    BY <1>2, <1>8, SameLine
  <2>. QED  BY <1>1, <1>2, <1>4, <2>1, <2>2, <2>3, <2>4, TopLine
<1>14. \A j \in 1..N : ~ Handles(fs[j])
  BY <1>5, <1>7 DEF Handles
<1>15. OnBatch(t)'
  BY <1>2, <1>6, <1>14, LandsOnBatch
<1>16. Strays(t)'
  <2>1. ASSUME NEW d \in 1..Len(stack[t]), FrameAt(t, d).kind = "script",
               FrameAt(t, d).thr \in Aggregates'
        PROVE  FrameAt(t, d).thr \in Aggregates
    BY <1>9, <1>11, <2>1, FrameBounds
  <2>2. \A j \in 1..N : fs[j].kind = "script" => j + 1 \in 1..N /\ fs[j + 1].kind = "loop"
    BY <1>5, <1>7
  <2>. QED  BY <1>2, <1>6, <2>1, <2>2, LandsStrays
<1>17. Phases(t)'
  <2>1. LoopsAfter(t, L, fs, N)
    BY <1>1, <1>4, <1>6, TopLoops DEF Lands
  <2>2. \A x, d : (\E j \in 1..N : d = L + N + 1 - j /\ fs[j].kind = "loop" /\ fs[j].on = x)
                    <=> d = L + 1 /\ x = p
    <3>1. 2 \in 1..N /\ L + N + 1 - 2 = L + 1
      BY <1>4, <1>7
    <3>. QED  BY <1>5, <1>7, <3>1
  <2>3. \A x : \A d : LoopAt(x, t, d)' <=> (LoopAt(x, t, d) \/ (d = L + 1 /\ x = p))
    <3>1. \A x : \A d : LoopAt(x, t, d) => d <= L
      BY <1>1, <1>4 DEF LoopAt
    <3>. QED  BY <2>1, <2>2, <3>1 DEF LoopsAfter
  <2>4. \A x : (\E d : LoopAt(x, t, d)') <=> (\E d : LoopAt(x, t, d)) \/ x = p
    BY <2>3
  <2>5. \A a \in Promises : phase'[a] = "loop" <=> \E d : LoopAt(a, t, d)'
    BY <1>2, <1>10, <2>4 DEF Phases
  <2>6. \A a \in Aggregates' : phase'[a] # "none"
    BY <1>2, <1>10, <1>11, <1>9 DEF Phases, Aggregates
  <2>. QED  BY <2>5, <2>6 DEF Phases
<1>18. \A a \in Aggregates : /\ combinator'[a] = combinator[a] /\ phase'[a] = phase[a]
                             /\ remaining'[a] = remaining[a]
                             /\ state'[a] = state[a] /\ result'[a] = result[a]
  BY <1>2, <1>8, <1>10, <1>12 DEF Aggregates
<1>19. Verdicts(t)'
  <2>1. JustKept
    BY <1>2, <1>12, <1>18, JustStays DEF Grows
  <2>2. \A a \in Aggregates' : a \in Aggregates \/ Unsettled(a, t)
    BY <1>9, <1>10, <1>11, FrameBounds DEF Unsettled
  <2>3. \A j \in 1..N : \A a \in Aggregates' : Judged(a, fs[j])'
    BY <1>5, <1>7 DEF Judged
  <2>4. ASSUME NEW a \in Aggregates', phase'[a] = "threw"
        PROVE  state'[a] = "Rejected"
    <3>1. a \in Aggregates /\ phase[a] = "threw"
      BY <1>10, <1>11, <1>18, <2>4
    <3>2. ~ Running(t, "reject")
      BY <1>8 DEF InScript, Running
    <3>. QED  BY <1>2, <1>18, <3>1, <3>2 DEF Verdicts, Threw
  <2>. QED  BY <1>2, <1>6, <1>18, <2>1, <2>2, <2>3, <2>4, LandsVerdicts
<1>20. Recorded'
  BY <1>2, <1>8, <1>12, <1>18, RecordedStays DEF Slot
<1>21. \A q : Handling(t, q)' <=> Handling(t, q)
  <2>1. \A d \in (L + 1)..L : ~ Handles(FrameAt(t, d))
    BY <1>4
  <2>. QED  BY <1>1, <1>4, <1>6, <1>14, <2>1, LandsHandling
<1>. QED  BY <1>9, <1>11, <1>12, <1>13, <1>15, <1>16, <1>17, <1>19, <1>20, <1>21 DEF Frames

---------------------------------------------------------------------------
(* The two frames at the top in an iterator.                                *)
LEMMA IteratorTop ==
  ASSUME CombInv, NEW t \in Threads, InIterator(t),
         NEW a, a = stack[t][2].on, NEW L, L = Len(stack[t])
  PROVE  /\ L \in Nat /\ L >= 2 /\ a \in Aggregates /\ a \in Existing /\ a \in Promises
         /\ LoopAt(a, t, L - 1)
         /\ FrameAt(t, L).kind = "script" /\ FrameAt(t, L - 1).kind = "loop"
         /\ \A T : \A fs \in Seq(T) : Leave(t, fs) => TopChanged(t, L - 2, fs)
<1>1. PICK K : K = Combined
  OBVIOUS
<1>2. IInv(K) /\ Serves(K) /\ Stacked(t) /\ K.own = Aggregates /\ Aggregates \subseteq Existing
  BY <1>1, CombFacts DEF CombInv, ExecInv, SlotsInv
<1>3. /\ stack[t] # <<>> /\ L \in Nat /\ L >= 2 /\ a \in K.own /\ a \in Promises
      /\ FrameAt(t, L) = Head(stack[t]) /\ LoopAt(a, t, L - 1) /\ Head(stack[t]) = Iterator(a)
  BY <1>2, LoopFrame
<1>4. FrameAt(t, L).kind = "script"
  BY <1>3 DEF Iterator, Script
<1>5. FrameAt(t, L - 1).kind = "loop"
  BY <1>3 DEF LoopAt
<1>6. \A T : \A fs \in Seq(T) : Leave(t, fs) => TopChanged(t, L - 2, fs)
  BY <1>2, LeaveLoop
<1>. QED  BY <1>2, <1>3, <1>4, <1>5, <1>6

(* What the iterator's steps take away is no call and no handler.            *)
LEMMA LeavesQuiet ==
  ASSUME CombInv, NEW t \in Threads, InIterator(t), NEW L, L = Len(stack[t])
  PROVE  \A d \in ((L - 2) + 1)..L : Quiet(FrameAt(t, d)) /\ ~ Handles(FrameAt(t, d))
<1>1. PICK a : a = stack[t][2].on
  OBVIOUS
<1>2. /\ L \in Nat /\ L >= 2
      /\ FrameAt(t, L).kind = "script" /\ FrameAt(t, L - 1).kind = "loop"
  BY <1>1, IteratorTop
<1>3. \A d \in ((L - 2) + 1)..L : d = L \/ d = L - 1
  BY <1>2
<1>. QED  BY <1>2, <1>3 DEF Quiet, Handles

LEMMA NextValueOne ==
  ASSUME CombInv, CombInv', NEW t \in Threads, Threads = {t}, Frames(t), ReadyInv,
         NEW v \in ElementValues, NextValue(t, v), UNCHANGED ready
  PROVE  Frames(t)' /\ StillLine(t) /\ Stays /\ \A q : Handling(t, q)' <=> Handling(t, q)
<1>1. PICK K, a, L, b : K = Combined /\ a = stack[t][2].on /\ L = Len(stack[t]) /\ b = L - 2
  OBVIOUS
<1>2. /\ IInv(K) /\ ScalarsOK /\ SlotsInv /\ ElementsInv /\ Aggregates \subseteq Existing
      /\ Line(t) /\ OnBatch(t) /\ Phases(t) /\ Strays(t) /\ Verdicts(t) /\ Recorded
  BY <1>1, CombFacts DEF CombInv, SlotsInv, Frames
<1>3. /\ InIterator(t)
      /\ results' = [results EXCEPT ![a] = Append(@, Hole)]
      /\ remaining' = [remaining EXCEPT ![a] = @ + 1]
      /\ UNCHANGED <<result, reactions, queue, combinator, phase, decided, element>>
  BY <1>1 DEF NextValue
<1>4. /\ L \in Nat /\ L >= 2 /\ a \in Aggregates /\ a \in Existing /\ a \in Promises
      /\ LoopAt(a, t, L - 1)
      /\ FrameAt(t, L).kind = "script" /\ FrameAt(t, L - 1).kind = "loop"
      /\ \A T : \A fs \in Seq(T) : Leave(t, fs) => TopChanged(t, L - 2, fs)
  BY <1>1, <1>3, IteratorTop
<1>5. PICK fs, N : /\ TopChanged(t, b, fs) /\ N = Len(fs) /\ Resumes(fs, N, a)
                   /\ N = 3 => fs[1].on = created + 1 /\ created < MaxPromises
  <2>1. CASE Leave(t, <<Call("subscribe", v, Undefined), Loop(a)>>)
    <3>1. PICK f, g : f = Call("subscribe", v, Undefined) /\ g = Loop(a)
      OBVIOUS
    <3>2. PICK fs : fs = <<f, g>>
      OBVIOUS
    <3>3. fs \in Seq({f, g}) /\ Len(fs) = 2 /\ fs[1] = f /\ fs[2] = g /\ Leave(t, fs)
      BY <2>1, <3>1, <3>2, TwoSeq
    <3>4. Resumes(fs, Len(fs), a) /\ Len(fs) # 3
      BY <3>1, <3>3 DEF Resumes, Call
    <3>5. TopChanged(t, b, fs)
      BY <1>1, <1>4, <3>3
    <3>6. PICK M : M = Len(fs)
      OBVIOUS
    <3>7. TopChanged(t, b, fs) /\ M = Len(fs) /\ Resumes(fs, M, a) /\ M # 3
      BY <3>4, <3>5, <3>6
    <3>. QED  BY <3>7
  <2>2. CASE /\ Leave(t, <<Call("resolve", created + 1, v),
                           Call("subscribe", created + 1, Undefined), Loop(a)>>)
             /\ created < MaxPromises
    <3>1. PICK f, g, h : /\ f = Call("resolve", created + 1, v)
                         /\ g = Call("subscribe", created + 1, Undefined) /\ h = Loop(a)
      OBVIOUS
    <3>2. PICK fs : fs = <<f, g, h>>
      OBVIOUS
    <3>3. /\ fs \in Seq({f, g, h}) /\ Len(fs) = 3
          /\ fs[1] = f /\ fs[2] = g /\ fs[3] = h /\ Leave(t, fs)
      BY <2>2, <3>1, <3>2, ThreeSeq
    <3>4. Resumes(fs, Len(fs), a) /\ fs[1].on = created + 1
      BY <3>1, <3>3 DEF Resumes, Call
    <3>5. TopChanged(t, b, fs)
      BY <1>1, <1>4, <3>3
    <3>. QED  BY <2>2, <3>4, <3>5
  <2>. QED  BY <1>1, <2>1, <2>2 DEF NextValue
<1>6. /\ N \in {2, 3} /\ fs[N].kind = "loop" /\ fs[N].on = a /\ fs[N - 1].kind = "subscribe"
      /\ N = 3 => fs[1].kind = "resolve"
      /\ \A j \in 1..N : j = N \/ j = N - 1 \/ (j = 1 /\ N = 3)
  BY <1>5 DEF Resumes, Loop, Call
<1>7. \A j \in 1..N :
        \/ fs[j].kind = "loop" /\ fs[j].on = a /\ j = N
        \/ fs[j].kind = "subscribe"
        \/ fs[j].kind = "resolve" /\ fs[j].on = created + 1 /\ created < MaxPromises
  BY <1>5, <1>6
<1>8. Len(stack[t]) \in Nat /\ Lands(t, b, fs, N) /\ b \in Nat
  <2>1. Len(stack[t]) \in Nat
    BY <1>1, <1>4
  <2>2. PICK M : Lands(t, b, fs, M)
    BY <1>5, <2>1, TopLands
  <2>3. M = N /\ b \in Nat
    BY <1>5, <2>2 DEF Lands
  <2>. QED  BY <2>1, <2>2, <2>3
<1>9. Stays /\ \A x \in Existing : state'[x] = state[x] /\ result'[x] = result[x]
  <2>1. UNCHANGED state \/ (created < MaxPromises /\ state' = [state EXCEPT ![created + 1] = "Pending"])
    BY DEF NextValue
  <2>. QED  BY <1>3, <2>1, BornStays
<1>10. Line(t)' /\ StillLine(t)
  <2>1. \A j \in 1..Len(fs) : Quiet(fs[j])
    BY <1>5, <1>7 DEF Quiet
  <2>2. \A d \in (b + 1)..L : Quiet(FrameAt(t, d))
    BY <1>1, <1>3, LeavesQuiet
  <2>3. ~ (b = L)
    BY <1>1, <1>4
  <2>4. EnqueueOf(stack[t]) = <<>> =>
          InLine(BatchOf(stack[t]), queue', <<>>) /\ \A x \in Promises : Rising(reactions'[x])
    BY <1>2, <1>3, SameLine
  <2>. QED  BY <1>1, <1>2, <1>5, <2>1, <2>2, <2>3, <2>4, TopLine
<1>11. \A j \in 1..N : ~ Handles(fs[j])
  BY <1>7 DEF Handles
<1>12. OnBatch(t)'
  BY <1>2, <1>8, <1>11, LandsOnBatch
<1>13. Aggregates' = Aggregates
  BY <1>3 DEF Aggregates
<1>14. Strays(t)'
  <2>1. \A j \in 1..N : fs[j].kind # "script"
    BY <1>7
  <2>2. \A d \in 1..Len(stack[t]) :
          FrameAt(t, d).kind = "script" /\ FrameAt(t, d).thr \in Aggregates' => FrameAt(t, d).thr \in Aggregates
    BY <1>13
  <2>3. \A j \in 1..N : fs[j].kind = "script" /\ fs[j].thr \in Aggregates' =>
           \/ j + 1 \in 1..N /\ fs[j + 1].kind = "loop"
           \/ j = N /\ b \in 1..Len(stack[t]) /\ FrameAt(t, b).kind = "loop"
    BY <2>1
  <2>. QED  BY <1>2, <1>8, <2>2, <2>3, LandsStrays
<1>15. Phases(t)'
  <2>1. LoopsAfter(t, b, fs, N)
    BY <1>5, <1>8, TopLoops
  <2>2. \A x, d : (\E j \in 1..N : d = b + N + 1 - j /\ fs[j].kind = "loop" /\ fs[j].on = x)
                    <=> d = L - 1 /\ x = a
    <3>1. N \in 1..N /\ b + N + 1 - N = L - 1
      BY <1>1, <1>4, <1>6
    <3>2. \A j \in 1..N : fs[j].kind = "loop" => j = N
      BY <1>7
    <3>. QED  BY <1>6, <3>1, <3>2
  <2>3. \A x : \A d : LoopAt(x, t, d) => d <= b \/ (d = L - 1 /\ x = a)
    <3>1. ASSUME NEW x, NEW d, LoopAt(x, t, d), ~ (d <= b)  PROVE d = L - 1 /\ x = a
      <4>1. d \in 1..L /\ FrameAt(t, d).kind = "loop" /\ FrameAt(t, d).on = x
        BY <1>1, <3>1 DEF LoopAt
      <4>2. d = L - 1
        <5>1. d = L - 1 \/ d = L
          BY <1>1, <1>4, <3>1, <4>1
        <5>. QED  BY <1>4, <4>1, <5>1
      <4>. QED  BY <1>4, <4>1, <4>2 DEF LoopAt
    <3>. QED  BY <3>1
  <2>4. \A x : \A d : LoopAt(x, t, d)' <=> LoopAt(x, t, d)
    BY <1>4, <2>1, <2>2, <2>3 DEF LoopsAfter
  <2>. QED  BY <1>2, <1>3, <1>13, <2>4 DEF Phases
<1>16. phase[a] = "loop"
  BY <1>2, <1>4 DEF Phases
<1>17. \A x \in Aggregates :
          /\ combinator'[x] = combinator[x] /\ phase'[x] = phase[x]
          /\ phase[x] = "done" => remaining'[x] = remaining[x]
          /\ state'[x] = state[x] /\ result'[x] = result[x]
  <2>1. \A x \in Promises : x # a => remaining'[x] = remaining[x]
    BY <1>2, <1>3 DEF SlotsInv
  <2>. QED  BY <1>2, <1>3, <1>9, <1>16, <2>1 DEF Aggregates
<1>18. Verdicts(t)'
  <2>1. JustKept
    BY <1>2, <1>9, <1>17, JustStays DEF Grows
  <2>2. \A x \in Aggregates' : x \in Aggregates \/ Unsettled(x, t)
    BY <1>13
  <2>3. \A j \in 1..N : \A x \in Aggregates' : Judged(x, fs[j])'
    <3>1. \A x \in Aggregates : x # created + 1
      BY <1>2, Numbers
    <3>. QED  BY <1>7, <1>13, <3>1 DEF Judged
  <2>4. ASSUME NEW x \in Aggregates', phase'[x] = "threw"  PROVE state'[x] = "Rejected"
    <3>1. x \in Aggregates /\ phase[x] = "threw"
      BY <1>13, <1>17, <2>4
    <3>2. ~ Running(t, "reject")
      BY <1>3 DEF InIterator, Running
    <3>. QED  BY <1>2, <1>17, <3>1, <3>2 DEF Verdicts, Threw
  <2>. QED  BY <1>2, <1>8, <1>17, <2>1, <2>2, <2>3, <2>4, LandsVerdicts
<1>19. ASSUME NEW q \in Promises, IsElement(q)  PROVE Slot(q)' = Slot(q)
  <2>1. element[q].of \in Promises /\ element[q].index \in 1..Len(results[element[q].of])
    BY <1>2, <1>19 DEF ElementsInv, Aggregates
  <2>2. results \in [Promises -> Seq({Hole} \cup [status : {"fulfilled", "rejected"}, value : Value])]
    BY <1>2 DEF SlotsInv
  <2>3. \A i \in 1..Len(results[a]) : results'[a][i] = results[a][i]
    BY <1>3, <1>4, <2>2
  <2>4. \A x \in Promises : x # a => results'[x] = results[x]
    BY <1>3, <2>2
  <2>. QED  BY <1>3, <2>1, <2>3, <2>4 DEF Slot
<1>20. Recorded'
  BY <1>2, <1>3, <1>9, <1>17, <1>19, RecordedStays
<1>21. \A q : Handling(t, q)' <=> Handling(t, q)
  <2>1. \A d \in (b + 1)..L : ~ Handles(FrameAt(t, d))
    BY <1>1, <1>3, LeavesQuiet
  <2>. QED  BY <1>1, <1>4, <1>8, <1>11, <2>1, LandsHandling
<1>. QED  BY <1>9, <1>10, <1>12, <1>14, <1>15, <1>18, <1>20, <1>21 DEF Frames

---------------------------------------------------------------------------
(* The call that completes an aggregate.                                    *)
Completes(a, f) ==
  /\ f.on = a
  /\ \/ f.kind = "resolve" /\ combinator[a] \in {"all", "allSettled"} /\ f.value = ResultArray
     \/ f.kind = "reject" /\ combinator[a] = "any" /\ f.value = AggregateError

LEMMA CompleteCalls ==
  ASSUME NEW a, combinator[a] \in Kinds, NEW fs, fs = Complete(a)
  PROVE  Settles(fs, a) /\ \A k \in 1..Len(fs) : Completes(a, fs[k])
<1>1. Settles(fs, a)
  <2>1. Plain \subseteq Value
    BY DEF Value
  <2>. QED  BY <2>1, CompleteIs DEF Settles
<1>2. combinator[a] \in {"all", "race", "allSettled", "any"}
  BY CombinatorsAssumption
<1>3. CASE combinator[a] \in {"all", "allSettled"}
  <2>1. fs = <<Call("resolve", a, ResultArray)>>
    BY <1>3 DEF Complete
  <2>2. Len(fs) = 1 /\ fs[1] = Call("resolve", a, ResultArray)
    BY <2>1
  <2>. QED  BY <1>1, <1>3, <2>2 DEF Completes, Call
<1>4. CASE combinator[a] = "any"
  <2>1. fs = <<Call("reject", a, AggregateError)>>
    BY <1>4 DEF Complete
  <2>2. Len(fs) = 1 /\ fs[1] = Call("reject", a, AggregateError)
    BY <2>1
  <2>. QED  BY <1>1, <1>4, <2>2 DEF Completes, Call
<1>5. CASE combinator[a] = "race"
  <2>1. fs = <<>>
    BY <1>5 DEF Complete
  <2>2. Len(fs) = 0
    BY <2>1
  <2>. QED  BY <1>1, <2>2
<1>. QED  BY <1>2, <1>3, <1>4, <1>5

(* How the loop of a's executor ends.                                       *)
Ended(t, a, fs, ph) ==
  /\ Settles(fs, a) /\ Leave(t, fs) /\ phase' = [phase EXCEPT ![a] = ph]
  /\ \/ ph = "done" /\ \A k \in 1..Len(fs) : remaining[a] = 0 /\ Completes(a, fs[k])
     \/ ph = "threw" /\ Len(fs) = 1 /\ fs[1].kind = "reject" /\ fs[1].on = a

LEMMA LoopEndsHow ==
  ASSUME NEW t, NEW a, a = stack[t][2].on, combinator[a] \in Kinds,
         NextDone(t) \/ \E e \in Reasons : NextThrows(t, e)
  PROVE  \E fs, ph : Ended(t, a, fs, ph)
<1>1. CASE NextDone(t)
  <2>1. phase' = [phase EXCEPT ![a] = "done"]
    BY <1>1 DEF NextDone
  <2>2. CASE remaining[a] = 0 /\ Leave(t, Complete(a))
    <3>1. PICK fs : fs = Complete(a)
      OBVIOUS
    <3>2. Settles(fs, a) /\ \A k \in 1..Len(fs) : Completes(a, fs[k])
      BY <3>1, CompleteCalls
    <3>3. Leave(t, fs)
      BY <2>2, <3>1
    <3>4. Ended(t, a, fs, "done")
      BY <2>1, <2>2, <3>2, <3>3 DEF Ended
    <3>. QED  BY <3>4
  <2>3. CASE Leave(t, <<>>)
    <3>1. PICK fs : fs = <<>>
      OBVIOUS
    <3>2. Settles(fs, a) /\ Len(fs) = 0
      BY <3>1 DEF Settles
    <3>3. Leave(t, fs)
      BY <2>3, <3>1
    <3>4. \A k \in 1..Len(fs) : remaining[a] = 0 /\ Completes(a, fs[k])
      BY <3>2
    <3>5. Ended(t, a, fs, "done")
      BY <2>1, <3>2, <3>3, <3>4 DEF Ended
    <3>. QED  BY <3>5
  <2>. QED  BY <1>1, <2>2, <2>3 DEF NextDone
<1>2. ASSUME NEW e \in Reasons, NextThrows(t, e)
      PROVE  \E fs : Ended(t, a, fs, "threw")
  <2>1. PICK fs : fs = <<Call("reject", a, e)>>
    OBVIOUS
  <2>2. Leave(t, fs) /\ phase' = [phase EXCEPT ![a] = "threw"]
    BY <1>2, <2>1 DEF NextThrows
  <2>3. e \in Value
    BY PromiseAssumption
  <2>4. Settles(fs, a)
    BY <2>1, <2>3 DEF Settles
  <2>5. Len(fs) = 1 /\ fs[1] = Call("reject", a, e)
    BY <2>1
  <2>6. Ended(t, a, fs, "threw")
    BY <2>2, <2>4, <2>5 DEF Call, Ended
  <2>. QED  BY <2>6
<1>. QED  BY <1>1, <1>2

---------------------------------------------------------------------------
LEMMA LoopEndsOne ==
  ASSUME CombInv, CombInv', NEW t \in Threads, Threads = {t}, Frames(t), ReadyInv,
         NextDone(t) \/ \E e \in Reasons : NextThrows(t, e), UNCHANGED ready
  PROVE  Frames(t)' /\ StillLine(t) /\ Stays /\ \A q : Handling(t, q)' <=> Handling(t, q)
<1>1. PICK K, a, L, b : K = Combined /\ a = stack[t][2].on /\ L = Len(stack[t]) /\ b = L - 2
  OBVIOUS
<1>2. /\ IInv(K) /\ ScalarsOK /\ SlotsInv /\ ElementsInv /\ Aggregates \subseteq Existing
      /\ Line(t) /\ OnBatch(t) /\ Phases(t) /\ Strays(t) /\ Verdicts(t) /\ Recorded
      /\ \A x \in Aggregates : x \in Promises /\ combinator[x] \in Kinds
  BY <1>1, CombFacts DEF CombInv, SlotsInv, Frames
<1>3. InIterator(t)
  BY DEF NextDone, NextThrows
<1>4. /\ L \in Nat /\ L >= 2 /\ a \in Aggregates /\ a \in Existing /\ a \in Promises
      /\ LoopAt(a, t, L - 1)
      /\ FrameAt(t, L).kind = "script" /\ FrameAt(t, L - 1).kind = "loop"
      /\ \A T : \A fs \in Seq(T) : Leave(t, fs) => TopChanged(t, L - 2, fs)
  BY <1>1, <1>3, IteratorTop
<1>5. UNCHANGED <<created, state, result, reactions, queue, combinator, remaining, results, element>>
  BY <1>1, <1>2, <1>4, LoopEnds
<1>61. PICK fs, ph : Ended(t, a, fs, ph)
  <2>1. combinator[a] \in Kinds /\ a = stack[t][2].on
    BY <1>1, <1>2, <1>4
  <2>. QED  BY <2>1, LoopEndsHow
<1>6. /\ Settles(fs, a) /\ Leave(t, fs) /\ phase' = [phase EXCEPT ![a] = ph]
      /\ \/ ph = "done" /\ \A k \in 1..Len(fs) : remaining[a] = 0 /\ Completes(a, fs[k])
         \/ ph = "threw" /\ Len(fs) = 1 /\ fs[1].kind = "reject" /\ fs[1].on = a
  BY <1>61 DEF Ended
<1>7. /\ phase'[a] = ph /\ \A x \in Promises : x # a => phase'[x] = phase[x]
  BY <1>2, <1>4, <1>6 DEF SlotsInv
<1>8. PICK N : Lands(t, b, fs, N) /\ TopChanged(t, b, fs) /\ b \in Nat /\ N = Len(fs)
  <2>1. TopChanged(t, b, fs)
    BY <1>1, <1>4, <1>6, SettlesSeq
  <2>2. Len(stack[t]) \in Nat
    BY <1>1, <1>4
  <2>3. PICK M : Lands(t, b, fs, M)
    BY <2>1, <2>2, TopLands
  <2>4. M = Len(fs) /\ b \in Nat
    BY <2>3 DEF Lands
  <2>. QED  BY <2>1, <2>3, <2>4
<1>9. \A k \in 1..N : fs[k].kind \in {"resolve", "reject"} /\ fs[k].on = a /\ N = 1
  BY <1>6, <1>8, SettlesSeq
<1>10. Stays
  BY <1>5 DEF Stays
<1>11. Line(t)' /\ StillLine(t)
  <2>1. \A j \in 1..Len(fs) : Quiet(fs[j])
    BY <1>8, <1>9 DEF Quiet
  <2>2. \A d \in (b + 1)..L : Quiet(FrameAt(t, d))
    BY <1>1, <1>3, LeavesQuiet
  <2>3. ~ (b = L)
    BY <1>1, <1>4
  <2>4. EnqueueOf(stack[t]) = <<>> =>
          InLine(BatchOf(stack[t]), queue', <<>>) /\ \A x \in Promises : Rising(reactions'[x])
    BY <1>2, <1>5, SameLine
  <2>. QED  BY <1>1, <1>2, <1>8, <2>1, <2>2, <2>3, <2>4, TopLine
<1>12. \A j \in 1..N : ~ Handles(fs[j])
  BY <1>9 DEF Handles
<1>13. OnBatch(t)'
  BY <1>2, <1>8, <1>12, LandsOnBatch
<1>14. Aggregates' = Aggregates
  BY <1>5 DEF Aggregates
<1>15. Strays(t)'
  <2>2. \A d \in 1..Len(stack[t]) :
          FrameAt(t, d).kind = "script" /\ FrameAt(t, d).thr \in Aggregates' => FrameAt(t, d).thr \in Aggregates
    BY <1>14
  <2>3. \A j \in 1..N : fs[j].kind = "script" /\ fs[j].thr \in Aggregates' =>
           \/ j + 1 \in 1..N /\ fs[j + 1].kind = "loop"
           \/ j = N /\ b \in 1..Len(stack[t]) /\ FrameAt(t, b).kind = "loop"
    BY <1>9
  <2>. QED  BY <1>2, <1>8, <2>2, <2>3, LandsStrays
<1>16. phase[a] = "loop" /\ ph \in {"done", "threw"}
  BY <1>2, <1>4, <1>6 DEF Phases
<1>17. Phases(t)'
  <2>0. Len(stack[t]) \in Nat
    BY <1>1, <1>4
  <2>1. LoopsAfter(t, b, fs, N)
    BY <1>8, <2>0, TopLoops
  <2>2. \A x, d : ~ (\E j \in 1..N : d = b + N + 1 - j /\ fs[j].kind = "loop" /\ fs[j].on = x)
    BY <1>9
  <2>3. \A x : \A d : LoopAt(x, t, d) => (d <= b <=> x # a)
    <3>1. ASSUME NEW x, NEW d, LoopAt(x, t, d)  PROVE d <= b <=> x # a
      <4>1. d \in 1..L /\ FrameAt(t, d).kind = "loop" /\ FrameAt(t, d).on = x
        BY <1>1, <3>1 DEF LoopAt
      <4>2. d # L
        BY <1>4, <4>1
      <4>3. x = a => d = L - 1
        BY <1>4, <3>1 DEF CombInv, ExecInv, OneLoop
      <4>4. d = L - 1 => x = a
        BY <1>4, <4>1 DEF LoopAt
      <4>. QED  BY <1>1, <1>4, <4>1, <4>2, <4>3, <4>4
    <3>. QED  BY <3>1
  <2>4. \A x : \A d : LoopAt(x, t, d)' <=> (LoopAt(x, t, d) /\ x # a)
    BY <2>1, <2>2, <2>3 DEF LoopsAfter
  <2>5. \A x \in Promises : phase'[x] = "loop" <=> \E d : LoopAt(x, t, d)'
    BY <1>2, <1>7, <1>16, <2>4 DEF Phases
  <2>6. \A x \in Aggregates : phase'[x] # "none"
    BY <1>2, <1>7, <1>16 DEF Phases
  <2>. QED  BY <1>14, <2>5, <2>6 DEF Phases
<1>18. \A x \in Aggregates :
          /\ combinator'[x] = combinator[x] /\ remaining'[x] = remaining[x]
          /\ phase[x] \in {"done", "threw"} => phase'[x] = phase[x]
          /\ state'[x] = state[x] /\ result'[x] = result[x]
  BY <1>2, <1>5, <1>7, <1>16
<1>19. Verdicts(t)'
  <2>1. JustKept
    BY <1>2, <1>10, <1>18, JustStays DEF Grows
  <2>2. \A x \in Aggregates' : x \in Aggregates \/ Unsettled(x, t)
    BY <1>14
  <2>3. ASSUME NEW j \in 1..N, NEW x \in Aggregates'  PROVE Judged(x, fs[j])'
    <3>1. CASE ph = "threw"
      BY <1>7, <1>9, <3>1 DEF Judged, Just
    <3>2. CASE ph = "done"
      <4>1. remaining'[a] = 0 /\ Completes(a, fs[j]) /\ combinator'[a] = combinator[a]
        BY <1>4, <1>6, <1>8, <1>18, <3>2
      <4>2. Just(a, Outcomes[fs[j].kind], fs[j].value)'
        <5>1. CASE fs[j].kind = "resolve"
          <6>1. Outcomes[fs[j].kind] = "Fulfilled"
            BY <5>1 DEF Outcomes
          <6>. QED  BY <1>7, <3>2, <4>1, <5>1, <6>1 DEF Just, Earned, Completes, Outcomes
        <5>2. CASE fs[j].kind = "reject"
          <6>1. Outcomes[fs[j].kind] = "Rejected"
            BY <5>2 DEF Outcomes
          <6>. QED  BY <1>7, <3>2, <4>1, <5>2, <6>1 DEF Just, Earned, Completes, Outcomes
        <5>. QED  BY <1>9, <5>1, <5>2
      <4>. QED  BY <1>9, <4>2 DEF Judged
    <3>. QED  BY <1>6, <3>1, <3>2
  <2>4. ASSUME NEW x \in Aggregates', phase'[x] = "threw"
        PROVE  \/ state'[x] = "Rejected"
               \/ state'[x] = "Pending" /\ Running(t, "reject")' /\ Head(stack'[t]).on = x
    <3>1. CASE x # a
      <4>1. x \in Aggregates /\ phase[x] = "threw"
        BY <1>2, <1>7, <1>14, <2>4, <3>1
      <4>2. ~ Running(t, "reject")
        BY <1>3 DEF InIterator, Running
      <4>. QED  BY <1>2, <1>18, <4>1, <4>2 DEF Verdicts, Threw
    <3>2. CASE x = a
      <4>1. state[a] = "Pending"
        <5>1. ~ Settled(a)
          BY <1>2, <1>4, <1>16 DEF Verdicts, StatesJust, Just
        <5>2. state[a] # "Unborn"
          BY <1>2, <1>4, Numbers DEF IInv, BornInOrder
        <5>. QED  BY <1>2, <1>4, <5>1, <5>2 DEF ScalarsOK, Settled
      <4>2. N = 1 /\ fs[1].kind = "reject" /\ fs[1].on = a
        BY <1>6, <1>7, <1>8, <2>4, <3>2
      <4>3. Running(t, "reject")' /\ Head(stack'[t]).on = a
        <5>1. PICK T : stack' \in [Threads -> Seq(T)]
          BY CombStacksNext
        <5>2. PICK m : m = Len(stack'[t])
          OBVIOUS
        <5>3. m = b + N /\ m = b + 1
          BY <1>8, <4>2, <5>2 DEF TopChanged
        <5>4. 1 \in 1..N /\ m = b + N + 1 - 1
          BY <1>8, <4>2, <5>3
        <5>5. FrameAt(t, m)' = fs[1]
          BY <1>8, <5>4 DEF Lands
        <5>6. stack'[t] \in Seq(T) /\ m \in Nat /\ m >= 1
          BY <1>8, <5>1, <5>3
        <5>7. Head(stack'[t]) = stack'[t][1] /\ stack'[t] # <<>>
          BY <5>2, <5>6, EmptySeq, HeadTailProperties
        <5>8. FrameAt(t, m)' = stack'[t][1]
          BY <5>2, <5>6 DEF FrameAt
        <5>. QED  BY <4>2, <5>5, <5>7, <5>8 DEF Running
      <4>. QED  BY <1>18, <1>4, <3>2, <4>1, <4>3
    <3>. QED  BY <3>1, <3>2
  <2>. QED  BY <1>2, <1>8, <1>18, <2>1, <2>2, <2>3, <2>4, LandsVerdicts
<1>20. Recorded'
  BY <1>2, <1>5, <1>10, <1>18, RecordedStays DEF Slot
<1>21. \A q : Handling(t, q)' <=> Handling(t, q)
  <2>1. \A d \in (b + 1)..L : ~ Handles(FrameAt(t, d))
    BY <1>1, <1>3, LeavesQuiet
  <2>. QED  BY <1>1, <1>4, <1>8, <1>12, <2>1, LandsHandling
<1>. QED  BY <1>10, <1>11, <1>13, <1>15, <1>17, <1>19, <1>20, <1>21 DEF Frames

---------------------------------------------------------------------------
(* A new element has an empty slot; the others stay.                        *)
LEMMA RecordedGrows ==
  ASSUME Recorded, ElementsInv, Stays, UNCHANGED <<results, combinator>>, NEW s,
         Slot(s)' = Hole, \A q \in Promises : q # s => element'[q] = element[q]
  PROVE  Recorded'
<1>1. SUFFICES ASSUME NEW q \in Promises, IsElement(q)', Slot(q)' # Hole'
               PROVE  (LET p == element[q].src
                       IN  /\ Settled(p) /\ Slot(q) = Outcome(p)
                           /\ combinator[element[q].of] = "all" => state[p] = "Fulfilled"
                           /\ combinator[element[q].of] = "any" => state[p] = "Rejected")'
  BY DEF Recorded
<1>2. q # s /\ element'[q] = element[q]
  BY <1>1 DEF Hole
<1>3. IsElement(q) /\ Slot(q)' = Slot(q) /\ Slot(q) # Hole
  BY <1>1, <1>2 DEF IsElement, Hole, Slot, NoElement
<1>4. element[q].src \in Promises
  BY <1>3 DEF ElementsInv, IsElement
<1>5. PICK p : p = element[q].src
  OBVIOUS
<1>6. /\ Settled(p) /\ Slot(q) = Outcome(p)
      /\ combinator[element[q].of] = "all" => state[p] = "Fulfilled"
      /\ combinator[element[q].of] = "any" => state[p] = "Rejected"
  BY <1>3, <1>5 DEF Recorded
<1>7. state'[p] = state[p] /\ result'[p] = result[p]
  BY <1>4, <1>5, <1>6 DEF Stays
<1>8. /\ Outcome(element[q].src)' = Outcome(p)
      /\ state'[element'[q].src] \in {"Fulfilled", "Rejected"}
  BY <1>2, <1>5, <1>6, <1>7 DEF Outcome, Settled, Entry
<1>. QED  BY <1>2, <1>3, <1>5, <1>6, <1>7, <1>8 DEF Settled

(* The element's then(), of which the executor's iterator takes the place.   *)
LEMMA SubscribeOne ==
  ASSUME CombInv, CombInv', NEW t \in Threads, Threads = {t}, Frames(t), ReadyInv,
         Subscribe(t), Grows
  PROVE  /\ Frames(t)' /\ StillLine(t) /\ Stays /\ \A q : Handling(t, q)' <=> Handling(t, q)
         /\ \A q \in Promises : q # created + 1 => element'[q] = element[q]
         /\ created + 1 \in Promises /\ ~ IsElement(created + 1) /\ element'[created + 1] # NoElement
         /\ Head(stack[t]).on \in Promises /\ element'[created + 1].src = Head(stack[t]).on
<1>1. PICK K, a, L, b, s, p : /\ K = Combined /\ a = stack[t][2].on /\ L = Len(stack[t]) /\ b = L - 1
                              /\ s = created + 1 /\ p = Head(stack[t]).on
  OBVIOUS
<1>2. /\ IInv(K) /\ IsMore(K) /\ Serves(K) /\ ScalarsOK /\ SlotsInv /\ ElementsInv
      /\ Aggregates \subseteq Existing /\ Stacked(t) /\ SubscribeInv /\ K.own = Aggregates
      /\ Line(t) /\ OnBatch(t) /\ Phases(t) /\ Strays(t) /\ Verdicts(t) /\ Recorded
  BY <1>1, CombFacts DEF CombInv, SlotsInv, Frames, ExecInv
<1>3. /\ Running(t, "subscribe") /\ Register(p, OnFulfilled(s), OnRejected(s))
      /\ UNCHANGED <<result, combinator, phase, remaining, decided, results>>
  BY <1>1 DEF Subscribe
<1>4. /\ L \in Nat /\ L >= 2 /\ a \in Aggregates /\ a \in Promises
      /\ FrameAt(t, L) = Head(stack[t]) /\ FrameAt(t, L - 1) = stack[t][2]
      /\ LoopAt(a, t, L - 1) /\ SubscribeAt(a, t, L - 1) /\ p \in Promises
  BY <1>1, <1>2, <1>3, LoopFrame
<1>5. PICK fs : fs = <<Iterator(a)>>
  OBVIOUS
<1>6. /\ TopChanged(t, b, fs) /\ Len(fs) = 1 /\ fs[1] = Iterator(a)
      /\ FrameAt(t, L).kind = "subscribe"
  BY <1>1, <1>2, <1>4, <1>5, SubscribeTop
<1>7. fs[1].kind = "script" /\ fs[1].thr = a
  BY <1>6 DEF Iterator, Script
<1>8. PICK N : Lands(t, b, fs, N) /\ N = 1 /\ b \in Nat
  <2>1. Len(stack[t]) \in Nat
    BY <1>1, <1>4
  <2>2. PICK M : Lands(t, b, fs, M)
    BY <1>6, <2>1, TopLands
  <2>3. M = 1 /\ b \in Nat
    BY <1>6, <2>2 DEF Lands
  <2>. QED  BY <2>2, <2>3
<1>9. \A j \in 1..N : j = 1
  BY <1>8
<1>10. Len(results[a]) # 0 /\ Awaited(a, Len(results[a]))
  BY <1>2, <1>4 DEF SubscribeInv
<1>11. /\ s \in Promises /\ element'[s] # NoElement /\ element'[s].src = p /\ ~ IsElement(s)
       /\ \A q \in Promises : q # s => element'[q] = element[q]
       /\ Slot(s)' = Hole
  BY <1>1, <1>2, <1>4, <1>10, SubscribeSlots
<1>12. Stays /\ \A x \in Existing : state'[x] = state[x] /\ result'[x] = result[x]
  <2>1. created < MaxPromises /\ state' = [state EXCEPT ![created + 1] = "Pending"]
    BY <1>3 DEF Register
  <2>2. \A q \in Promises : IsElement(q) => element'[q] = element[q]
    BY <1>11
  <2>. QED  BY <1>3, <2>1, <2>2, BornStays
<1>13. Line(t)' /\ StillLine(t)
  <2>1. \A j \in 1..Len(fs) : Quiet(fs[j])
    BY <1>6, <1>7 DEF Quiet
  <2>2. \A d \in (b + 1)..L : Quiet(FrameAt(t, d))
    <3>1. \A d \in (b + 1)..L : d = L
      BY <1>1, <1>4
    <3>. QED  BY <1>6, <3>1 DEF Quiet
  <2>3. ~ (b = L)
    BY <1>1, <1>4
  <2>4. EnqueueOf(stack[t]) = <<>> =>
          InLine(BatchOf(stack[t]), queue', <<>>) /\ \A x \in Promises : Rising(reactions'[x])
    <3>1. ASSUME EnqueueOf(stack[t]) = <<>>
          PROVE  InLine(BatchOf(stack[t]), queue', <<>>) /\ \A x \in Promises : Rising(reactions'[x])
      <4>1. PICK bb : bb = BatchOf(stack[t])
        OBVIOUS
      <4>2. bb \in Seq(FitJob(K))
        BY <1>2, <4>1, Parts
      <4>3. InLine(bb, queue, <<>>) /\ \A x \in Promises : Rising(reactions[x])
        BY <1>2, <3>1, <4>1 DEF Line
      <4>4. InLine(bb, queue', <<>>) /\ \A x \in Promises : Rising(reactions'[x])
        BY <1>2, <1>3, <1>4, <4>2, <4>3, RegisterLine
      <4>. QED  BY <4>1, <4>4
    <3>. QED  BY <3>1
  <2>. QED  BY <1>1, <1>2, <1>6, <2>1, <2>2, <2>3, <2>4, TopLine
<1>14. \A j \in 1..N : ~ Handles(fs[j])
  BY <1>7, <1>9 DEF Handles
<1>15. OnBatch(t)'
  BY <1>2, <1>8, <1>14, LandsOnBatch
<1>16. Aggregates' = Aggregates
  BY <1>3 DEF Aggregates
<1>17. Strays(t)'
  <2>1. b \in 1..Len(stack[t]) /\ FrameAt(t, b).kind = "loop"
    BY <1>1, <1>4 DEF LoopAt
  <2>2. \A d \in 1..Len(stack[t]) :
          FrameAt(t, d).kind = "script" /\ FrameAt(t, d).thr \in Aggregates' => FrameAt(t, d).thr \in Aggregates
    BY <1>16
  <2>3. \A j \in 1..N : fs[j].kind = "script" /\ fs[j].thr \in Aggregates' =>
           \/ j + 1 \in 1..N /\ fs[j + 1].kind = "loop"
           \/ j = N /\ b \in 1..Len(stack[t]) /\ FrameAt(t, b).kind = "loop"
    BY <1>8, <1>9, <2>1
  <2>. QED  BY <1>2, <1>8, <2>2, <2>3, LandsStrays
<1>18. Phases(t)'
  <2>0. Len(stack[t]) \in Nat
    BY <1>1, <1>4
  <2>1. LoopsAfter(t, b, fs, N)
    BY <1>6, <1>8, <2>0, TopLoops
  <2>2. \A j \in 1..N : fs[j].kind # "loop"
    BY <1>7, <1>9
  <2>3. \A x : \A d : LoopAt(x, t, d) => d <= b
    <3>1. ASSUME NEW x, NEW d, LoopAt(x, t, d)  PROVE d <= b
      <4>1. d \in 1..L /\ d # L
        BY <1>1, <1>6, <3>1 DEF LoopAt
      <4>. QED  BY <1>1, <1>4, <4>1
    <3>. QED  BY <3>1
  <2>4. \A x : \A d : LoopAt(x, t, d)' <=> LoopAt(x, t, d)
    BY <2>1, <2>2, <2>3 DEF LoopsAfter
  <2>. QED  BY <1>2, <1>3, <1>16, <2>4 DEF Phases
<1>19. \A x \in Aggregates : state'[x] = state[x] /\ result'[x] = result[x]
  BY <1>2, <1>12
<1>20. Verdicts(t)'
  <2>1. JustKept
    BY <1>2, <1>3, <1>12, JustStays
  <2>2. \A x \in Aggregates' : x \in Aggregates \/ Unsettled(x, t)
    BY <1>16
  <2>3. \A j \in 1..N : \A x \in Aggregates' : Judged(x, fs[j])'
    BY <1>7, <1>9 DEF Judged
  <2>4. ASSUME NEW x \in Aggregates', phase'[x] = "threw"  PROVE state'[x] = "Rejected"
    <3>1. x \in Aggregates /\ phase[x] = "threw"
      BY <1>3, <1>16, <2>4
    <3>2. ~ Running(t, "reject")
      BY <1>3 DEF Running
    <3>. QED  BY <1>2, <1>19, <3>1, <3>2 DEF Verdicts, Threw
  <2>. QED  BY <1>2, <1>8, <1>19, <2>1, <2>2, <2>3, <2>4, LandsVerdicts
<1>21. Recorded'
  BY <1>2, <1>3, <1>11, <1>12, RecordedGrows
<1>22. \A q : Handling(t, q)' <=> Handling(t, q)
  <2>1. \A d \in (b + 1)..L : ~ Handles(FrameAt(t, d))
    <3>1. \A d \in (b + 1)..L : d = L
      BY <1>1, <1>4
    <3>. QED  BY <1>6, <3>1 DEF Handles
  <2>. QED  BY <1>1, <1>4, <1>8, <1>14, <2>1, LandsHandling
<1>23. Frames(t)'
  BY <1>13, <1>15, <1>17, <1>18, <1>20, <1>21 DEF Frames
<1>. QED  BY <1>1, <1>4, <1>11, <1>12, <1>13, <1>22, <1>23

---------------------------------------------------------------------------
(* Where the handler of the element q runs on one thread, and with what.    *)
HandlerAt(t, q) ==
  /\ Len(stack[t]) = 3 /\ stack[t] # <<>>
  /\ FrameAt(t, 1).kind = "batch"
  /\ FrameAt(t, 2).kind = "resolve" /\ FrameAt(t, 2).on = q
  /\ FrameAt(t, 3) = Head(stack[t]) /\ Handles(FrameAt(t, 3)) /\ FrameAt(t, 3).on = q
  /\ q \in Promises /\ IsElement(q) /\ Slot(q) = Hole /\ q \notin Aggregates
  /\ element[q].of \in Aggregates /\ element[q].of \in Promises /\ combinator[element[q].of] \in Kinds
  /\ element[q].src \in Promises
  /\ Running(t, "onFulfilled") => state[element[q].src] = "Fulfilled"
  /\ Running(t, "onRejected") => state[element[q].src] = "Rejected"
  /\ Settled(element[q].src) /\ Head(stack[t]).value = result[element[q].src]

LEMMA HandlerIsAt ==
  ASSUME CombInv, NEW t \in Threads, OnBatch(t),
         Running(t, "onFulfilled") \/ Running(t, "onRejected"),
         NEW q, q = Head(stack[t]).on
  PROVE  HandlerAt(t, q)
<1>1. PICK kind \in {"onFulfilled", "onRejected"} : Running(t, kind)
  OBVIOUS
<1>2. PICK K, L : K = Combined /\ L = Len(stack[t])
  OBVIOUS
<1>3. IInv(K) /\ Serves(K) /\ ScalarsOK /\ Stacked(t) /\ ElementsInv
  BY <1>2, CombFacts DEF CombInv, ExecInv
<1>4. /\ stack[t] # <<>> /\ L \in Nat /\ L >= 2
      /\ FrameAt(t, L) = Head(stack[t]) /\ FrameAt(t, L - 1) = stack[t][2]
      /\ stack[t][2] = Call("resolve", q, Undefined)
      /\ \E n \in K.native :
           /\ n.fn = kind /\ n.on = q
           /\ kind = "onFulfilled" =>
                state[n.src] = "Fulfilled" /\ result[n.src] = Head(stack[t]).value
           /\ kind = "onRejected" =>
                state[n.src] = "Rejected" /\ result[n.src] = Head(stack[t]).value
           /\ n.src \in Promises
  BY <1>1, <1>2, <1>3, HandlerFrame
<1>5. /\ q \in Promises /\ IsElement(q) /\ Slot(q) = Hole /\ q \notin Aggregates
      /\ element[q].of \in Aggregates /\ element[q].of \in Promises /\ combinator[element[q].of] \in Kinds
  BY HandlerFree
<1>6. Handles(FrameAt(t, L)) /\ FrameAt(t, L).on = q /\ Head(stack[t]).kind = kind
  BY <1>1, <1>4 DEF Handles, Running
<1>7. L = 3 /\ FrameAt(t, 1).kind = "batch"
  <2>1. L \in 1..Len(stack[t])
    BY <1>2, <1>4
  <2>. QED  BY <1>6, <2>1 DEF OnBatch
<1>8. FrameAt(t, 2).kind = "resolve" /\ FrameAt(t, 2).on = q
  BY <1>4, <1>7 DEF Call
<1>9. PICK n \in K.native :
           /\ n.fn = kind /\ n.on = q
           /\ kind = "onFulfilled" =>
                state[n.src] = "Fulfilled" /\ result[n.src] = Head(stack[t]).value
           /\ kind = "onRejected" =>
                state[n.src] = "Rejected" /\ result[n.src] = Head(stack[t]).value
           /\ n.src \in Promises
  BY <1>4
<1>10. n.src = element[q].src
  BY <1>1, <1>2, <1>9, CombinedIs
<1>11. \A k : Running(t, k) => k = kind
  BY <1>6 DEF Running
<1>. QED  BY <1>2, <1>4, <1>5, <1>6, <1>7, <1>8, <1>9, <1>10, <1>11 DEF HandlerAt, Settled

(* No executor runs meanwhile.                                              *)
LEMMA HandlerEnded ==
  ASSUME NEW t, NEW q, HandlerAt(t, q), Phases(t)
  PROVE  /\ \A x : \A d : ~ LoopAt(x, t, d)
         /\ \A x \in Aggregates : phase[x] # "loop" /\ phase[x] # "none"
<1>1. \A x : \A d : ~ LoopAt(x, t, d)
  <2>1. ASSUME NEW x, NEW d, LoopAt(x, t, d)  PROVE FALSE
    <3>1. d \in 1..3 /\ FrameAt(t, d).kind = "loop"
      BY <2>1 DEF LoopAt, HandlerAt
    <3>2. d = 1 \/ d = 2 \/ d = 3
      BY <3>1
    <3>. QED  BY <3>1, <3>2 DEF HandlerAt, Handles
  <2>. QED  BY <2>1
<1>. QED  BY <1>1 DEF Phases, Aggregates

(* The first decisive element of the aggregate is the one whose handler runs. *)
LEMMA FirstIsHandled ==
  ASSUME NEW t, OnBatch(t), ReadyInv, Queue(t), Undecided(t),
         NEW q \in Promises, Handling(t, q), NEW a \in Aggregates, a = element[q].of, ~ decided[a],
         state[element[q].src] \in Deciding(a)
  PROVE  \E i \in First(a) : ready[i] = q
<1>1. PICK i \in 1..Len(ready) : ready[i] = q
  BY DEF Queue, Ready
<1>2. Len(ready) \in Nat
  BY DEF ReadyInv
<1>3. Decides(a, i)
  BY <1>1 DEF Decides
<1>4. ASSUME NEW j \in 1..(i - 1), Decides(a, j)  PROVE FALSE
  <2>1. j \in 1..Len(ready) /\ j < i
    BY <1>1, <1>2
  <2>2. PICK r : r = ready[j]
    OBVIOUS
  <2>3. Waits(t, r)
    BY <1>4, <2>1, <2>2 DEF Undecided
  <2>4. ~ Turn(q, r)
    BY <1>1, <2>1, <2>2 DEF Turn
  <2>5. ~ Has(BatchOf(stack[t]), r) /\ ~ Has(queue, r)
    BY <2>4 DEF Queue, Behind, Has
  <2>6. ~ Handling(t, r)
    <3>1. ASSUME Handling(t, r)  PROVE r = q
      BY <3>1 DEF Handling, OnBatch
    <3>2. r # q
      BY <1>1, <2>1, <2>2 DEF ReadyInv
    <3>. QED  BY <3>1, <3>2
  <2>. QED  BY <2>3, <2>5, <2>6 DEF Waits
<1>. QED  BY <1>1, <1>3, <1>4 DEF First

(* What the handler of the element q of the aggregate a did: nothing was    *)
(* left to decide, the outcome was recorded, or it decided.                 *)
Skipped(a, fs) ==
  Len(fs) = 0 /\ decided[a] /\ UNCHANGED <<remaining, results, decided>>

Recording(q, a, fs) ==
  LET p == element[q].src
  IN  /\ results' = [results EXCEPT ![a][element[q].index] = Outcome(p)]
      /\ remaining' = [remaining EXCEPT ![a] = @ - 1]
      /\ \A k \in 1..Len(fs) : remaining[a] - 1 = 0 /\ Completes(a, fs[k])
      /\ state[p] \notin Deciding(a)
      /\ combinator[a] = "all" => state[p] = "Fulfilled"
      /\ combinator[a] = "any" => state[p] = "Rejected"
      /\ decided' = [decided EXCEPT ![a] = @ \/ (combinator[a] = "any" /\ remaining[a] - 1 = 0)]

DecidedBy(q, a, fs) ==
  LET p == element[q].src
  IN  /\ ~ decided[a] /\ decided' = [decided EXCEPT ![a] = TRUE]
      /\ UNCHANGED <<remaining, results>>
      /\ Len(fs) = 1 /\ fs[1].kind \in {"resolve", "reject"} /\ fs[1].on = a
      /\ Outcomes[fs[1].kind] = state[p] /\ fs[1].value = result[p]
      /\ state[p] \in Deciding(a)

Acted(t, q, a, fs) ==
  /\ Settles(fs, a) /\ Replace(t, fs)
  /\ Skipped(a, fs) \/ Recording(q, a, fs) \/ DecidedBy(q, a, fs)

---------------------------------------------------------------------------
LEMMA NoFrames ==
  \A s : Len(s) = 0 => \A k : k \notin 1..Len(s)
  OBVIOUS

LEMMA HandlerSkips ==
  ASSUME NEW t, NEW a, a = element[Head(stack[t]).on].of, Skip(t), NEW q
  PROVE  \E fs : Acted(t, q, a, fs)
<1>1. PICK fs : fs = <<>>
  OBVIOUS
<1>2. Settles(fs, a) /\ Len(fs) = 0
  BY <1>1 DEF Settles
<1>3. Replace(t, fs) /\ decided[a] /\ UNCHANGED <<remaining, results, decided>>
  BY <1>1 DEF Skip
<1>. QED  BY <1>2, <1>3 DEF Acted, Skipped

LEMMA HandlerRecords ==
  ASSUME NEW t, NEW q, q = Head(stack[t]).on, HandlerAt(t, q), NEW a, a = element[q].of,
         NEW status, Record(t, status),
         status = IF state[element[q].src] = "Fulfilled" THEN "fulfilled" ELSE "rejected",
         state[element[q].src] \notin Deciding(a),
         combinator[a] = "all" => state[element[q].src] = "Fulfilled",
         combinator[a] = "any" => state[element[q].src] = "Rejected"
  PROVE  \E fs : Acted(t, q, a, fs)
<1>1. PICK left : left = remaining[a] - 1
  OBVIOUS
<1>2. /\ results' = [results EXCEPT ![a][element[q].index] = Entry(status, Head(stack[t]).value)]
      /\ remaining' = [remaining EXCEPT ![a] = left]
      /\ Replace(t, IF left = 0 THEN Complete(a) ELSE <<>>)
      /\ decided' = [decided EXCEPT ![a] = @ \/ (combinator[a] = "any" /\ left = 0)]
  BY <1>1 DEF Record
<1>3. Entry(status, Head(stack[t]).value) = Outcome(element[q].src)
  BY DEF HandlerAt, Outcome
<1>4. remaining' = [remaining EXCEPT ![a] = @ - 1]
  BY <1>1, <1>2
<1>5. \E fs : /\ Settles(fs, a) /\ Replace(t, fs)
              /\ \A k \in 1..Len(fs) : left = 0 /\ Completes(a, fs[k])
  <2>1. CASE left = 0
    <3>1. PICK fs : fs = Complete(a)
      OBVIOUS
    <3>2. combinator[a] \in Kinds
      BY DEF HandlerAt
    <3>3. Settles(fs, a) /\ \A k \in 1..Len(fs) : Completes(a, fs[k])
      BY <3>1, <3>2, CompleteCalls
    <3>4. Replace(t, fs)
      BY <1>2, <2>1, <3>1
    <3>. QED  BY <2>1, <3>3, <3>4
  <2>2. CASE left # 0
    <3>1. PICK fs : fs = <<>>
      OBVIOUS
    <3>2. Settles(fs, a) /\ Len(fs) = 0
      BY <3>1 DEF Settles
    <3>3. Replace(t, fs)
      BY <1>2, <2>2, <3>1
    <3>4. \A k : k \notin 1..Len(fs)
      BY <3>2, NoFrames
    <3>. QED  BY <3>2, <3>3, <3>4
  <2>. QED  BY <2>1, <2>2
<1>6. PICK fs : /\ Settles(fs, a) /\ Replace(t, fs)
                /\ \A k \in 1..Len(fs) : left = 0 /\ Completes(a, fs[k])
  BY <1>5
<1>7. Recording(q, a, fs)
  BY <1>1, <1>2, <1>3, <1>4, <1>6 DEF Recording
<1>. QED  BY <1>6, <1>7 DEF Acted

LEMMA HandlerDecides ==
  ASSUME NEW t, NEW q, q = Head(stack[t]).on, HandlerAt(t, q), NEW a, a = element[q].of,
         NEW how \in {"resolve", "reject"}, Decide(t, how), ~ decided[a],
         Outcomes[how] = state[element[q].src], state[element[q].src] \in Deciding(a),
         how = "resolve" => Head(stack[t]).value \in Plain, Head(stack[t]).value \in Value
  PROVE  \E fs : Acted(t, q, a, fs)
<1>1. PICK v : v = Head(stack[t]).value
  OBVIOUS
<1>2. PICK fs : fs = <<Call(how, a, v)>>
  OBVIOUS
<1>3. /\ Replace(t, fs) /\ decided' = [decided EXCEPT ![a] = TRUE]
      /\ UNCHANGED <<remaining, results>>
  BY <1>1, <1>2 DEF Decide
<1>4. Settles(fs, a)
  BY <1>1, <1>2 DEF Settles
<1>5. Len(fs) = 1 /\ fs[1].kind = how /\ fs[1].on = a /\ fs[1].value = v
  BY <1>2 DEF Call
<1>6. v = result[element[q].src]
  BY <1>1 DEF HandlerAt
<1>7. DecidedBy(q, a, fs)
  BY <1>3, <1>5, <1>6 DEF DecidedBy
<1>. QED  BY <1>3, <1>4, <1>7 DEF Acted

LEMMA HandlerHow ==
  ASSUME CombInv, NEW t \in Threads, NEW q, q = Head(stack[t]).on, HandlerAt(t, q),
         NEW a, a = element[q].of, ElementFulfilled(t) \/ ElementRejected(t)
  PROVE  /\ \E fs : Acted(t, q, a, fs)
         /\ UNCHANGED <<created, state, result, reactions, lock, queue, exposed,
                        awaits, budget, combinator, phase, element>>
<1>1. UNCHANGED <<created, state, result, reactions, lock, queue, exposed,
                  awaits, budget, combinator, phase, element>>
  BY DEF ElementFulfilled, ElementRejected
<1>2. PICK p, v : p = element[q].src /\ v = Head(stack[t]).value
  OBVIOUS
<1>3. /\ p \in Promises /\ v = result[p]
      /\ combinator[a] \in {"all", "race", "allSettled", "any"}
  BY <1>2, CombinatorsAssumption DEF HandlerAt
<1>4. v \in Value /\ (state[p] = "Fulfilled" => v \in Plain)
  <2>1. PICK K : K = Combined
    OBVIOUS
  <2>2. IInv(K)
    BY <2>1, CombFacts
  <2>. QED  BY <1>3, <2>2 DEF IInv, ScalarsOK, FulfilledIsPlain
<1>5. Outcomes["resolve"] = "Fulfilled" /\ Outcomes["reject"] = "Rejected"
  BY DEF Outcomes
<1>6. CASE ElementFulfilled(t)
  <2>1. state[p] = "Fulfilled"
    BY <1>2, <1>6 DEF ElementFulfilled, HandlerAt
  <2>2. ASSUME combinator[a] \in {"all", "allSettled"}  PROVE state[p] \notin Deciding(a)
    BY <2>1, <2>2 DEF Deciding
  <2>3. ASSUME combinator[a] \in {"race", "any"}  PROVE state[p] \in Deciding(a)
    BY <2>1, <2>3 DEF Deciding
  <2>4. CASE Skip(t)
    BY <1>1, <2>4, HandlerSkips
  <2>5. CASE combinator[a] \in {"all", "allSettled"} /\ Record(t, "fulfilled")
    BY <1>1, <1>2, <2>1, <2>2, <2>5, HandlerRecords
  <2>6. CASE combinator[a] \in {"race", "any"} /\ ~ decided[a] /\ Decide(t, "resolve")
    BY <1>1, <1>2, <1>4, <1>5, <2>1, <2>3, <2>6, HandlerDecides
  <2>. QED  BY <1>1, <1>6, <2>4, <2>5, <2>6 DEF ElementFulfilled
<1>7. CASE ElementRejected(t)
  <2>1. state[p] = "Rejected"
    BY <1>2, <1>7 DEF ElementRejected, HandlerAt
  <2>2. ASSUME combinator[a] \in {"any", "allSettled"}  PROVE state[p] \notin Deciding(a)
    BY <2>1, <2>2 DEF Deciding
  <2>3. ASSUME combinator[a] \in {"race", "all"}  PROVE state[p] \in Deciding(a)
    BY <2>1, <2>3 DEF Deciding
  <2>4. CASE Skip(t)
    BY <1>1, <2>4, HandlerSkips
  <2>5. CASE combinator[a] \in {"any", "allSettled"} /\ Record(t, "rejected")
    BY <1>1, <1>2, <2>1, <2>2, <2>5, HandlerRecords
  <2>6. CASE combinator[a] \in {"race", "all"} /\ ~ decided[a] /\ Decide(t, "reject")
    BY <1>1, <1>2, <1>4, <1>5, <2>1, <2>3, <2>6, HandlerDecides
  <2>. QED  BY <1>1, <1>7, <2>4, <2>5, <2>6 DEF ElementRejected
<1>. QED  BY <1>6, <1>7

---------------------------------------------------------------------------
LEMMA HoleCounts ==
  ASSUME SlotsInv, ElementsInv, NEW q \in Promises, IsElement(q), Slot(q) = Hole
  PROVE  remaining[element[q].of] # 0 /\ remaining[element[q].of] \in Nat
<1>1. PICK a, i : a = element[q].of /\ i = element[q].index
  OBVIOUS
<1>2. a \in Promises /\ i \in 1..Len(results[a]) /\ results[a][i] = Hole
  BY <1>1 DEF ElementsInv, Aggregates, Slot
<1>3. i \in Holes(results[a])
  BY <1>2 DEF Holes
<1>4. IsFiniteSet(Holes(results[a]))
  BY <1>2, HolesFinite DEF SlotsInv
<1>5. Cardinality(Holes(results[a])) # 0
  BY <1>3, <1>4, FS_EmptySet
<1>. QED  BY <1>1, <1>2, <1>5 DEF SlotsInv

(* What the handler does to the slots and their counts.                     *)
LEMMA ActedSlots ==
  ASSUME CombInv, NEW t, NEW q, HandlerAt(t, q), NEW a, a = element[q].of, NEW fs, Acted(t, q, a, fs),
         UNCHANGED <<element, combinator, state, result>>, Recorded
  PROVE  /\ Recorded'
         /\ \A x \in Aggregates : remaining[x] = 0 => remaining'[x] = 0
         /\ \A x \in Promises : decided[x] => decided'[x]
         /\ decided'[a] \/ state[element[q].src] \notin Deciding(a)
<1>1. /\ SlotsInv /\ ElementsInv /\ \A x \in Aggregates : x \in Promises
  BY DEF CombInv, Aggregates
<1>2. PICK p : p = element[q].src
  OBVIOUS
<1>3. /\ q \in Promises /\ IsElement(q) /\ Slot(q) = Hole /\ a \in Promises /\ a \in Aggregates
      /\ p \in Promises /\ Settled(p)
  BY <1>2 DEF HandlerAt
<1>4. remaining[a] # 0 /\ remaining[a] \in Nat
  BY <1>1, <1>3, HoleCounts
<1>5. /\ \A x \in Aggregates : remaining[x] = 0 => remaining'[x] = 0
      /\ \A x \in Promises : decided[x] => decided'[x]
      /\ decided'[a] \/ state[p] \notin Deciding(a)
  <2>1. CASE Skipped(a, fs)
    BY <2>1 DEF Skipped
  <2>2. CASE Recording(q, a, fs)
    <3>1. /\ remaining' = [remaining EXCEPT ![a] = @ - 1]
          /\ decided' = [decided EXCEPT ![a] = @ \/ (combinator[a] = "any" /\ remaining[a] - 1 = 0)]
          /\ state[p] \notin Deciding(a)
      BY <1>2, <2>2 DEF Recording
    <3>2. \A x \in Aggregates : x # a => remaining'[x] = remaining[x]
      BY <1>1, <3>1 DEF SlotsInv
    <3>3. \A x \in Promises : decided[x] => decided'[x]
      BY <1>1, <3>1 DEF SlotsInv
    <3>. QED  BY <1>4, <3>1, <3>2, <3>3
  <2>3. CASE DecidedBy(q, a, fs)
    BY <1>1, <1>3, <2>3 DEF DecidedBy, SlotsInv
  <2>. QED  BY <2>1, <2>2, <2>3 DEF Acted
<1>6. Stays
  BY DEF Stays
<1>7. CASE UNCHANGED results
  <2>1. \A r \in Promises : IsElement(r) => Slot(r)' = Slot(r)
    BY <1>7 DEF Slot
  <2>2. Recorded'
    BY <1>1, <1>6, <2>1, RecordedStays
  <2>. QED  BY <1>2, <1>5, <2>2
<1>8. CASE Recording(q, a, fs)
  <2>1. PICK i : i = element[q].index
    OBVIOUS
  <2>2. /\ results' = [results EXCEPT ![a][i] = Outcome(p)]
        /\ combinator[a] = "all" => state[p] = "Fulfilled"
        /\ combinator[a] = "any" => state[p] = "Rejected"
    BY <1>2, <1>8, <2>1 DEF Recording
  <2>3. i \in 1..Len(results[a])
    BY <1>1, <1>3, <2>1 DEF ElementsInv
  <2>4. results \in [Promises -> Seq({Hole} \cup [status : {"fulfilled", "rejected"}, value : Value])]
    BY <1>1 DEF SlotsInv
  <2>5. /\ results'[a][i] = Outcome(p)
        /\ \A j \in 1..Len(results[a]) : j # i => results'[a][j] = results[a][j]
        /\ \A x \in Promises : x # a => results'[x] = results[x]
    BY <1>3, <2>2, <2>3, <2>4
  <2>6. Slot(q)' = Outcome(p)
    BY <2>1, <2>5 DEF Slot
  <2>7. ASSUME NEW r \in Promises, IsElement(r), r # q  PROVE Slot(r)' = Slot(r)
    <3>1. /\ element[r].of \in Promises /\ element[r].index \in 1..Len(results[element[r].of])
          /\ element[r].of = a => element[r].index # i
      BY <1>1, <1>3, <2>1, <2>7 DEF ElementsInv
    <3>. QED  BY <2>5, <3>1 DEF Slot
  <2>8. ASSUME NEW r \in Promises, IsElement(r)', Slot(r)' # Hole'
        PROVE  (LET x == element[r].src
                IN  /\ Settled(x) /\ Slot(r) = Outcome(x)
                    /\ combinator[element[r].of] = "all" => state[x] = "Fulfilled"
                    /\ combinator[element[r].of] = "any" => state[x] = "Rejected")'
    <3>1. CASE r = q
      <4>1. Settled(p)' /\ Outcome(p)' = Outcome(p)
        BY <1>3 DEF Settled, Outcome, Entry
      <4>. QED  BY <1>2, <2>2, <2>6, <3>1, <4>1 DEF Settled, Outcome, Entry
    <3>2. CASE r # q
      <4>1. IsElement(r) /\ Slot(r) # Hole /\ Slot(r)' = Slot(r)
        BY <2>7, <2>8, <3>2 DEF IsElement, Hole
      <4>2. LET x == element[r].src
            IN  /\ Settled(x) /\ Slot(r) = Outcome(x)
                /\ combinator[element[r].of] = "all" => state[x] = "Fulfilled"
                /\ combinator[element[r].of] = "any" => state[x] = "Rejected"
        BY <4>1 DEF Recorded
      <4>. QED  BY <4>1, <4>2 DEF Settled, Outcome, Entry
    <3>. QED  BY <3>1, <3>2
  <2>9. Recorded'
    BY <2>8 DEF Recorded
  <2>. QED  BY <1>2, <1>5, <2>9
<1>. QED  BY <1>7, <1>8 DEF Acted, Skipped, DecidedBy

(* What the handler calls is a just verdict.                                *)
LEMMA ActedJust ==
  ASSUME CombInv, NEW t, NEW q, HandlerAt(t, q), NEW a, a = element[q].of, NEW fs, Acted(t, q, a, fs),
         UNCHANGED <<element, combinator, state, result, phase, ready>>,
         phase[a] \in {"done", "threw"},
         OnBatch(t), ReadyInv, Queue(t), Undecided(t), NEW k \in 1..Len(fs)
  PROVE  Just(a, Outcomes[fs[k].kind], fs[k].value)'
<1>1. fs[k].kind \in {"resolve", "reject"} /\ fs[k].on = a
  BY SettlesSeq DEF Acted
<1>2. Outcomes["resolve"] = "Fulfilled" /\ Outcomes["reject"] = "Rejected"
  BY DEF Outcomes
<1>3. CASE Recording(q, a, fs)
  <2>1. remaining[a] - 1 = 0 /\ Completes(a, fs[k])
    BY <1>3 DEF Recording
  <2>2. remaining' = [remaining EXCEPT ![a] = @ - 1]
    BY <1>3 DEF Recording
  <2>3. remaining'[a] = 0
    BY <2>1, <2>2 DEF CombInv, SlotsInv, HandlerAt
  <2>4. Earned(a, Outcomes[fs[k].kind], fs[k].value)'
    BY <1>2, <2>1, <2>3 DEF Completes, Earned, Outcomes
  <2>. QED  BY <2>4 DEF Just, Outcomes
<1>4. CASE DecidedBy(q, a, fs)
  <2>1. PICK p : p = element[q].src
    OBVIOUS
  <2>2. /\ ~ decided[a] /\ Len(fs) = 1 /\ Outcomes[fs[1].kind] = state[p] /\ fs[1].value = result[p]
        /\ state[p] \in Deciding(a)
    BY <1>4, <2>1 DEF DecidedBy
  <2>3. k = 1
    BY <2>2
  <2>4. q \in Promises /\ a \in Aggregates /\ Handling(t, q)
    <3>1. 3 \in 1..Len(stack[t])
      BY DEF HandlerAt
    <3>. QED  BY <3>1 DEF HandlerAt, Handling
  <2>5. PICK i \in First(a) : ready[i] = q
    BY <2>1, <2>2, <2>4, FirstIsHandled
  <2>6. First(a)' = First(a)
    BY DEF First, Decides, Deciding
  <2>7. /\ ~ (state[p] = "Fulfilled" /\ combinator[a] \in {"all", "allSettled"})
        /\ ~ (state[p] = "Rejected" /\ combinator[a] = "any")
    BY <2>2 DEF Deciding
  <2>8. Earned(a, state[p], result[p])'
    BY <2>1, <2>5, <2>6, <2>7 DEF Earned
  <2>. QED  BY <2>2, <2>3, <2>8 DEF Just, Outcomes
<1>5. ~ Skipped(a, fs)
  BY NoFrames DEF Skipped
<1>. QED  BY <1>3, <1>4, <1>5 DEF Acted

---------------------------------------------------------------------------
LEMMA HandlerOne ==
  ASSUME CombInv, CombInv', NEW t \in Threads, Threads = {t}, Frames(t), ReadyInv,
         Queue(t), Undecided(t), ElementFulfilled(t) \/ ElementRejected(t), UNCHANGED ready,
         NEW q, q = Head(stack[t]).on, NEW a, a = element[q].of
  PROVE  /\ Frames(t)' /\ StillLine(t) /\ Stays /\ HandlerAt(t, q) /\ \A r : ~ Handling(t, r)'
         /\ \A x \in Promises : decided[x] => decided'[x]
         /\ decided'[a] \/ state[element[q].src] \notin Deciding(a)
         /\ UNCHANGED <<created, state, result, reactions, queue, combinator, element>>
<1>1. PICK K, L, b : K = Combined /\ L = Len(stack[t]) /\ b = 2
  OBVIOUS
<1>2. /\ IInv(K) /\ Serves(K) /\ ScalarsOK /\ SlotsInv /\ ElementsInv /\ Stacked(t)
      /\ Line(t) /\ OnBatch(t) /\ Phases(t) /\ Strays(t) /\ Verdicts(t) /\ Recorded
  BY <1>1, CombFacts DEF CombInv, SlotsInv, Frames, ExecInv
<1>3. Running(t, "onFulfilled") \/ Running(t, "onRejected")
  BY DEF ElementFulfilled, ElementRejected
<1>4. HandlerAt(t, q)
  BY <1>2, <1>3, HandlerIsAt
<1>5. PICK fs : Acted(t, q, a, fs)
  BY <1>4, HandlerHow
<1>6. UNCHANGED <<created, state, result, reactions, queue, combinator, phase, element>>
  BY <1>4, HandlerHow
<1>7. /\ L = 3 /\ a \in Aggregates /\ a \in Promises
      /\ FrameAt(t, 1).kind = "batch" /\ FrameAt(t, 2).kind = "resolve"
      /\ Handles(FrameAt(t, 3))
  BY <1>1, <1>4 DEF HandlerAt
<1>8. PICK N : Lands(t, b, fs, N) /\ TopChanged(t, b, fs) /\ N = Len(fs) /\ N \in Nat
  <2>1. Settles(fs, a) /\ Replace(t, fs)
    BY <1>5 DEF Acted
  <2>2. TopChanged(t, L - 1, fs)
    BY <1>1, <1>2, <1>3, <2>1, SettlesSeq, HandlerTop
  <2>3. L - 1 = b /\ Len(stack[t]) \in Nat
    BY <1>1, <1>7
  <2>4. TopChanged(t, b, fs)
    BY <2>2, <2>3
  <2>5. PICK M : Lands(t, b, fs, M)
    BY <2>3, <2>4, TopLands
  <2>6. M = Len(fs) /\ M \in Nat
    BY <2>5 DEF Lands
  <2>. QED  BY <2>4, <2>5, <2>6
<1>9. \A k \in 1..N : fs[k].kind \in {"resolve", "reject"} /\ fs[k].on = a
  BY <1>5, <1>8, SettlesSeq DEF Acted
<1>10. Stays
  BY <1>6 DEF Stays
<1>11. Line(t)' /\ StillLine(t)
  <2>1. \A j \in 1..Len(fs) : Quiet(fs[j])
    BY <1>8, <1>9 DEF Quiet
  <2>2. \A d \in (b + 1)..L : Quiet(FrameAt(t, d))
    <3>1. \A d \in (b + 1)..L : d = 3
      BY <1>1, <1>7
    <3>. QED  BY <1>7, <3>1 DEF Quiet, Handles
  <2>3. ~ (b = L)
    BY <1>1, <1>7
  <2>4. EnqueueOf(stack[t]) = <<>> =>
          InLine(BatchOf(stack[t]), queue', <<>>) /\ \A x \in Promises : Rising(reactions'[x])
    BY <1>2, <1>6, SameLine
  <2>. QED  BY <1>1, <1>2, <1>8, <2>1, <2>2, <2>3, <2>4, TopLine
<1>12. \A j \in 1..N : ~ Handles(fs[j])
  BY <1>9 DEF Handles
<1>13. OnBatch(t)'
  BY <1>2, <1>8, <1>12, LandsOnBatch
<1>14. Aggregates' = Aggregates
  BY <1>6 DEF Aggregates
<1>15. Strays(t)'
  <2>2. \A d \in 1..Len(stack[t]) :
          FrameAt(t, d).kind = "script" /\ FrameAt(t, d).thr \in Aggregates' => FrameAt(t, d).thr \in Aggregates
    BY <1>14
  <2>3. \A j \in 1..N : fs[j].kind = "script" /\ fs[j].thr \in Aggregates' =>
           \/ j + 1 \in 1..N /\ fs[j + 1].kind = "loop"
           \/ j = N /\ b \in 1..Len(stack[t]) /\ FrameAt(t, b).kind = "loop"
    BY <1>9
  <2>. QED  BY <1>2, <1>8, <2>2, <2>3, LandsStrays
<1>16. /\ \A x : \A d : ~ LoopAt(x, t, d)
       /\ \A x \in Aggregates : phase[x] # "loop" /\ phase[x] # "none"
  BY <1>2, <1>4, HandlerEnded
<1>17. Phases(t)'
  <2>0. Len(stack[t]) \in Nat
    BY <1>1, <1>7
  <2>1. LoopsAfter(t, b, fs, N)
    BY <1>8, <2>0, TopLoops
  <2>2. \A j \in 1..N : fs[j].kind # "loop"
    BY <1>9
  <2>3. \A x, d : ~ LoopAt(x, t, d)'
    BY <1>16, <2>1, <2>2 DEF LoopsAfter
  <2>4. \A x \in Promises : phase'[x] = "loop" <=> \E d : LoopAt(x, t, d)'
    BY <1>2, <1>6, <1>16, <2>3 DEF Phases
  <2>5. \A x \in Aggregates : phase'[x] # "none"
    BY <1>6, <1>16
  <2>. QED  BY <1>14, <2>4, <2>5 DEF Phases
<1>18. /\ Recorded'
       /\ \A x \in Aggregates : remaining[x] = 0 => remaining'[x] = 0
       /\ \A x \in Promises : decided[x] => decided'[x]
       /\ decided'[a] \/ state[element[q].src] \notin Deciding(a)
  BY <1>2, <1>4, <1>5, <1>6, ActedSlots
<1>19. Verdicts(t)'
  <2>1. JustKept
    <3>1. \A x \in Aggregates :
            /\ combinator'[x] = combinator[x]
            /\ phase[x] \in {"done", "threw"} => phase'[x] = phase[x]
            /\ phase[x] = "done" /\ remaining[x] = 0 => remaining'[x] = 0
      BY <1>6, <1>18
    <3>. QED  BY <1>2, <1>10, <3>1, JustStays DEF Grows
  <2>2. \A x \in Aggregates' : x \in Aggregates \/ Unsettled(x, t)
    BY <1>14
  <2>3. \A x \in Aggregates : state'[x] = state[x] /\ result'[x] = result[x]
    BY <1>6
  <2>4. phase[a] \in {"done", "threw"}
    BY <1>2, <1>7, <1>16 DEF SlotsInv
  <2>5. ASSUME NEW j \in 1..N, NEW x \in Aggregates'  PROVE Judged(x, fs[j])'
    <3>1. Just(a, Outcomes[fs[j].kind], fs[j].value)'
      BY <1>2, <1>4, <1>5, <1>6, <1>8, <2>4, ActedJust
    <3>. QED  BY <1>9, <3>1 DEF Judged
  <2>6. ASSUME NEW x \in Aggregates', phase'[x] = "threw"
        PROVE  \/ state'[x] = "Rejected"
               \/ state'[x] = "Pending" /\ Running(t, "reject")' /\ Head(stack'[t]).on = x
    <3>1. x \in Aggregates /\ phase[x] = "threw"
      BY <1>6, <1>14, <2>6
    <3>2. ~ Running(t, "reject")
      BY <1>3 DEF Running
    <3>. QED  BY <1>2, <1>6, <3>1, <3>2 DEF Verdicts, Threw
  <2>. QED  BY <1>2, <1>8, <2>1, <2>2, <2>3, <2>5, <2>6, LandsVerdicts
<1>20. \A r : ~ Handling(t, r)'
  <2>1. ASSUME NEW r, Handling(t, r)'  PROVE FALSE
    <3>1. PICK d \in 1..Len(stack'[t]) : Handles(FrameAt(t, d)')
      BY <2>1 DEF Handling, Handles
    <3>2. d <= b /\ d \in 1..Len(stack[t]) /\ FrameAt(t, d)' = FrameAt(t, d)
      BY <1>8, <1>12, <3>1 DEF Lands
    <3>3. d = 1 \/ d = 2
      BY <1>1, <3>2
    <3>. QED  BY <1>7, <3>1, <3>2, <3>3 DEF Handles
  <2>. QED  BY <2>1
<1>. QED  BY <1>4, <1>6, <1>10, <1>11, <1>13, <1>15, <1>17, <1>18, <1>19, <1>20 DEF Frames

---------------------------------------------------------------------------
(* x is to no job of s.                                                     *)
Strange(x, s) == \A i \in 1..Len(s) : s[i].kind # "then" => s[i].to # x

(* Who becomes ready now comes after everybody else.                        *)
LEMMA TurnKept ==
  ASSUME ready \in Seq(Promises), NEW x, ready' = ready \/ ready' = Append(ready, x),
         NEW q, q # x, NEW r, Turn(q, r)
  PROVE  Turn(q, r)'
<1>1. CASE ready' = ready
  BY <1>1 DEF Turn
<1>2. CASE ready' = Append(ready, x)
  <2>1. PICK n : n = Len(ready) /\ n \in Nat
    OBVIOUS
  <2>2. /\ Len(ready') = n + 1 /\ ready'[n + 1] = x
        /\ \A i \in 1..n : ready'[i] = ready[i]
    BY <1>2, <2>1
  <2>3. ASSUME NEW i \in 1..Len(ready'), NEW j \in 1..Len(ready'), ready'[i] = q, ready'[j] = r
        PROVE  i < j
    <3>1. i \in 1..n
      BY <2>1, <2>2, <2>3
    <3>2. CASE j \in 1..n
      BY <2>1, <2>2, <2>3, <3>1, <3>2 DEF Turn
    <3>3. CASE j = n + 1
      BY <2>1, <3>1, <3>3
    <3>. QED  BY <2>1, <2>2, <3>2, <3>3
  <2>. QED  BY <2>3 DEF Turn
<1>. QED  BY <1>1, <1>2

LEMMA ReadyKept ==
  ASSUME ready \in Seq(Promises), NEW x, ready' = ready \/ ready' = Append(ready, x),
         NEW q, Ready(q)
  PROVE  Ready(q)'
<1>1. PICK i \in 1..Len(ready) : ready[i] = q
  BY DEF Ready
<1>2. i \in 1..Len(ready') /\ ready'[i] = q
  BY <1>1
<1>. QED  BY <1>2 DEF Ready

(* A job that comes last is not before who is not ready, nor after who is.    *)
LEMMA LastInTurn ==
  ASSUME NEW S, NEW s \in Seq(S), NEW job, job.kind = "then" \/ ~ Ready(job.to),
         NEW n, n = Append(s, job)
  PROVE  /\ InTurn(s) => InTurn(n)
         /\ \A b : Turns(b, s) => Turns(b, n)
         /\ \A q : Behind(q, s) => Behind(q, n)
<1>1. PICK L : L = Len(s) /\ L \in Nat
  OBVIOUS
<1>2. Len(n) = L + 1 /\ n[L + 1] = job /\ \A i \in 1..L : n[i] = s[i]
  BY <1>1
<1>3. \A q : job.kind # "then" => Turn(q, job.to)
  BY DEF Turn, Ready
<1>4. ASSUME InTurn(s)  PROVE InTurn(n)
  <2>1. ASSUME NEW i \in 1..Len(n), NEW j \in 1..Len(n), i < j  PROVE Later(n[i], n[j])
    <3>1. CASE j = L + 1
      BY <1>2, <1>3, <3>1 DEF Later
    <3>2. CASE j \in 1..L
      <4>1. i \in 1..L
        BY <1>1, <1>2, <2>1, <3>2
      <4>. QED  BY <1>1, <1>2, <1>4, <2>1, <3>2, <4>1 DEF InTurn
    <3>. QED  BY <1>1, <1>2, <3>1, <3>2
  <2>. QED  BY <2>1 DEF InTurn
<1>5. ASSUME NEW b, Turns(b, s)  PROVE Turns(b, n)
  <2>1. ASSUME NEW i \in 1..Len(b), NEW j \in 1..Len(n)  PROVE Later(b[i], n[j])
    <3>1. CASE j = L + 1
      BY <1>2, <1>3, <3>1 DEF Later
    <3>2. CASE j \in 1..L
      BY <1>1, <1>2, <1>5, <2>1, <3>2 DEF Turns
    <3>. QED  BY <1>1, <1>2, <3>1, <3>2
  <2>. QED  BY <2>1 DEF Turns
<1>6. ASSUME NEW q, Behind(q, s)  PROVE Behind(q, n)
  <2>1. ASSUME NEW j \in 1..Len(n), n[j].kind # "then"  PROVE Turn(q, n[j].to)
    <3>1. CASE j = L + 1
      BY <1>2, <1>3, <2>1, <3>1
    <3>2. CASE j \in 1..L
      BY <1>1, <1>2, <1>6, <2>1, <3>2 DEF Behind
    <3>. QED  BY <1>1, <1>2, <3>1, <3>2
  <2>. QED  BY <2>1 DEF Behind
<1>. QED  BY <1>4, <1>5, <1>6

(* The turns stay when x, whom no job but the last is to, becomes ready.     *)
LEMMA InTurnKept ==
  ASSUME ready \in Seq(Promises), NEW x, ready' = ready \/ ready' = Append(ready, x),
         NEW s, InTurn(s), \A i \in 1..Len(s) : \A j \in 1..Len(s) : i < j /\ s[i].kind # "then" => s[i].to # x
  PROVE  InTurn(s)'
<1>1. ASSUME NEW i \in 1..Len(s), NEW j \in 1..Len(s), i < j  PROVE Later(s[i], s[j])'
  <2>1. Later(s[i], s[j])
    BY <1>1 DEF InTurn
  <2>2. ASSUME s[i].kind # "then", s[j].kind # "then"  PROVE Turn(s[i].to, s[j].to)'
    <3>1. s[i].to # x /\ Turn(s[i].to, s[j].to)
      BY <1>1, <2>1, <2>2 DEF Later
    <3>. QED  BY <3>1, TurnKept
  <2>. QED  BY <2>2 DEF Later
<1>. QED  BY <1>1 DEF InTurn

LEMMA TurnsKept ==
  ASSUME ready \in Seq(Promises), NEW x, ready' = ready \/ ready' = Append(ready, x),
         NEW b, NEW s, Turns(b, s), Strange(x, b)
  PROVE  Turns(b, s)'
<1>1. ASSUME NEW i \in 1..Len(b), NEW j \in 1..Len(s)  PROVE Later(b[i], s[j])'
  <2>1. Later(b[i], s[j])
    BY DEF Turns
  <2>2. ASSUME b[i].kind # "then", s[j].kind # "then"  PROVE Turn(b[i].to, s[j].to)'
    <3>1. PICK q, r : q = b[i].to /\ r = s[j].to
      OBVIOUS
    <3>2. q # x /\ Turn(q, r)
      BY <2>1, <2>2, <3>1 DEF Later, Strange
    <3>3. Turn(q, r)'
      BY <3>2, TurnKept
    <3>. QED  BY <3>1, <3>3
  <2>. QED  BY <2>2 DEF Later
<1>. QED  BY <1>1 DEF Turns

LEMMA BehindKept ==
  ASSUME ready \in Seq(Promises), NEW x, ready' = ready \/ ready' = Append(ready, x),
         NEW q, q # x, NEW s, Behind(q, s)
  PROVE  Behind(q, s)'
<1>1. ASSUME NEW j \in 1..Len(s), s[j].kind # "then"  PROVE Turn(q, s[j].to)'
  <2>1. Turn(q, s[j].to)
    BY <1>1 DEF Behind
  <2>. QED  BY <2>1, TurnKept
<1>. QED  BY <1>1 DEF Behind

(* The first job of the batch leaves it.                                    *)
LEMMA HeadLeaves ==
  ASSUME NEW S, NEW b \in Seq(S), b # <<>>, NEW n, n = Tail(b), NEW h, h = Head(b)
  PROVE  /\ InTurn(b) => InTurn(n) /\ (h.kind # "then" => Behind(h.to, n))
         /\ \A s : Turns(b, s) => Turns(n, s) /\ (h.kind # "then" => Behind(h.to, s))
         /\ \A q : Has(b, q) => Has(n, q) \/ (h.kind # "then" /\ h.to = q)
         /\ \A q : Has(n, q) => Has(b, q)
         /\ AllReady(b) => AllReady(n) /\ (h.kind # "then" /\ IsElement(h.to) => Ready(h.to))
         /\ \A x : Strange(x, b) => Strange(x, n)
<1>1. PICK L : L = Len(b) /\ L \in Nat /\ L >= 1
  BY LenProperties, EmptySeq
<1>2. Len(n) = L - 1 /\ h = b[1] /\ \A i \in 1..(L - 1) : n[i] = b[i + 1] /\ i + 1 \in 1..L
  BY <1>1, HeadTailProperties
<1>3. 1 \in 1..L /\ \A i \in 2..L : i - 1 \in 1..(L - 1) /\ n[i - 1] = b[i]
  <2>1. ASSUME NEW i \in 2..L  PROVE i - 1 \in 1..(L - 1) /\ n[i - 1] = b[i]
    <3>1. i - 1 \in 1..(L - 1) /\ (i - 1) + 1 = i
      BY <1>1
    <3>. QED  BY <1>2, <3>1
  <2>. QED  BY <1>1, <2>1
<1>4. ASSUME InTurn(b)  PROVE InTurn(n) /\ (h.kind # "then" => Behind(h.to, n))
  <2>1. ASSUME NEW i \in 1..Len(n), NEW j \in 1..Len(n), i < j  PROVE Later(n[i], n[j])
    <3>1. i + 1 < j + 1 /\ i + 1 \in 1..L /\ j + 1 \in 1..L /\ n[i] = b[i + 1] /\ n[j] = b[j + 1]
      BY <1>1, <1>2, <2>1
    <3>. QED  BY <1>1, <1>4, <3>1 DEF InTurn
  <2>2. ASSUME h.kind # "then", NEW j \in 1..Len(n), n[j].kind # "then"  PROVE Turn(h.to, n[j].to)
    <3>1. 1 < j + 1 /\ 1 \in 1..L /\ j + 1 \in 1..L /\ h = b[1] /\ n[j] = b[j + 1]
      BY <1>1, <1>2, <2>2
    <3>2. Later(b[1], b[j + 1])
      BY <1>1, <1>4, <3>1 DEF InTurn
    <3>. QED  BY <2>2, <3>1, <3>2 DEF Later
  <2>. QED  BY <2>1, <2>2 DEF InTurn, Behind
<1>5. ASSUME NEW s, Turns(b, s)  PROVE Turns(n, s) /\ (h.kind # "then" => Behind(h.to, s))
  <2>1. ASSUME NEW i \in 1..Len(n), NEW j \in 1..Len(s)  PROVE Later(n[i], s[j])
    <3>1. i + 1 \in 1..L /\ n[i] = b[i + 1]
      BY <1>2
    <3>. QED  BY <1>1, <1>5, <3>1 DEF Turns
  <2>2. ASSUME h.kind # "then", NEW j \in 1..Len(s), s[j].kind # "then"  PROVE Turn(h.to, s[j].to)
    <3>1. Later(b[1], s[j])
      BY <1>1, <1>3, <1>5 DEF Turns
    <3>. QED  BY <1>2, <2>2, <3>1 DEF Later
  <2>. QED  BY <2>1, <2>2 DEF Turns, Behind
<1>6. ASSUME NEW q, Has(b, q)  PROVE Has(n, q) \/ (h.kind # "then" /\ h.to = q)
  <2>1. PICK i \in 1..L : b[i].kind # "then" /\ b[i].to = q
    BY <1>1, <1>6 DEF Has
  <2>2. CASE i = 1
    BY <1>2, <2>1, <2>2
  <2>3. CASE i \in 2..L
    <3>1. i - 1 \in 1..Len(n) /\ n[i - 1] = b[i]
      BY <1>2, <1>3, <2>3
    <3>. QED  BY <2>1, <3>1 DEF Has
  <2>. QED  BY <1>1, <2>2, <2>3
<1>7. ASSUME NEW q, Has(n, q)  PROVE Has(b, q)
  <2>1. PICK i \in 1..Len(n) : n[i].kind # "then" /\ n[i].to = q
    BY <1>7 DEF Has
  <2>2. i + 1 \in 1..Len(b) /\ n[i] = b[i + 1]
    BY <1>1, <1>2
  <2>. QED  BY <2>1, <2>2 DEF Has
<1>8. ASSUME AllReady(b)  PROVE AllReady(n) /\ (h.kind # "then" /\ IsElement(h.to) => Ready(h.to))
  BY <1>1, <1>2, <1>3, <1>8 DEF AllReady
<1>9. \A x : Strange(x, b) => Strange(x, n)
  BY <1>1, <1>2 DEF Strange
<1>. QED  BY <1>4, <1>5, <1>6, <1>7, <1>8, <1>9

---------------------------------------------------------------------------
(* q's reaction waits for a promise to settle, or for the queue.             *)
Due(q) == \E p \in Promises : \E j \in 1..Len(reactions[p]) : reactions[p][j].to = q
Waiting(t, q) == Has(EnqueueOf(stack[t]), q) \/ Due(q)

(* The element x becomes ready.                                             *)
Enters(t, x) ==
  /\ x \in Promises /\ IsElement(x)' /\ state'[element'[x].src] \in {"Fulfilled", "Rejected"}
  /\ ~ Ready(x) /\ ~ Waiting(t, x)'
  /\ Strange(x, BatchOf(stack[t])) /\ Strange(x, queue)

(* What a step does at the end of the queue,                                *)
Joined(t, job) ==
  /\ queue' = Append(queue, job)
  /\ \/ ready' = ready /\ (job.kind # "then" => ~ IsElement(job.to)')
     \/ job.kind # "then" /\ ready' = Append(ready, job.to) /\ Enters(t, job.to)

Queued(t) ==
  \/ queue' = queue /\ ready' = ready
  \/ \E job : Joined(t, job)

(* at the front of the batch,                                               *)
Same(t) == /\ BatchOf(stack'[t]) = BatchOf(stack[t])
           /\ \A q \in Promises : Handling(t, q)' => Handling(t, q)
           /\ \A q \in Promises : Handling(t, q) =>
                \/ Handling(t, q)'
                \/ decided'[element[q].of]
                \/ state[element[q].src] \notin Deciding(element[q].of)

Run(t) == /\ BatchOf(stack[t]) # <<>> /\ BatchOf(stack'[t]) = Tail(BatchOf(stack[t]))
          /\ \A q \in Promises : ~ Handling(t, q)
          /\ \A q \in Promises : LET h == Head(BatchOf(stack[t]))
                                 IN  Handling(t, q)' <=> h.kind # "then" /\ h.to = q /\ IsElement(q)

(* or when the queue becomes the batch.                                      *)
Processed(t) ==
  /\ queue' = <<>> /\ ready' = ready
  /\ BatchOf(stack[t]) = <<>> /\ BatchOf(stack'[t]) = queue
  /\ \A q \in Promises : ~ Handling(t, q) /\ ~ Handling(t, q)'

Flow(t) ==
  /\ Stays
  /\ \A q \in Promises : IsElement(q)' => IsElement(q) \/ q \notin Existing
  /\ \A q \in Existing : Waiting(t, q)' => Waiting(t, q)
  /\ \A a \in Promises : decided[a] => decided'[a]
  /\ \A a \in Aggregates : combinator'[a] = combinator[a]
  /\ \A a \in Aggregates' : a \in Aggregates \/ a \notin Existing
  /\ \/ Queued(t) /\ (Same(t) \/ Run(t))
     \/ Processed(t)

LEMMA FlowReady ==
  ASSUME NEW t, Flow(t)
  PROVE  \E x \in Promises \cup {NoPromise} :
           (ready' = ready /\ x = NoPromise) \/ (ready' = Append(ready, x) /\ Enters(t, x))
<1>1. CASE ready' = ready
  BY <1>1
<1>2. CASE ready' # ready
  <2>1. PICK job : job.kind # "then" /\ ready' = Append(ready, job.to) /\ Enters(t, job.to)
    BY <1>2 DEF Flow, Queued, Joined, Processed
  <2>2. job.to \in Promises
    BY <2>1 DEF Enters
  <2>. QED  BY <2>1, <2>2
<1>. QED  BY <1>1, <1>2

LEMMA FlowGrows ==
  ASSUME NEW t, Flow(t), NEW x, ready' = ready \/ (ready' = Append(ready, x) /\ Enters(t, x))
  PROVE  Grows
  BY DEF Enters, Grows

LEMMA KeepReady ==
  ASSUME CombInv, NEW t, ReadyInv, Flow(t)
  PROVE  ReadyInv'
<1>1. PICK x \in Promises \cup {NoPromise} : ready' = ready \/ (ready' = Append(ready, x) /\ Enters(t, x))
  BY FlowReady
<1>2. PICK n : n = Len(ready)
  OBVIOUS
<1>3. /\ n \in Nat /\ ready' \in Seq(Promises)
      /\ \A i \in 1..n : i \in 1..Len(ready') /\ ready'[i] = ready[i]
      /\ \A i \in 1..Len(ready') : i \in 1..n \/ (i = n + 1 /\ ready' = Append(ready, ready'[i]))
  BY <1>1, <1>2, FlowGrows, ReadyGrows DEF ReadyInv
<1>4. ready \in Seq(Promises) /\ Stays /\ ElementsInv
  BY DEF ReadyInv, Flow, CombInv
<1>5. ASSUME NEW i \in 1..n
      PROVE  /\ ready'[i] = ready[i] /\ IsElement(ready[i])'
             /\ LET p == element[ready[i]].src IN element'[ready[i]] = element[ready[i]] /\ Settled(p) /\ state'[p] = state[p]
  <2>1. /\ ready'[i] = ready[i] /\ ready[i] \in Promises /\ IsElement(ready[i])
        /\ Settled(element[ready[i]].src)
    BY <1>2, <1>3, <1>4 DEF ReadyInv
  <2>2. element'[ready[i]] = element[ready[i]] /\ element[ready[i]].src \in Promises
    BY <1>4, <2>1 DEF Stays, ElementsInv, IsElement, NoElement
  <2>. QED  BY <1>4, <2>1, <2>2 DEF Stays, IsElement
<1>6. ASSUME NEW i \in 1..Len(ready'), i \notin 1..n
      PROVE  i = n + 1 /\ ready'[i] = x /\ Enters(t, x)
  <2>1. i = n + 1 /\ ready' = Append(ready, ready'[i])
    BY <1>3, <1>6
  <2>2. ready' # ready
    BY <1>2, <1>3, <1>6
  <2>. QED  BY <1>1, <1>2, <1>3, <1>4, <2>1, <2>2
<1>7. ASSUME NEW q, Ready(q)'
      PROVE  IsElement(q)' /\ LET p == element'[q].src IN state'[p] \in {"Fulfilled", "Rejected"}
  <2>1. PICK i \in 1..Len(ready') : ready'[i] = q
    BY <1>7 DEF Ready
  <2>2. CASE i \in 1..n
    <3>1. /\ ready'[i] = ready[i] /\ IsElement(ready[i])'
          /\ LET p == element[ready[i]].src IN element'[ready[i]] = element[ready[i]] /\ Settled(p) /\ state'[p] = state[p]
      BY <1>5, <2>2
    <3>2. q = ready[i]
      BY <2>1, <3>1
    <3>. QED  BY <3>1, <3>2 DEF Settled
  <2>3. CASE i \notin 1..n
    <3>1. q = x /\ Enters(t, x)
      BY <1>6, <2>1, <2>3
    <3>. QED  BY <3>1 DEF Enters
  <2>. QED  BY <2>2, <2>3
<1>8. \A i, j \in 1..Len(ready') : ready'[i] = ready'[j] => i = j
  <2>1. ASSUME NEW i \in 1..n, NEW j \in 1..n, ready'[i] = ready'[j]  PROVE i = j
    BY <1>2, <1>3, <2>1 DEF ReadyInv
  <2>2. ASSUME NEW i \in 1..n, Enters(t, x)  PROVE ready'[i] # x
    BY <1>2, <1>3, <2>2 DEF Enters, Ready
  <2>. QED  BY <1>3, <1>6, <2>1, <2>2
<1>9. ASSUME NEW i \in 1..Len(ready')
      PROVE  (IsElement(ready[i]) /\ Settled(element[ready[i]].src))'
  <2>1. PICK q : q = ready'[i]
    OBVIOUS
  <2>2. Ready(q)'
    BY <2>1 DEF Ready
  <2>3. IsElement(q)' /\ LET p == element'[q].src IN state'[p] \in {"Fulfilled", "Rejected"}
    BY <1>7, <2>2
  <2>. QED  BY <2>1, <2>3 DEF IsElement, Settled
<1>. QED  BY <1>3, <1>8, <1>9 DEF ReadyInv

LEMMA KeepPassed ==
  ASSUME CombInv, NEW t, ReadyInv, Flow(t), Passed(t)
  PROVE  Passed(t)'
<1>1. PICK x \in Promises \cup {NoPromise} : ready' = ready \/ (ready' = Append(ready, x) /\ Enters(t, x))
  BY FlowReady
<1>2. PICK n : n = Len(ready) /\ n \in Nat
  BY DEF ReadyInv
<1>3. \A i \in 1..Len(ready') : Ready(ready'[i]) \/ (ready'[i] = x /\ Enters(t, x))
  <2>1. CASE ready' = ready
    BY <2>1 DEF Ready
  <2>2. CASE ready' = Append(ready, x) /\ Enters(t, x)
    <3>1. ready \in Seq(Promises)
      BY DEF ReadyInv
    <3>2. Len(ready') = n + 1 /\ ready'[n + 1] = x /\ \A i \in 1..n : ready'[i] = ready[i]
      BY <1>2, <2>2, <3>1
    <3>. QED  BY <1>2, <2>2, <3>2 DEF Ready
  <2>. QED  BY <1>1, <2>1, <2>2
<1>4. ASSUME NEW q, Ready(q)  PROVE ~ Waiting(t, q)'
  <2>1. ~ Waiting(t, q)
    BY <1>4 DEF Ready, Passed, Waiting, Due
  <2>2. q \in Existing
    <3>1. q \in Promises /\ IsElement(q)
      BY <1>4 DEF Ready, ReadyInv
    <3>. QED  BY <3>1 DEF CombInv, ElementsInv
  <2>. QED  BY <2>1, <2>2 DEF Flow
<1>5. ASSUME NEW i \in 1..Len(ready')
      PROVE  /\ ~ Has(EnqueueOf(stack'[t]), ready'[i])
             /\ \A p \in Promises : \A j \in 1..Len(reactions'[p]) : reactions'[p][j].to # ready'[i]
  <2>1. PICK q : q = ready'[i]
    OBVIOUS
  <2>2. ~ Waiting(t, q)'
    BY <1>3, <1>4, <2>1 DEF Enters
  <2>3. ~ Has(EnqueueOf(stack'[t]), q) /\ ~ Due(q)'
    BY <2>2 DEF Waiting, Has
  <2>. QED  BY <2>1, <2>3 DEF Due
<1>. QED  BY <1>5 DEF Passed, Has

---------------------------------------------------------------------------
(* The jobs are to promises that exist.                                     *)
LEMMA JobsTo ==
  ASSUME NEW K, IInv(K), NEW s \in Seq(FitJob(K))
  PROVE  \A i \in 1..Len(s) : s[i].to \in Promises /\ s[i].to \in Existing
<1>1. ASSUME NEW i \in 1..Len(s)  PROVE s[i].to \in Promises /\ s[i].to \in Existing
  <2>1. s[i] \in FitJob(K)
    BY ElementOfSeq
  <2>2. s[i].to \in Promises /\ s[i].to <= created
    BY <2>1 DEF FitJob, AnyJob, HandlerFits
  <2>3. s[i].to \in Nat /\ s[i].to >= 1 /\ created \in Nat
    BY <2>2, Numbers DEF IInv, ScalarsOK
  <2>. QED  BY <2>2, <2>3 DEF Existing
<1>. QED  BY <1>1

(* The parts of the pipeline before the step.                               *)
LEMMA FlowParts ==
  ASSUME CombInv, NEW t \in Threads, Flow(t), ReadyInv,
         NEW b, b = BatchOf(stack[t]), NEW x,
         (ready' = ready /\ x = NoPromise) \/ (ready' = Append(ready, x) /\ Enters(t, x))
  PROVE  /\ \E S : b \in Seq(S) /\ queue \in Seq(S)
         /\ \A i \in 1..Len(b) : b[i].to \in Promises /\ b[i].to \in Existing
         /\ \A i \in 1..Len(queue) : queue[i].to \in Promises /\ queue[i].to \in Existing
         /\ Strange(x, b) /\ Strange(x, queue)
         /\ ready \in Seq(Promises) /\ (ready' = ready \/ ready' = Append(ready, x))
         /\ \A q \in Promises : Ready(q) => q # x /\ IsElement(q)'
         /\ \A q \in Existing : q \in Promises /\ (IsElement(q)' => IsElement(q))
<1>1. PICK K : K = Combined
  OBVIOUS
<1>2. IInv(K) /\ IsMore(K) /\ ScalarsOK
  BY <1>1, CombFacts
<1>3. b \in Seq(FitJob(K)) /\ queue \in Seq(FitJob(K))
  BY <1>2, Parts
<1>4. /\ \A i \in 1..Len(b) : b[i].to \in Promises /\ b[i].to \in Existing
      /\ \A i \in 1..Len(queue) : queue[i].to \in Promises /\ queue[i].to \in Existing
  BY <1>2, <1>3, JobsTo
<1>5. NoPromise \notin Promises
  BY Numbers DEF Promises, NoPromise
<1>6. Strange(x, b) /\ Strange(x, queue)
  <2>1. CASE x = NoPromise
    BY <1>4, <1>5, <2>1 DEF Strange
  <2>2. CASE Enters(t, x)
    BY <2>2 DEF Enters
  <2>. QED  BY <2>1, <2>2
<1>7. ready \in Seq(Promises)
  BY DEF ReadyInv
<1>8. ASSUME NEW q \in Promises, Ready(q)  PROVE q # x /\ IsElement(q)'
  <2>1. q # x
    BY <1>5, <1>8 DEF Enters
  <2>2. IsElement(q)
    BY <1>8 DEF Ready, ReadyInv
  <2>3. element'[q] = element[q]
    BY <2>2 DEF Flow, Stays
  <2>. QED  BY <2>1, <2>2, <2>3 DEF IsElement
<1>9. ASSUME NEW q \in Existing  PROVE q \in Promises /\ (IsElement(q)' => IsElement(q))
  <2>1. q \in Promises
    BY <1>2, Numbers DEF Existing, Promises, ScalarsOK
  <2>. QED  BY <2>1 DEF Flow
<1>. QED  BY <1>3, <1>4, <1>6, <1>7, <1>8, <1>9

(* The end of the queue.                                                    *)
LEMMA QueueEnd ==
  ASSUME CombInv, NEW t \in Threads, Flow(t), ReadyInv, Queue(t), Queued(t),
         NEW b, b = BatchOf(stack[t]), NEW r, r = queue', NEW x,
         (ready' = ready /\ x = NoPromise) \/ (ready' = Append(ready, x) /\ Enters(t, x))
  PROVE  /\ InTurn(r)' /\ AllReady(r)'
         /\ \A c : Turns(c, queue) /\ Strange(x, c) => Turns(c, r)'
         /\ \A q \in Promises : Ready(q) /\ Behind(q, queue) => Behind(q, r)'
<1>1. /\ \E S : b \in Seq(S) /\ queue \in Seq(S)
      /\ \A i \in 1..Len(queue) : queue[i].to \in Promises /\ queue[i].to \in Existing
      /\ Strange(x, b) /\ Strange(x, queue)
      /\ ready \in Seq(Promises) /\ (ready' = ready \/ ready' = Append(ready, x))
      /\ \A q \in Promises : Ready(q) => q # x /\ IsElement(q)'
      /\ \A q \in Existing : q \in Promises /\ (IsElement(q)' => IsElement(q))
  BY FlowParts
<1>2. PICK n : n = Len(queue)
  OBVIOUS
<1>3. /\ InTurn(queue) => InTurn(r)
      /\ \A c : Turns(c, queue) => Turns(c, r)
      /\ \A q : Behind(q, queue) => Behind(q, r)
      /\ n \in Nat
      /\ \A i \in 1..Len(r) : (i \in 1..n /\ r[i] = queue[i]) \/ (i = n + 1 /\ Len(r) = n + 1 /\ Joined(t, r[i]))
  <2>1. CASE queue' = queue
    <3>1. r = queue /\ n \in Nat
      BY <1>1, <1>2, <2>1
    <3>. QED  BY <1>2, <3>1
  <2>2. ASSUME NEW job, Joined(t, job)
        PROVE  /\ InTurn(queue) => InTurn(r)
               /\ \A c : Turns(c, queue) => Turns(c, r)
               /\ \A q : Behind(q, queue) => Behind(q, r)
               /\ n \in Nat
               /\ \A i \in 1..Len(r) : (i \in 1..n /\ r[i] = queue[i]) \/ (i = n + 1 /\ Len(r) = n + 1 /\ Joined(t, r[i]))
    <3>1. r = Append(queue, job)
      BY <2>2 DEF Joined
    <3>2. job.kind = "then" \/ ~ Ready(job.to)
      <4>1. ASSUME Ready(job.to), job.kind # "then"  PROVE FALSE
        <5>1. job.to \in Promises
          BY <4>1 DEF Ready, ReadyInv
        <5>2. IsElement(job.to)'
          BY <1>1, <4>1, <5>1
        <5>. QED  BY <2>2, <4>1, <5>2 DEF Joined, Enters
      <4>. QED  BY <4>1
    <3>3. PICK S : queue \in Seq(S)
      BY <1>1
    <3>4. /\ InTurn(queue) => InTurn(r)
          /\ \A c : Turns(c, queue) => Turns(c, r)
          /\ \A q : Behind(q, queue) => Behind(q, r)
      BY <3>1, <3>2, <3>3, LastInTurn
    <3>5. n \in Nat /\ Len(r) = n + 1 /\ r[n + 1] = job /\ \A i \in 1..n : r[i] = queue[i]
      BY <1>2, <3>1, <3>3
    <3>6. \A i \in 1..Len(r) : (i \in 1..n /\ r[i] = queue[i]) \/ (i = n + 1 /\ Len(r) = n + 1 /\ Joined(t, r[i]))
      BY <2>2, <3>5
    <3>. QED  BY <3>4, <3>5, <3>6
  <2>. QED  BY <2>1, <2>2 DEF Queued
<1>4. InTurn(r)'
  <2>1. InTurn(r)
    BY <1>3 DEF Queue
  <2>2. ASSUME NEW i \in 1..Len(r), NEW j \in 1..Len(r), i < j, r[i].kind # "then"  PROVE r[i].to # x
    <3>1. i \in 1..n /\ r[i] = queue[i]
      BY <1>3, <2>2
    <3>. QED  BY <1>1, <1>2, <2>2, <3>1 DEF Strange
  <2>. QED  BY <1>1, <2>1, <2>2, InTurnKept
<1>5. AllReady(r)'
  <2>1. ASSUME NEW i \in 1..Len(r), r[i].kind # "then", IsElement(r[i].to)'  PROVE Ready(r[i].to)'
    <3>1. CASE i \in 1..n /\ r[i] = queue[i]
      <4>1. PICK q : q = r[i].to
        OBVIOUS
      <4>2. q \in Existing /\ q = queue[i].to
        BY <1>1, <1>2, <3>1, <4>1
      <4>3. Ready(q)
        BY <1>1, <1>2, <2>1, <3>1, <4>1, <4>2 DEF Queue, AllReady
      <4>4. Ready(q)'
        BY <1>1, <4>3, ReadyKept
      <4>. QED  BY <4>1, <4>4
    <3>2. CASE Joined(t, r[i])
      <4>1. PICK q : q = r[i].to
        OBVIOUS
      <4>2. ready' = Append(ready, q)
        BY <2>1, <3>2, <4>1 DEF Joined
      <4>3. Len(ready') \in 1..Len(ready') /\ ready'[Len(ready')] = q
        BY <1>1, <4>2
      <4>. QED  BY <4>1, <4>3 DEF Ready
    <3>. QED  BY <1>3, <3>1, <3>2
  <2>. QED  BY <2>1 DEF AllReady
<1>6. ASSUME NEW c, Turns(c, queue), Strange(x, c)  PROVE Turns(c, r)'
  <2>1. Turns(c, r)
    BY <1>3, <1>6
  <2>. QED  BY <1>1, <1>6, <2>1, TurnsKept
<1>7. ASSUME NEW q \in Promises, Ready(q), Behind(q, queue)  PROVE Behind(q, r)'
  <2>1. Behind(q, r) /\ q # x
    BY <1>1, <1>3, <1>7
  <2>. QED  BY <1>1, <2>1, BehindKept
<1>. QED  BY <1>4, <1>5, <1>6, <1>7

---------------------------------------------------------------------------
LEMMA QueueIs ==
  ASSUME NEW t, NEW c, c = BatchOf(stack'[t]), NEW r, r = queue',
         InTurn(c)', InTurn(r)', Turns(c, r)', AllReady(c)', AllReady(r)',
         \A q \in Promises : Handling(t, q)' => Ready(q)' /\ Behind(q, c)' /\ Behind(q, r)'
  PROVE  Queue(t)'
<1>1. InTurn(BatchOf(stack[t]))' /\ InTurn(queue)' /\ Turns(BatchOf(stack[t]), queue)'
  BY DEF InTurn, Turns, Later, Turn
<1>2. AllReady(BatchOf(stack[t]))' /\ AllReady(queue)'
  BY DEF AllReady, Ready, IsElement
<1>3. \A q \in Promises : (Handling(t, q) => Ready(q) /\ Behind(q, BatchOf(stack[t])) /\ Behind(q, queue))'
  <2>1. ASSUME NEW q \in Promises, Handling(t, q)'
        PROVE  Behind(q, BatchOf(stack[t]))' /\ Behind(q, queue)'
    <3>1. Behind(q, c)' /\ Behind(q, r)'
      BY <2>1
    <3>. QED  BY <3>1 DEF Behind, Turn
  <2>. QED  BY <2>1
<1>. QED  BY <1>1, <1>2, <1>3 DEF Queue

(* A part of the line whose jobs are not to x, and the tasks that are before  *)
(* it.                                                                     *)
LEMMA PartKept ==
  ASSUME ready \in Seq(Promises), NEW x, ready' = ready \/ ready' = Append(ready, x),
         NEW s, InTurn(s), AllReady(s), Strange(x, s),
         \A i \in 1..Len(s) : IsElement(s[i].to)' => IsElement(s[i].to)
  PROVE  /\ InTurn(s)' /\ AllReady(s)'
         /\ \A q : q # x /\ Behind(q, s) => Behind(q, s)'
<1>1. InTurn(s)'
  BY InTurnKept DEF Strange
<1>2. AllReady(s)'
  <2>1. ASSUME NEW i \in 1..Len(s), s[i].kind # "then", IsElement(s[i].to)'  PROVE Ready(s[i].to)'
    <3>1. PICK q : q = s[i].to
      OBVIOUS
    <3>2. Ready(q)
      BY <2>1, <3>1 DEF AllReady
    <3>3. Ready(q)'
      BY <3>2, ReadyKept
    <3>. QED  BY <3>1, <3>3
  <2>. QED  BY <2>1 DEF AllReady
<1>3. ASSUME NEW q, q # x, Behind(q, s)  PROVE Behind(q, s)'
  BY <1>3, BehindKept
<1>. QED  BY <1>1, <1>2, <1>3

LEMMA KeepQueue ==
  ASSUME CombInv, NEW t \in Threads, ReadyInv, Flow(t), Queue(t)
  PROVE  Queue(t)'
<1>1. PICK b, c, r : b = BatchOf(stack[t]) /\ c = BatchOf(stack'[t]) /\ r = queue'
  OBVIOUS
<1>2. PICK x \in Promises \cup {NoPromise} :
        (ready' = ready /\ x = NoPromise) \/ (ready' = Append(ready, x) /\ Enters(t, x))
  BY FlowReady
<1>3. /\ \E S : b \in Seq(S) /\ queue \in Seq(S)
      /\ \A i \in 1..Len(b) : b[i].to \in Promises /\ b[i].to \in Existing
      /\ \A i \in 1..Len(queue) : queue[i].to \in Promises /\ queue[i].to \in Existing
      /\ Strange(x, b) /\ Strange(x, queue)
      /\ ready \in Seq(Promises) /\ (ready' = ready \/ ready' = Append(ready, x))
      /\ \A q \in Promises : Ready(q) => q # x /\ IsElement(q)'
      /\ \A q \in Existing : q \in Promises /\ (IsElement(q)' => IsElement(q))
  BY <1>1, <1>2, FlowParts
<1>4. /\ InTurn(b) /\ InTurn(queue) /\ Turns(b, queue) /\ AllReady(b) /\ AllReady(queue)
      /\ \A q \in Promises : Handling(t, q) => Ready(q) /\ Behind(q, b) /\ Behind(q, queue)
  BY <1>1 DEF Queue
<1>5. ASSUME NEW s, s = b \/ s = queue
      PROVE  \A i \in 1..Len(s) : IsElement(s[i].to)' => IsElement(s[i].to)
  BY <1>3, <1>5
<1>6. /\ InTurn(b)' /\ AllReady(b)' /\ (\A q : q # x /\ Behind(q, b) => Behind(q, b)')
      /\ InTurn(queue) /\ Strange(x, queue)
  <2>1. \A i \in 1..Len(b) : IsElement(b[i].to)' => IsElement(b[i].to)
    BY <1>5
  <2>. QED  BY <1>3, <1>4, <2>1, PartKept
<1>7. CASE Queued(t) /\ (Same(t) \/ Run(t))
  <2>1. /\ InTurn(r)' /\ AllReady(r)'
        /\ \A s : Turns(s, queue) /\ Strange(x, s) => Turns(s, r)'
        /\ \A q \in Promises : Ready(q) /\ Behind(q, queue) => Behind(q, r)'
    BY <1>1, <1>2, <1>7, QueueEnd
  <2>2. CASE Same(t)
    <3>1. c = b /\ \A q \in Promises : Handling(t, q)' => Handling(t, q)
      BY <1>1, <2>2 DEF Same
    <3>2. Turns(b, r)'
      BY <1>3, <1>4, <2>1
    <3>3. ASSUME NEW q \in Promises, Handling(t, q)'
          PROVE  Ready(q)' /\ Behind(q, c)' /\ Behind(q, r)'
      <4>1. Ready(q) /\ Behind(q, b) /\ Behind(q, queue)
        BY <1>4, <3>1, <3>3
      <4>2. q # x
        BY <1>3, <4>1
      <4>3. Ready(q)'
        BY <1>3, <4>1, ReadyKept
      <4>4. Behind(q, b)' /\ Behind(q, r)'
        BY <1>6, <2>1, <4>1, <4>2
      <4>. QED  BY <3>1, <4>3, <4>4
    <3>. QED  BY <1>1, <1>6, <2>1, <3>1, <3>2, <3>3, QueueIs
  <2>3. CASE Run(t)
    <3>1. PICK h : h = Head(b)
      OBVIOUS
    <3>2. /\ b # <<>> /\ c = Tail(b)
          /\ \A q \in Promises : Handling(t, q)' <=> h.kind # "then" /\ h.to = q /\ IsElement(q)
      BY <1>1, <2>3, <3>1 DEF Run
    <3>3. /\ InTurn(c) /\ (h.kind # "then" => Behind(h.to, c))
          /\ Turns(c, queue) /\ (h.kind # "then" => Behind(h.to, queue))
          /\ AllReady(c) /\ (h.kind # "then" /\ IsElement(h.to) => Ready(h.to))
          /\ Strange(x, c)
      <4>1. PICK S : b \in Seq(S)
        BY <1>3
      <4>. QED  BY <1>3, <1>4, <3>1, <3>2, <4>1, HeadLeaves
    <3>4. \A i \in 1..Len(c) : IsElement(c[i].to)' => IsElement(c[i].to)
      <4>1. PICK S : b \in Seq(S)
        BY <1>3
      <4>2. PICK L : L = Len(b) /\ L \in Nat /\ L >= 1
        BY <3>2, <4>1, LenProperties, EmptySeq
      <4>3. Len(c) = L - 1 /\ \A i \in 1..(L - 1) : c[i] = b[i + 1] /\ i + 1 \in 1..L
        BY <3>2, <4>1, <4>2, HeadTailProperties
      <4>. QED  BY <1>5, <4>2, <4>3
    <3>5. InTurn(c)' /\ AllReady(c)' /\ \A q : q # x /\ Behind(q, c) => Behind(q, c)'
      BY <1>3, <3>3, <3>4, PartKept
    <3>6. Turns(c, r)'
      BY <2>1, <3>3
    <3>7. ASSUME NEW q \in Promises, Handling(t, q)'
          PROVE  Ready(q)' /\ Behind(q, c)' /\ Behind(q, r)'
      <4>1. h.kind # "then" /\ h.to = q /\ IsElement(q)
        BY <3>2, <3>7
      <4>2. Ready(q) /\ Behind(q, c) /\ Behind(q, queue)
        BY <3>3, <4>1
      <4>3. q # x
        BY <1>3, <4>2
      <4>4. Ready(q)'
        BY <1>3, <4>2, ReadyKept
      <4>5. Behind(q, c)' /\ Behind(q, r)'
        BY <2>1, <3>5, <4>2, <4>3
      <4>. QED  BY <4>4, <4>5
    <3>. QED  BY <1>1, <2>1, <3>5, <3>6, <3>7, QueueIs
  <2>. QED  BY <1>7, <2>2, <2>3
<1>8. CASE Processed(t)
  <2>1. /\ r = <<>> /\ ready' = ready /\ c = queue
        /\ \A q \in Promises : ~ Handling(t, q)'
    BY <1>1, <1>8 DEF Processed
  <2>2. InTurn(c)' /\ AllReady(c)'
    <3>1. \A i \in 1..Len(c) : IsElement(c[i].to)' => IsElement(c[i].to)
      BY <1>5, <2>1
    <3>2. InTurn(c) /\ AllReady(c) /\ Strange(x, c)
      BY <1>3, <1>4, <2>1
    <3>. QED  BY <1>3, <3>1, <3>2, PartKept
  <2>3. Len(r) = 0
    BY <2>1
  <2>4. InTurn(r)' /\ AllReady(r)' /\ Turns(c, r)'
    BY <2>3 DEF InTurn, AllReady, Turns
  <2>. QED  BY <1>1, <2>1, <2>2, <2>4, QueueIs
<1>. QED  BY <1>7, <1>8 DEF Flow

(* An aggregate that nobody has decided yet waits for its decisive elements.  *)
LEMMA KeepUndecided ==
  ASSUME CombInv, NEW t \in Threads, ReadyInv, Flow(t), Queue(t), Undecided(t)
  PROVE  Undecided(t)'
<1>1. PICK b, c, r : b = BatchOf(stack[t]) /\ c = BatchOf(stack'[t]) /\ r = queue'
  OBVIOUS
<1>2. PICK x \in Promises \cup {NoPromise} :
        (ready' = ready /\ x = NoPromise) \/ (ready' = Append(ready, x) /\ Enters(t, x))
  BY FlowReady
<1>3. (\E S : b \in Seq(S) /\ queue \in Seq(S)) /\ ready \in Seq(Promises) /\ ElementsInv
  BY <1>1, <1>2, FlowParts DEF CombInv
<1>4. ASSUME NEW q, Has(queue, q)  PROVE Has(r, q) \/ Has(c, q)
  <2>1. PICK i \in 1..Len(queue) : queue[i].kind # "then" /\ queue[i].to = q
    BY <1>4 DEF Has
  <2>2. PICK S : queue \in Seq(S)
    BY <1>3
  <2>3. CASE r = queue
    BY <1>4, <2>3
  <2>4. ASSUME NEW job, r = Append(queue, job)  PROVE Has(r, q)
    <3>1. i \in 1..Len(r) /\ r[i] = queue[i]
      BY <2>2, <2>4
    <3>. QED  BY <2>1, <3>1 DEF Has
  <2>5. CASE c = queue
    BY <1>4, <2>5
  <2>. QED  BY <1>1, <2>3, <2>4, <2>5 DEF Flow, Queued, Joined, Processed
<1>5. ASSUME NEW a \in Aggregates, NEW q \in Promises, IsElement(q), element[q].of = a,
             state[element[q].src] \in Deciding(a), ~ decided'[a], Waits(t, q)
      PROVE  Has(c, q) \/ Has(r, q) \/ Handling(t, q)'
  <2>1. CASE Has(queue, q)
    BY <1>4, <2>1
  <2>2. CASE Queued(t) /\ Same(t)
    <3>1. c = b /\ (Handling(t, q) => Handling(t, q)')
      BY <1>1, <1>5, <2>2 DEF Same
    <3>. QED  BY <1>1, <1>5, <2>1, <3>1 DEF Waits
  <2>3. CASE Queued(t) /\ Run(t)
    <3>1. PICK h : h = Head(b)
      OBVIOUS
    <3>2. /\ b # <<>> /\ c = Tail(b) /\ ~ Handling(t, q)
          /\ Handling(t, q)' <=> h.kind # "then" /\ h.to = q /\ IsElement(q)
      BY <1>1, <2>3, <3>1 DEF Run
    <3>3. Has(b, q) => Has(c, q) \/ (h.kind # "then" /\ h.to = q)
      <4>1. PICK S : b \in Seq(S)
        BY <1>3
      <4>. QED  BY <3>1, <3>2, <4>1, HeadLeaves
    <3>. QED  BY <1>1, <1>5, <2>1, <3>2, <3>3 DEF Waits
  <2>4. CASE Processed(t)
    <3>1. ~ Handling(t, q) /\ b = <<>>
      BY <1>1, <2>4 DEF Processed
    <3>2. ~ Has(b, q)
      BY <3>1 DEF Has
    <3>. QED  BY <1>1, <1>5, <2>1, <3>1, <3>2 DEF Waits
  <2>. QED  BY <2>2, <2>3, <2>4 DEF Flow
<1>6. ASSUME NEW a \in Aggregates', NEW q, Ready(q)',
             LET e == element[q] IN e'.of = a /\ state'[e'.src] \in Deciding(a)', ~ decided'[a]
      PROVE  Has(c, q) \/ Has(r, q) \/ Handling(t, q)'
  <2>1. CASE Ready(q)
    <3>1. /\ q \in Promises /\ IsElement(q) /\ Settled(element[q].src) /\ element'[q] = element[q]
          /\ element[q].of \in Aggregates /\ element[q].src \in Promises
      <4>1. q \in Promises /\ IsElement(q) /\ Settled(element[q].src)
        BY <2>1 DEF Ready, ReadyInv
      <4>. QED  BY <1>3, <4>1 DEF Flow, Stays, ElementsInv, IsElement, NoElement
    <3>2. a = element[q].of /\ a \in Aggregates /\ a \in Promises
      BY <1>6, <3>1 DEF Aggregates
    <3>3. state'[element[q].src] = state[element[q].src] /\ combinator'[a] = combinator[a]
      BY <3>1, <3>2 DEF Flow, Stays
    <3>4. Deciding(a)' = Deciding(a)
      BY <3>3 DEF Deciding
    <3>5. state[element[q].src] \in Deciding(a) /\ ~ decided[a]
      BY <1>6, <3>1, <3>2, <3>3, <3>4 DEF Flow
    <3>6. PICK i \in 1..Len(ready) : ready[i] = q
      BY <2>1 DEF Ready
    <3>7. Waits(t, q)
      BY <3>2, <3>5, <3>6 DEF Undecided, Decides
    <3>. QED  BY <1>5, <1>6, <3>1, <3>2, <3>5, <3>7
  <2>2. CASE ~ Ready(q)
    <3>1. PICK i \in 1..Len(ready') : ready'[i] = q
      BY <1>6 DEF Ready
    <3>2. ready' # ready
      BY <2>2, <3>1 DEF Ready
    <3>3. PICK job : Joined(t, job) /\ ready' = Append(ready, job.to) /\ job.kind # "then"
      BY <3>2 DEF Flow, Queued, Joined, Processed
    <3>4. q = job.to
      <4>1. PICK n : n = Len(ready) /\ n \in Nat
        BY <1>3
      <4>2. Len(ready') = n + 1 /\ ready'[n + 1] = job.to /\ \A k \in 1..n : ready'[k] = ready[k]
        BY <1>3, <3>3, <4>1
      <4>. QED  BY <2>2, <3>1, <4>1, <4>2 DEF Ready
    <3>5. r = Append(queue, job)
      BY <1>1, <3>3 DEF Joined
    <3>6. Len(r) \in 1..Len(r) /\ r[Len(r)] = job
      BY <1>3, <3>5
    <3>. QED  BY <3>3, <3>4, <3>6 DEF Has
  <2>. QED  BY <2>1, <2>2
<1>7. ASSUME NEW a \in Aggregates', NEW i \in 1..Len(ready'), (Decides(a, i) /\ ~ decided[a])'
      PROVE  Waits(t, ready[i])'
  <2>1. PICK q : q = ready'[i]
    OBVIOUS
  <2>2. Ready(q)' /\ LET e == element[q] IN e'.of = a /\ state'[e'.src] \in Deciding(a)'
    BY <1>7, <2>1 DEF Ready, Decides
  <2>3. Has(c, q) \/ Has(r, q) \/ Handling(t, q)'
    BY <1>6, <1>7, <2>2
  <2>. QED  BY <1>1, <2>1, <2>3 DEF Waits, Has, Handling
<1>. QED  BY <1>7 DEF Undecided

---------------------------------------------------------------------------
(* What Track says of the queue that stays, and of the one that grows.        *)
LEMMA TrackSame ==
  ASSUME Track, NEW S, queue \in Seq(S), queue' = queue \/ queue' = <<>>
  PROVE  ready' = ready
<1>1. Len(queue) \in Nat
  OBVIOUS
<1>2. ~ (Len(queue') > Len(queue))
  <2>1. CASE queue' = queue
    BY <1>1, <2>1
  <2>2. CASE queue' = <<>>
    <3>1. Len(queue') = 0
      BY <2>2
    <3>. QED  BY <1>1, <3>1
  <2>. QED  BY <2>1, <2>2
<1>. QED  BY <1>2 DEF Track, Queueing

LEMMA TrackGrown ==
  ASSUME Track, NEW S, queue \in Seq(S), NEW job, queue' = Append(queue, job)
  PROVE  ready' = IF job.kind # "then" /\ IsElement(job.to)' THEN Append(ready, job.to) ELSE ready
<1>1. PICK n, r : n = Len(queue) /\ n \in Nat /\ r = queue'
  OBVIOUS
<1>2. Len(r) = n + 1 /\ r[n + 1] = job
  BY <1>1
<1>3. Len(queue') > Len(queue) /\ queue'[Len(queue')] = job
  BY <1>1, <1>2
<1>. QED  BY <1>3 DEF Track, Queueing, IsElement

(* The next promise, which is nobody's yet.                                  *)
LEMMA NextIsNew ==
  ASSUME CombInv, NEW t \in Threads, NEW s, s = created + 1
  PROVE  /\ s \notin Existing /\ ~ (s \in Promises /\ IsElement(s))
         /\ Strange(s, BatchOf(stack[t])) /\ Strange(s, queue)
         /\ ~ Due(s) /\ (ReadyInv => ~ Ready(s))
         /\ \E S : queue \in Seq(S)
<1>1. PICK K, b : K = Combined /\ b = BatchOf(stack[t])
  OBVIOUS
<1>2. IInv(K) /\ IsMore(K) /\ ScalarsOK
  BY <1>1, CombFacts
<1>3. b \in Seq(FitJob(K)) /\ queue \in Seq(FitJob(K))
  BY <1>1, <1>2, Parts
<1>4. /\ \A i \in 1..Len(b) : b[i].to \in Existing
      /\ \A i \in 1..Len(queue) : queue[i].to \in Existing
  BY <1>2, <1>3, JobsTo
<1>5. s \notin Existing
  BY <1>2, Numbers DEF ScalarsOK, Existing
<1>6. Strange(s, b) /\ Strange(s, queue)
  BY <1>4, <1>5 DEF Strange
<1>7. ~ Due(s)
  <2>1. ASSUME NEW p \in Promises, NEW j \in 1..Len(reactions[p])  PROVE reactions[p][j].to # s
    <3>1. reactions[p] \in Seq(FitReaction(K))
      BY <1>2 DEF IInv
    <3>2. reactions[p][j] \in FitReaction(K)
      BY <3>1, ElementOfSeq
    <3>3. reactions[p][j].to \in Promises /\ reactions[p][j].to <= created
      BY <3>2 DEF FitReaction, AnyReaction, HandlerFits
    <3>. QED  BY <1>2, <3>3, Numbers DEF ScalarsOK
  <2>. QED  BY <2>1 DEF Due
<1>8. ~ (s \in Promises /\ IsElement(s))
  BY <1>5 DEF CombInv, ElementsInv
<1>9. ReadyInv => ~ Ready(s)
  <2>1. ASSUME ReadyInv, Ready(s)  PROVE FALSE
    <3>1. s \in Promises /\ IsElement(s)
      BY <2>1 DEF Ready, ReadyInv
    <3>. QED  BY <1>8, <3>1
  <2>. QED  BY <2>1
<1>. QED  BY <1>1, <1>3, <1>5, <1>6, <1>7, <1>8, <1>9

(* then() queues a job or keeps a reaction for the promise it makes.         *)
LEMMA RegisterFlows ==
  ASSUME CombInv, NEW t \in Threads, ReadyInv, Track,
         NEW p \in Promises, NEW f, NEW g, Register(p, f, g), NEW s, s = created + 1,
         ~ IsElement(s)' \/ (element'[s].src = p /\ EnqueueOf(stack'[t]) = <<>>)
  PROVE  Queued(t) /\ \A q \in Existing : Due(q)' => Due(q)
<1>1. /\ s \notin Existing /\ ~ (s \in Promises /\ IsElement(s))
      /\ Strange(s, BatchOf(stack[t])) /\ Strange(s, queue)
      /\ ~ Due(s) /\ ~ Ready(s)
      /\ \E S : queue \in Seq(S)
  BY NextIsNew
<1>2. PICK K : K = Combined
  OBVIOUS
<1>3. IInv(K) /\ ScalarsOK
  BY <1>2, CombFacts
<1>4. created < MaxPromises /\ state' = [state EXCEPT ![s] = "Pending"]
  BY DEF Register
<1>5. s \in Promises
  BY <1>3, <1>4, Numbers DEF ScalarsOK
<1>6. CASE state[p] = "Pending"
  <2>. DEFINE r == [onFulfilled |-> f, onRejected |-> g, to |-> s]
  <2>1. reactions' = [reactions EXCEPT ![p] = Append(@, r)] /\ queue' = queue
    BY <1>6 DEF Register
  <2>2. r.to = s /\ reactions \in [Promises -> Seq(FitReaction(K))]
    BY <1>3 DEF IInv
  <2>. HIDE DEF r
  <2>3. ASSUME NEW q \in Existing, Due(q)'  PROVE Due(q)
    <3>1. PICK x, j : x \in Promises /\ j \in 1..Len(reactions'[x]) /\ reactions'[x][j].to = q
      BY <2>3 DEF Due
    <3>2. CASE x # p
      <4>1. reactions'[x] = reactions[x]
        BY <2>1, <2>2, <3>2
      <4>. QED  BY <3>1, <4>1 DEF Due
    <3>3. CASE x = p
      <4>1. reactions[p] \in Seq(FitReaction(K)) /\ reactions'[p] = Append(reactions[p], r)
        BY <2>1, <2>2
      <4>2. PICK n : n = Len(reactions[p]) /\ n \in Nat
        BY <4>1
      <4>3. Len(reactions'[p]) = n + 1 /\ reactions'[p][n + 1] = r
            /\ \A i \in 1..n : reactions'[p][i] = reactions[p][i]
        BY <4>1, <4>2
      <4>4. j # n + 1
        BY <1>1, <2>2, <2>3, <3>1, <3>3, <4>3
      <4>5. j \in 1..n
        BY <3>1, <3>3, <4>2, <4>3, <4>4
      <4>6. j \in 1..Len(reactions[p]) /\ reactions[p][j].to = q
        BY <3>1, <3>3, <4>2, <4>3, <4>5
      <4>7. p \in Promises
        BY <3>1, <3>3
      <4>. QED  BY <4>6, <4>7 DEF Due
    <3>. QED  BY <3>2, <3>3
  <2>4. ready' = ready
    BY <1>1, <2>1, TrackSame
  <2>. QED  BY <2>1, <2>3, <2>4 DEF Queued
<1>7. CASE state[p] # "Pending"
  <2>1. UNCHANGED reactions
    BY <1>7 DEF Register
  <2>2. PICK kind, h : /\ kind \in {"fulfilled", "rejected"} /\ state[p] \in {"Fulfilled", "Rejected"}
                       /\ queue' = Append(queue, ReactionJob(kind, p, h, s))
    BY <1>7 DEF Register
  <2>3. PICK job : job = ReactionJob(kind, p, h, s)
    OBVIOUS
  <2>4. job.kind # "then" /\ job.to = s /\ queue' = Append(queue, job)
    BY <2>2, <2>3 DEF ReactionJob
  <2>5. ready' = IF IsElement(s)' THEN Append(ready, s) ELSE ready
    BY <1>1, <2>4, TrackGrown
  <2>6. \A q : Due(q)' <=> Due(q)
    BY <2>1 DEF Due
  <2>7. CASE ~ IsElement(s)'
    <3>1. Joined(t, job)
      BY <2>4, <2>5, <2>7 DEF Joined
    <3>. QED  BY <2>6, <3>1 DEF Queued
  <2>8. CASE IsElement(s)'
    <3>1. p # s /\ state'[p] = state[p]
      <4>1. s > created /\ state[s] = "Unborn"
        BY <1>3, <1>5, Numbers DEF ScalarsOK, IInv, BornInOrder
      <4>. QED  BY <1>3, <1>4, <2>2, <4>1 DEF ScalarsOK
    <3>2. element'[s].src = p /\ EnqueueOf(stack'[t]) = <<>>
      BY <2>8
    <3>3. ~ Waiting(t, s)'
      <4>1. ~ Has(EnqueueOf(stack'[t]), s)
        BY <3>2 DEF Has
      <4>2. ~ Due(s)'
        BY <1>1, <2>6
      <4>. QED  BY <4>1, <4>2 DEF Waiting, Has
    <3>4. Enters(t, s)
      BY <1>1, <1>5, <2>2, <2>8, <3>1, <3>2, <3>3 DEF Enters
    <3>5. Joined(t, job)
      BY <2>4, <2>5, <2>8, <3>4 DEF Joined
    <3>. QED  BY <2>6, <3>5 DEF Queued
  <2>. QED  BY <2>7, <2>8
<1>. QED  BY <1>6, <1>7

---------------------------------------------------------------------------
(* A step queues at most one element.                                       *)
LEMMA QueueTo ==
  CombInv => /\ \E S : queue \in Seq(S)
             /\ \A i \in 1..Len(queue) : queue[i].to \in Promises
<1>1. SUFFICES ASSUME CombInv
               PROVE  /\ \E S : queue \in Seq(S)
                      /\ \A i \in 1..Len(queue) : queue[i].to \in Promises
  OBVIOUS
<1>2. PICK K : K = Combined
  OBVIOUS
<1>3. IInv(K)
  BY <1>1, <1>2, CombFacts
<1>4. queue \in Seq(FitJob(K))
  BY <1>3 DEF IInv
<1>5. \A i \in 1..Len(queue) : queue[i].to \in Promises /\ queue[i].to \in Existing
  BY <1>3, <1>4, JobsTo
<1>. QED  BY <1>4, <1>5

LEMMA QueueToNext ==
  (CombInv => /\ \E S : queue \in Seq(S)
              /\ \A i \in 1..Len(queue) : queue[i].to \in Promises)'
  BY QueueTo, PTL

LEMMA TrackGrows ==
  ASSUME CombInv, CombInv', Track
  PROVE  Grows
<1>1. PICK r, n : r = queue' /\ n = Len(r)
  OBVIOUS
<1>2. (\E S : r \in Seq(S)) /\ \A i \in 1..n : r[i].to \in Promises
  BY <1>1, QueueToNext
<1>3. n \in Nat
  BY <1>1, <1>2
<1>4. CASE Queueing
  <2>1. n > Len(queue) /\ Len(queue) \in Nat
    BY <1>1, <1>4, QueueTo DEF Queueing
  <2>2. n \in 1..n
    BY <1>3, <2>1
  <2>3. ready' = Append(ready, r[n].to)
    BY <1>1, <1>4 DEF Track
  <2>. QED  BY <1>2, <2>2, <2>3 DEF Grows
<1>5. CASE ~ Queueing
  BY <1>5 DEF Grows, Track
<1>. QED  BY <1>4, <1>5

(* Nothing is queued and no reaction added.                                 *)
LEMMA QuietQueue ==
  ASSUME CombInv, NEW t \in Threads, Track, UNCHANGED <<queue, reactions>>
  PROVE  Queued(t) /\ UNCHANGED ready /\ \A q : Due(q)' => Due(q)
<1>1. PICK S : queue \in Seq(S)
  BY QueueTo
<1>2. ready' = ready
  BY <1>1, TrackSame
<1>. QED  BY <1>2 DEF Queued, Due

(* The line of the jobs stays, and the end of the queue is in order.         *)
LEMMA StillFlow ==
  ASSUME NEW t, StillLine(t), \A q : Handling(t, q)' <=> Handling(t, q), Stays,
         Queued(t), \A q \in Existing : Due(q)' => Due(q),
         \A q \in Promises : IsElement(q)' => IsElement(q) \/ q \notin Existing,
         \A a \in Promises : decided[a] => decided'[a],
         \A a \in Aggregates : combinator'[a] = combinator[a],
         \A a \in Aggregates' : a \in Aggregates \/ a \notin Existing
  PROVE  Flow(t)
<1>1. ASSUME NEW q \in Existing, Waiting(t, q)'  PROVE Waiting(t, q)
  <2>1. ~ Has(EnqueueOf(stack'[t]), q)
    BY DEF StillLine, Has
  <2>2. Due(q)'
    BY <1>1, <2>1 DEF Waiting, Has
  <2>. QED  BY <2>2 DEF Waiting
<1>2. Same(t)
  BY DEF Same, StillLine
<1>. QED  BY <1>1, <1>2 DEF Flow

LEMMA CombineFlow ==
  ASSUME NEW t \in Threads, Threads = {t}, OneInv(t), CombInv',
         NEW k \in Kinds, Combine(t, k), Track
  PROVE  Frames(t)' /\ Flow(t)
<1>1. CombInv /\ Frames(t) /\ ReadyInv
  BY DEF OneInv, Frames
<1>2. Queued(t) /\ UNCHANGED ready /\ \A q : Due(q)' => Due(q)
  BY <1>1, QuietQueue DEF Combine
<1>3. /\ Frames(t)' /\ StillLine(t) /\ Stays /\ \A q : Handling(t, q)' <=> Handling(t, q)
      /\ \A a \in Aggregates' : a \in Aggregates \/ a \notin Existing
  BY <1>1, <1>2, CombineOne
<1>4. \A a \in Aggregates : combinator'[a] = combinator[a]
  <2>1. Aggregates \subseteq Existing /\ combinator \in [Promises -> Kinds \cup {"none"}]
    BY <1>1 DEF CombInv, SlotsInv
  <2>2. created + 1 \notin Existing
    BY <1>1, NextIsNew
  <2>. QED  BY <2>1, <2>2 DEF Combine, Aggregates
<1>5. UNCHANGED <<decided, element>>
  BY DEF Combine
<1>. QED  BY <1>2, <1>3, <1>4, <1>5, StillFlow DEF IsElement

(* The executor asks for the next element, or ends.                         *)
LEMMA LoopFlow ==
  ASSUME NEW t \in Threads, Threads = {t}, OneInv(t), CombInv', Track,
         (\E v \in ElementValues : NextValue(t, v)) \/ NextDone(t) \/ \E e \in Reasons : NextThrows(t, e)
  PROVE  Frames(t)' /\ Flow(t)
<1>1. CombInv /\ Frames(t) /\ ReadyInv
  BY DEF OneInv, Frames
<1>2. UNCHANGED <<queue, reactions, combinator, element>>
  BY DEF NextValue, NextDone, NextThrows
<1>3. Queued(t) /\ UNCHANGED ready /\ \A q : Due(q)' => Due(q)
  BY <1>1, <1>2, QuietQueue
<1>4. Frames(t)' /\ StillLine(t) /\ Stays /\ \A q : Handling(t, q)' <=> Handling(t, q)
  BY <1>1, <1>3, NextValueOne, LoopEndsOne
<1>5. \A a \in Promises : decided[a] => decided'[a]
  <2>1. decided \in [Promises -> BOOLEAN]
    BY <1>1 DEF CombInv, SlotsInv
  <2>2. CASE UNCHANGED decided
    BY <2>2
  <2>3. CASE NextDone(t)
    BY <2>1, <2>3 DEF NextDone
  <2>. QED  BY <2>2, <2>3 DEF NextValue, NextThrows
<1>6. Aggregates' = Aggregates
  BY <1>2 DEF Aggregates
<1>. QED  BY <1>2, <1>3, <1>4, <1>5, <1>6, StillFlow DEF IsElement

(* The executor calls then() of an element's promise.                       *)
LEMMA SubscribeFlow ==
  ASSUME NEW t \in Threads, Threads = {t}, OneInv(t), CombInv', Track, Subscribe(t)
  PROVE  Frames(t)' /\ Flow(t)
<1>1. CombInv /\ Frames(t) /\ ReadyInv
  BY DEF OneInv, Frames
<1>2. PICK s : s = created + 1
  OBVIOUS
<1>3. /\ Frames(t)' /\ StillLine(t) /\ Stays /\ \A q : Handling(t, q)' <=> Handling(t, q)
      /\ \A q \in Promises : q # s => element'[q] = element[q]
      /\ Head(stack[t]).on \in Promises /\ element'[s].src = Head(stack[t]).on
  BY <1>1, <1>2, TrackGrows, SubscribeOne
<1>4. Queued(t) /\ \A q \in Existing : Due(q)' => Due(q)
  <2>1. PICK p, f, g : p = Head(stack[t]).on /\ Register(p, f, g)
    BY DEF Subscribe
  <2>2. p \in Promises /\ element'[s].src = p /\ EnqueueOf(stack'[t]) = <<>>
    BY <1>3, <2>1 DEF StillLine
  <2>. QED  BY <1>1, <1>2, <2>1, <2>2, RegisterFlows
<1>5. \A q \in Promises : IsElement(q)' => IsElement(q) \/ q \notin Existing
  <2>1. s \notin Existing
    BY <1>1, <1>2, NextIsNew
  <2>. QED  BY <1>3, <2>1 DEF IsElement
<1>6. UNCHANGED <<decided, combinator>>
  BY DEF Subscribe
<1>7. Aggregates' = Aggregates
  BY <1>6 DEF Aggregates
<1>. QED  BY <1>3, <1>4, <1>5, <1>6, <1>7, StillFlow

(* A handler of an element runs.                                            *)
LEMMA HandlerFlow ==
  ASSUME NEW t \in Threads, Threads = {t}, OneInv(t), CombInv', Track,
         ElementFulfilled(t) \/ ElementRejected(t)
  PROVE  Frames(t)' /\ Flow(t)
<1>1. CombInv /\ Frames(t) /\ ReadyInv /\ Queue(t) /\ Undecided(t) /\ OnBatch(t)
  BY DEF OneInv, Frames
<1>2. PICK q, a : q = Head(stack[t]).on /\ a = element[q].of
  OBVIOUS
<1>3. UNCHANGED <<queue, reactions>>
  BY DEF ElementFulfilled, ElementRejected
<1>4. Queued(t) /\ UNCHANGED ready /\ \A x : Due(x)' => Due(x)
  BY <1>1, <1>3, QuietQueue
<1>5. /\ Frames(t)' /\ StillLine(t) /\ Stays /\ HandlerAt(t, q) /\ \A r : ~ Handling(t, r)'
      /\ \A x \in Promises : decided[x] => decided'[x]
      /\ decided'[a] \/ state[element[q].src] \notin Deciding(a)
      /\ UNCHANGED <<combinator, element>>
  BY <1>1, <1>2, <1>4, HandlerOne
<1>6. ASSUME NEW r, Handling(t, r)  PROVE r = q
  <2>1. PICK d \in 1..Len(stack[t]) : Handles(FrameAt(t, d)) /\ FrameAt(t, d).on = r
    BY <1>6 DEF Handling
  <2>2. d = 3
    BY <1>1, <2>1 DEF OnBatch
  <2>. QED  BY <1>5, <2>1, <2>2 DEF HandlerAt
<1>7. Same(t)
  BY <1>2, <1>5, <1>6 DEF Same, StillLine
<1>8. ASSUME NEW x \in Existing, Waiting(t, x)'  PROVE Waiting(t, x)
  <2>1. ~ Has(EnqueueOf(stack'[t]), x)
    BY <1>5 DEF StillLine, Has
  <2>2. Due(x)'
    BY <1>8, <2>1 DEF Waiting, Has
  <2>. QED  BY <1>4, <2>2 DEF Waiting
<1>9. Aggregates' = Aggregates
  BY <1>5 DEF Aggregates
<1>. QED  BY <1>4, <1>5, <1>7, <1>8, <1>9 DEF Flow, IsElement

---------------------------------------------------------------------------
(* A step of Promise keeps what the invariant says of the frames.            *)
LEMMA PromiseOne ==
  ASSUME NEW t \in Threads, Threads = {t}, OneInv(t), CombInv', Track,
         PromiseStep(t), CombUnchanged
  PROVE  Frames(t)' /\ Stays
<1>1. /\ CombInv /\ Line(t) /\ OnBatch(t) /\ Phases(t) /\ Strays(t) /\ Verdicts(t)
      /\ Recorded /\ ReadyInv
  BY DEF OneInv
<1>2. PICK K : K = Combined
  OBVIOUS
<1>3. /\ IInv(K) /\ Serves(K) /\ IsMore(K) /\ NextIsFree(K) /\ K.own = Aggregates
      /\ ElementsInv /\ Stacked(t) /\ Aggregates \subseteq Existing
  BY <1>1, <1>2, CombFacts DEF CombInv, ExecInv, SlotsInv
<1>4. UNCHANGED <<combinator, phase, remaining, results, element>>
  BY DEF CombUnchanged
<1>5. Line(t)'
  BY <1>1, <1>3, NextLine DEF PromiseStep
<1>6. Moves(K, t)
  BY <1>1, <1>3, PromiseMoves
<1>7. OnBatch(t)' /\ Strays(t)'
  BY <1>1, <1>3, <1>4, <1>6, MovesFrames
<1>8. Phases(t)'
  <2>1. Keeps(t)
    BY <1>3, PromiseKeeps DEF PromiseStep
  <2>. QED  BY <1>1, <1>4, <2>1, KeepsPhases
<1>9. Stays
  BY <1>3, <1>4, PromiseStays
<1>10. Verdicts(t)'
  <2>1. Grows
    BY <1>1, TrackGrows
  <2>2. JustKept
    BY <1>1, <1>3, <1>4, <1>9, <2>1, JustStays
  <2>. QED  BY <1>1, <1>3, <1>4, <1>6, <2>2, PromiseVerdicts
<1>11. Recorded'
  <2>1. \A q \in Promises : Slot(q)' = Slot(q)
    BY <1>4 DEF Slot
  <2>. QED  BY <1>1, <1>3, <1>4, <1>9, <2>1, RecordedStays
<1>. QED  BY <1>5, <1>7, <1>8, <1>9, <1>10, <1>11 DEF Frames

(* What the line is when a frame goes, or one comes that carries no jobs and *)
(* is no handler.                                                          *)
Settling(t) == stack[t] # <<>> /\ Head(stack[t]).kind \in {"enqueue", "batch"}

LEMMA QuietFlow ==
  ASSUME NEW K, IsMore(K), IInv(K), NEW t \in Threads, Line(t), OnBatch(t),
         ~ Settling(t), stack[t] # <<>> => ~ Handles(Head(stack[t])),
         \/ UNCHANGED stack
         \/ \E f : Push(t, f) /\ Quiet(f) /\ ~ Handles(f)
         \/ stack[t] # <<>> /\ Replace(t, <<>>)
         \/ stack[t] # <<>> /\ \E f : Replace(t, <<f>>) /\ Quiet(f) /\ ~ Handles(f)
  PROVE  StillLine(t) /\ \A q : Handling(t, q)' <=> Handling(t, q)
<1>1. stack \in [Threads -> Seq(FitFrame(K))] /\ Shape(stack[t])
  BY DEF IInv, Line
<1>2. EnqueueOf(stack[t]) = <<>> /\ (stack[t] = <<>> \/ stack[t][1].kind # "enqueue")
  BY NoneQueueing DEF Settling
<1>3. CASE UNCHANGED stack
  BY <1>2, <1>3 DEF StillLine, Handling, FrameAt
<1>4. ASSUME NEW f, Push(t, f), Quiet(f), ~ Handles(f)
      PROVE  StillLine(t) /\ \A q : Handling(t, q)' <=> Handling(t, q)
  <2>1. PICK s, n, fs : s = stack[t] /\ n = <<f>> \o s /\ fs = <<f>>
    OBVIOUS
  <2>2. stack'[t] = n
    BY <1>1, <1>4, <2>1 DEF Push
  <2>3. s \in Seq(FitFrame(K)) /\ Shape(s) /\ EnqueueOf(s) = <<>>
        /\ (s = <<>> \/ s[1].kind # "enqueue")
    BY <1>1, <1>2, <2>1
  <2>4. Shape(n) /\ EnqueueOf(n) = <<>> /\ BatchOf(n) = BatchOf(s)
    BY <1>4, <2>1, <2>3, ShapePush
  <2>5. StillLine(t)
    BY <1>2, <2>1, <2>2, <2>4 DEF StillLine
  <2>6. fs \in Seq({f}) /\ Len(fs) = 1 /\ fs[1] = f /\ stack' = [stack EXCEPT ![t] = fs \o @]
    BY <1>4, <2>1 DEF Push
  <2>7. PICK L : L = Len(stack[t])
    OBVIOUS
  <2>8. TopChanged(t, L, fs) /\ L \in Nat
    BY <1>1, <2>6, <2>7, PushTop
  <2>9. PICK N : Lands(t, L, fs, N)
    BY <2>7, <2>8, TopLands
  <2>10. /\ \A k \in 1..N : ~ Handles(fs[k])
         /\ \A d \in (L + 1)..L : ~ Handles(FrameAt(t, d))
    <3>1. N = 1
      BY <2>6, <2>9 DEF Lands
    <3>. QED  BY <1>4, <2>6, <2>8, <3>1
  <2>11. \A q : Handling(t, q)' <=> Handling(t, q)
    BY <2>7, <2>8, <2>9, <2>10, LandsHandling
  <2>. QED  BY <2>5, <2>11
<1>5. ASSUME stack[t] # <<>>, NEW T, NEW fs \in Seq(T), Replace(t, fs),
             \A k \in 1..Len(fs) : Quiet(fs[k]) /\ ~ Handles(fs[k])
      PROVE  StillLine(t) /\ \A q : Handling(t, q)' <=> Handling(t, q)
  <2>1. /\ EnqueueOf(stack'[t]) = <<>>
        /\ BatchOf(stack'[t]) = IF Head(stack[t]).kind = "batch" THEN <<>> ELSE BatchOf(stack[t])
    BY <1>5, QuietLine
  <2>2. StillLine(t)
    BY <1>2, <1>5, <2>1 DEF StillLine, Settling
  <2>3. PICK L : L = Len(stack[t])
    OBVIOUS
  <2>4. /\ TopChanged(t, L - 1, fs) /\ L \in Nat /\ L >= 1
        /\ FrameAt(t, L) = Head(stack[t])
    BY <1>1, <1>5, <2>3, ReplaceTop
  <2>5. PICK N : Lands(t, L - 1, fs, N)
    BY <2>3, <2>4, TopLands
  <2>6. /\ \A k \in 1..N : ~ Handles(fs[k])
        /\ \A d \in ((L - 1) + 1)..L : ~ Handles(FrameAt(t, d))
    <3>1. N = Len(fs)
      BY <2>5 DEF Lands
    <3>2. \A d \in ((L - 1) + 1)..L : d = L
      BY <2>4
    <3>. QED  BY <1>5, <2>4, <3>1, <3>2
  <2>7. \A q : Handling(t, q)' <=> Handling(t, q)
    BY <2>3, <2>4, <2>5, <2>6, LandsHandling
  <2>. QED  BY <2>2, <2>7
<1>6. CASE stack[t] # <<>> /\ Replace(t, <<>>)
  <2>1. PICK fs : fs = <<>>
    OBVIOUS
  <2>2. fs \in Seq({}) /\ Len(fs) = 0 /\ Replace(t, fs)
    BY <1>6, <2>1
  <2>3. \A k \in 1..Len(fs) : Quiet(fs[k]) /\ ~ Handles(fs[k])
    BY <2>2
  <2>. QED  BY <1>5, <1>6, <2>2, <2>3
<1>7. ASSUME stack[t] # <<>>, NEW f, Replace(t, <<f>>), Quiet(f), ~ Handles(f)
      PROVE  StillLine(t) /\ \A q : Handling(t, q)' <=> Handling(t, q)
  <2>1. PICK fs : fs = <<f>>
    OBVIOUS
  <2>2. fs \in Seq({f}) /\ Replace(t, fs) /\ Len(fs) = 1 /\ fs[1] = f
    BY <1>7, <2>1
  <2>3. \A k \in 1..Len(fs) : Quiet(fs[k]) /\ ~ Handles(fs[k])
    BY <1>7, <2>2
  <2>. QED  BY <1>5, <1>7, <2>2, <2>3
<1>. QED  BY <1>3, <1>4, <1>6, <1>7

---------------------------------------------------------------------------
(* A step of Promise that settles no promise and runs no job.               *)
LEMMA NextNoElement ==
  ASSUME CombInv, NEW t \in Threads, UNCHANGED element, created < MaxPromises, NEW s, s = created + 1
  PROVE  ~ IsElement(s)'
<1>1. PICK K : K = Combined
  OBVIOUS
<1>2. ScalarsOK
  BY <1>1, CombFacts
<1>3. s \in Promises
  BY <1>2, Numbers DEF ScalarsOK
<1>4. ~ (s \in Promises /\ IsElement(s))
  BY NextIsNew
<1>. QED  BY <1>3, <1>4 DEF IsElement

LEMMA QueueChanges ==
  ASSUME CombInv, NEW t \in Threads, ReadyInv, Track, UNCHANGED element,
         \/ UNCHANGED <<queue, reactions>>
         \/ UNCHANGED reactions /\ \E job : job.kind = "then" /\ queue' = Append(queue, job)
         \/ \E p \in Promises : \E f, g : Register(p, f, g)
  PROVE  Queued(t) /\ \A q \in Existing : Due(q)' => Due(q)
<1>1. CASE UNCHANGED <<queue, reactions>>
  BY <1>1, QuietQueue
<1>2. CASE UNCHANGED reactions /\ \E job : job.kind = "then" /\ queue' = Append(queue, job)
  <2>1. PICK job : job.kind = "then" /\ queue' = Append(queue, job)
    BY <1>2
  <2>2. PICK S : queue \in Seq(S)
    BY QueueTo
  <2>3. ready' = ready
    BY <2>1, <2>2, TrackGrown
  <2>4. Joined(t, job)
    BY <2>1, <2>3 DEF Joined
  <2>. QED  BY <1>2, <2>4 DEF Queued, Due
<1>3. CASE \E p \in Promises : \E f, g : Register(p, f, g)
  <2>1. PICK p \in Promises : \E f, g : Register(p, f, g)
    BY <1>3
  <2>2. PICK f, g : Register(p, f, g)
    BY <2>1
  <2>3. PICK s : s = created + 1
    OBVIOUS
  <2>4. ~ IsElement(s)'
    BY <2>2, <2>3, NextNoElement DEF Register
  <2>. QED  BY <2>2, <2>3, <2>4, RegisterFlows
<1>. QED  BY <1>1, <1>2, <1>3

LEMMA CombsStay ==
  ASSUME CombInv, CombUnchanged
  PROVE  /\ \A q : IsElement(q)' <=> IsElement(q)
         /\ Aggregates' = Aggregates /\ UNCHANGED <<element, decided, combinator>>
  BY DEF CombUnchanged, IsElement, Aggregates

LEMMA SmallFlow ==
  ASSUME NEW t \in Threads, OneInv(t), Track, CombUnchanged, Stays,
         ~ Settling(t), stack[t] # <<>> => ~ Handles(Head(stack[t])),
         \/ UNCHANGED stack
         \/ \E f : Push(t, f) /\ Quiet(f) /\ ~ Handles(f)
         \/ stack[t] # <<>> /\ Replace(t, <<>>)
         \/ stack[t] # <<>> /\ \E f : Replace(t, <<f>>) /\ Quiet(f) /\ ~ Handles(f),
         \/ UNCHANGED <<queue, reactions>>
         \/ UNCHANGED reactions /\ \E job : job.kind = "then" /\ queue' = Append(queue, job)
         \/ \E p \in Promises : \E f, g : Register(p, f, g)
  PROVE  Flow(t)
<1>1. CombInv /\ Line(t) /\ OnBatch(t) /\ ReadyInv
  BY DEF OneInv
<1>2. PICK K : K = Combined
  OBVIOUS
<1>3. IInv(K) /\ IsMore(K)
  BY <1>1, <1>2, CombFacts
<1>4. StillLine(t) /\ \A q : Handling(t, q)' <=> Handling(t, q)
  BY <1>1, <1>3, QuietFlow
<1>5. /\ \A q : IsElement(q)' <=> IsElement(q)
      /\ Aggregates' = Aggregates /\ UNCHANGED <<element, decided, combinator>>
  BY <1>1, CombsStay
<1>6. Queued(t) /\ \A q \in Existing : Due(q)' => Due(q)
  BY <1>1, <1>5, QueueChanges
<1>. QED  BY <1>4, <1>5, <1>6, StillFlow

(* The frames of calls and scripts.                                         *)
LEMMA SmallFrames ==
  /\ \A fn \in {"resolve", "reject"} : \A p, v : Quiet(Call(fn, p, v)) /\ ~ Handles(Call(fn, p, v))
  /\ \A ret, thr, wrapper, arg :
       Quiet(Script(ret, thr, wrapper, arg)) /\ ~ Handles(Script(ret, thr, wrapper, arg))
  BY DEF Quiet, Handles, Call, Script

(* What a script does.                                                      *)
LEMMA ApiFlow ==
  ASSUME NEW t \in Threads, OneInv(t), Track, CombUnchanged, Stays, Api(t)
  PROVE  Flow(t)
<1>1. InScript(t)
  BY DEF Api, NewPromise, CallResolve, CallReject, CallThen
<1>2. ~ Settling(t) /\ (stack[t] # <<>> => ~ Handles(Head(stack[t])))
  BY <1>1 DEF InScript, Running, Settling, Handles
<1>3. CASE NewPromise(t)
  BY <1>2, <1>3, SmallFlow, SmallFrames DEF NewPromise
<1>4. ASSUME NEW p \in Promises, NEW v, CallResolve(t, p, v)  PROVE Flow(t)
  BY <1>2, <1>4, SmallFlow, SmallFrames DEF CallResolve
<1>5. ASSUME NEW p \in Promises, NEW e, CallReject(t, p, e)  PROVE Flow(t)
  BY <1>2, <1>5, SmallFlow, SmallFrames DEF CallReject
<1>6. ASSUME NEW p \in Promises, NEW pair, CallThen(t, p, pair)  PROVE Flow(t)
  BY <1>2, <1>6, SmallFlow DEF CallThen
<1>. QED  BY <1>3, <1>4, <1>5, <1>6 DEF Api

(* How it ends.                                                             *)
LEMMA EndScriptFlow ==
  ASSUME NEW t \in Threads, OneInv(t), Track, CombUnchanged, Stays, EndScript(t)
  PROVE  Flow(t)
<1>1. Running(t, "script")
  BY DEF EndScript, ReturnIgnored, ReturnValue, ReturnFinally, ReturnFinallyPromise, Throw
<1>2. ~ Settling(t) /\ stack[t] # <<>> /\ ~ Handles(Head(stack[t]))
  BY <1>1 DEF Running, Settling, Handles
<1>3. CASE ReturnIgnored(t)
  BY <1>2, <1>3, SmallFlow DEF ReturnIgnored
<1>4. ASSUME NEW v, ReturnValue(t, v)  PROVE Flow(t)
  BY <1>2, <1>4, SmallFlow, SmallFrames DEF ReturnValue
<1>5. ASSUME NEW v, ReturnFinally(t, v)  PROVE Flow(t)
  BY <1>2, <1>5, SmallFlow, SmallFrames DEF ReturnFinally
<1>6. ASSUME NEW v, ReturnFinallyPromise(t, v)  PROVE Flow(t)
  BY <1>2, <1>6, SmallFlow, SmallFrames DEF ReturnFinallyPromise
<1>7. ASSUME NEW e, Throw(t, e)  PROVE Flow(t)
  BY <1>2, <1>7, SmallFlow, SmallFrames DEF Throw
<1>. QED  BY <1>3, <1>4, <1>5, <1>6, <1>7 DEF EndScript

---------------------------------------------------------------------------
(* Whose handlers the reactions and jobs are of.                            *)
LEMMA ElementReserved ==
  ASSUME CombInv, NEW K, K = Combined, NEW q \in Promises, IsElement(q)
  PROVE  /\ Reserved(K, q) /\ q \in Existing
         /\ \A p, how, h : how \in {"fulfilled", "rejected"} /\ NativeFits(K, p, how, h, q) =>
              /\ h.on = q /\ p = element[q].src
              /\ h.fn = IF how = "fulfilled" THEN "onFulfilled" ELSE "onRejected"
<1>1. ElementsInv
  BY DEF CombInv
<1>2. element[q].src \in Promises /\ q \in Existing
  BY <1>1 DEF ElementsInv, IsElement
<1>3. Reserved(K, q)
  <2>1. PICK n : n = [fn |-> "onFulfilled", on |-> q, src |-> element[q].src, how |-> "fulfilled"]
    OBVIOUS
  <2>2. n \in K.native
    BY <1>2, <2>1, CombinedIs
  <2>. QED  BY <2>1, <2>2 DEF Reserved
<1>4. ASSUME NEW p, NEW how \in {"fulfilled", "rejected"}, NEW h, NativeFits(K, p, how, h, q)
      PROVE  /\ h.on = q /\ p = element[q].src
             /\ h.fn = IF how = "fulfilled" THEN "onFulfilled" ELSE "onRejected"
  <2>1. h.on = q
    BY <1>3, <1>4 DEF NativeFits
  <2>2. PICK n \in K.native : n.fn = h.fn /\ n.on = q /\ n.src = p /\ n.how = how
    BY <1>3, <1>4 DEF NativeFits
  <2>3. \/ n.fn = "onFulfilled" /\ n.how = "fulfilled" /\ n.src = element[q].src
        \/ n.fn = "onRejected" /\ n.how = "rejected" /\ n.src = element[q].src
    BY <1>4, <2>2, CombinedIs
  <2>. QED  BY <2>1, <2>2, <2>3
<1>. QED  BY <1>2, <1>3, <1>4

LEMMA ElementReaction ==
  ASSUME CombInv, NEW p \in Promises, NEW j \in 1..Len(reactions[p]),
         NEW q \in Promises, q = reactions[p][j].to, IsElement(q)
  PROVE  p = element[q].src /\ ~ Settled(p)
<1>1. PICK K, r : K = Combined /\ r = reactions[p][j]
  OBVIOUS
<1>2. IInv(K)
  BY <1>1, CombFacts
<1>3. NativeFits(K, p, "fulfilled", r.onFulfilled, r.to)
  BY <1>1, <1>2 DEF IInv, NativeReactions
<1>4. p = element[q].src
  BY <1>1, <1>3, ElementReserved
<1>5. state[p] = "Pending"
  <2>1. CASE state[p] # "Pending"
    <3>1. reactions[p] = <<>>
      BY <1>2, <2>1 DEF IInv, SettledHasNoReactions
    <3>. QED  BY <3>1
  <2>. QED  BY <2>1
<1>. QED  BY <1>4, <1>5 DEF Settled

LEMMA ElementJob ==
  ASSUME CombInv, NEW K, K = Combined, NEW job \in FitJob(K), job.kind # "then"
  PROVE  /\ job.to \in Promises
         /\ IsElement(job.to) =>
              /\ job.src = element[job.to].src /\ state[job.src] \in {"Fulfilled", "Rejected"}
              /\ job.handler.on = job.to /\ job.handler.fn \in {"onFulfilled", "onRejected"}
         /\ job.handler.fn \in {"onFulfilled", "onRejected"} =>
              IsElement(job.to) /\ job.handler.on = job.to
<1>1. /\ job.to \in Promises /\ job.kind \in {"fulfilled", "rejected"} /\ Fits(job)
      /\ NativeFits(K, job.src, job.kind, job.handler, job.to)
  BY DEF FitJob, AnyJob
<1>2. PICK q, h : q = job.to /\ h = job.handler
  OBVIOUS
<1>3. ASSUME IsElement(q)
      PROVE  /\ job.src = element[q].src /\ state[job.src] \in {"Fulfilled", "Rejected"}
             /\ h.on = q /\ h.fn \in {"onFulfilled", "onRejected"}
  <2>1. h.on = q /\ job.src = element[q].src
        /\ h.fn = IF job.kind = "fulfilled" THEN "onFulfilled" ELSE "onRejected"
    BY <1>1, <1>2, <1>3, ElementReserved
  <2>. QED  BY <1>1, <2>1 DEF Fits
<1>4. ASSUME h.fn \in {"onFulfilled", "onRejected"}
      PROVE  IsElement(q) /\ h.on = q
  <2>1. h \in AnyHandler(K)
    BY <1>2 DEF FitJob, AnyJob, AnyHandler, Handler, None
  <2>2. h.fn \in Natives(K)
    BY <1>4, <2>1 DEF AnyHandler, Handler
  <2>3. h.on = q /\ \E n \in K.native : n.fn = h.fn /\ n.on = q
    BY <1>1, <1>2, <2>2 DEF NativeFits
  <2>4. PICK n \in K.native : n.fn = h.fn /\ n.on = q
    BY <2>3
  <2>5. IsElement(q)
    BY <1>4, <2>4, CombinedIs
  <2>. QED  BY <2>3, <2>5
<1>. QED  BY <1>1, <1>2, <1>3, <1>4

(* A frame takes the place of another, and neither is a handler.             *)
LEMMA OtherHandles ==
  ASSUME NEW S, stack \in [Threads -> Seq(S)], NEW t \in Threads, stack[t] # <<>>,
         ~ Handles(Head(stack[t])), NEW T, NEW fs \in Seq(T), Replace(t, fs),
         \A k \in 1..Len(fs) : ~ Handles(fs[k])
  PROVE  \A q : Handling(t, q)' <=> Handling(t, q)
<1>1. PICK L : L = Len(stack[t])
  OBVIOUS
<1>2. /\ TopChanged(t, L - 1, fs) /\ L \in Nat /\ L >= 1
      /\ FrameAt(t, L) = Head(stack[t])
  BY <1>1, ReplaceTop
<1>3. PICK N : Lands(t, L - 1, fs, N)
  BY <1>1, <1>2, TopLands
<1>4. /\ \A k \in 1..N : ~ Handles(fs[k])
      /\ \A d \in ((L - 1) + 1)..L : ~ Handles(FrameAt(t, d))
  <2>1. N = Len(fs)
    BY <1>3 DEF Lands
  <2>2. \A d \in ((L - 1) + 1)..L : d = L
    BY <1>2
  <2>. QED  BY <1>2, <2>1, <2>2
<1>. QED  BY <1>1, <1>2, <1>3, <1>4, LandsHandling

LEMMA OneHandles ==
  ASSUME NEW S, stack \in [Threads -> Seq(S)], NEW t \in Threads, stack[t] # <<>>,
         ~ Handles(Head(stack[t])),
         Replace(t, <<>>) \/ \E f : Replace(t, <<f>>) /\ ~ Handles(f)
  PROVE  \A q : Handling(t, q)' <=> Handling(t, q)
<1>1. CASE Replace(t, <<>>)
  <2>1. PICK fs : fs = <<>>
    OBVIOUS
  <2>2. fs \in Seq({}) /\ Len(fs) = 0 /\ Replace(t, fs)
    BY <1>1, <2>1
  <2>3. \A k \in 1..Len(fs) : ~ Handles(fs[k])
    BY <2>2
  <2>. QED  BY <2>2, <2>3, OtherHandles
<1>2. ASSUME NEW f, Replace(t, <<f>>), ~ Handles(f)
      PROVE  \A q : Handling(t, q)' <=> Handling(t, q)
  <2>1. PICK fs : fs = <<f>>
    OBVIOUS
  <2>2. fs \in Seq({f}) /\ Replace(t, fs) /\ Len(fs) = 1 /\ fs[1] = f
    BY <1>2, <2>1
  <2>3. \A k \in 1..Len(fs) : ~ Handles(fs[k])
    BY <1>2, <2>2
  <2>. QED  BY <2>2, <2>3, OtherHandles
<1>. QED  BY <1>1, <1>2

(* The line of the jobs stays while elements wait in it.                    *)
LEMMA LineFlow ==
  ASSUME NEW t, CombInv, CombUnchanged, Stays, Queued(t),
         BatchOf(stack'[t]) = BatchOf(stack[t]), \A q : Handling(t, q)' <=> Handling(t, q),
         \A q \in Existing : Waiting(t, q)' => Waiting(t, q)
  PROVE  Flow(t)
<1>1. /\ \A q : IsElement(q)' <=> IsElement(q)
      /\ Aggregates' = Aggregates /\ UNCHANGED <<element, decided, combinator>>
  BY CombsStay
<1>2. Same(t)
  BY DEF Same
<1>. QED  BY <1>1, <1>2 DEF Flow

---------------------------------------------------------------------------
(* A promise settles: who waited for it waits for the queue now.            *)
LEMMA SettleFlow ==
  ASSUME NEW t \in Threads, OneInv(t), Track, CombUnchanged, Stays,
         stack[t] # <<>>, Head(stack[t]).kind \in {"resolve", "reject"},
         NEW p \in Promises, NEW how, NEW v, Settle(t, p, how, v), UNCHANGED queue
  PROVE  Flow(t)
<1>. DEFINE js == [i \in 1..Len(reactions[p]) |->
          IF how = "Fulfilled"
          THEN ReactionJob("fulfilled", p, reactions[p][i].onFulfilled,
                           reactions[p][i].to)
          ELSE ReactionJob("rejected", p, reactions[p][i].onRejected,
                           reactions[p][i].to)]
<1>0. CombInv /\ Line(t) /\ ReadyInv
  BY DEF OneInv
<1>1. PICK f, s, n, K : f = Jobs("enqueue", js) /\ s = stack[t] /\ n = <<f>> \o Tail(s) /\ K = Combined
  OBVIOUS
<1>2. IInv(K) /\ IsMore(K) /\ Shape(s)
  BY <1>0, <1>1, CombFacts DEF Line
<1>3. /\ reactions' = [reactions EXCEPT ![p] = <<>>] /\ Replace(t, <<f>>)
      /\ f.kind = "enqueue" /\ f.jobs = js /\ stack'[t] = n
  BY <1>1, <1>2 DEF Settle, Replace, Jobs, IInv
<1>4. Len(reactions[p]) \in Nat
  BY <1>2, LenProperties DEF IInv
<1>5. /\ Len(js) = Len(reactions[p])
      /\ \A i \in 1..Len(js) : js[i].to = reactions[p][i].to
  BY <1>4 DEF ReactionJob
<1>. HIDE DEF js
<1>6. /\ s \in Seq(FitFrame(K)) /\ s # <<>> /\ s[1].kind # "batch"
  BY <1>1, <1>2, Parts
<1>7. EnqueueOf(n) = js /\ BatchOf(n) = BatchOf(s)
  BY <1>1, <1>2, <1>3, <1>6, EnqueueReplace
<1>8. BatchOf(stack'[t]) = BatchOf(stack[t]) /\ EnqueueOf(stack'[t]) = js
  BY <1>1, <1>3, <1>7
<1>9. \A q : Handling(t, q)' <=> Handling(t, q)
  <2>1. stack \in [Threads -> Seq(FitFrame(K))]
    BY <1>2 DEF IInv
  <2>2. ~ Handles(Head(stack[t])) /\ ~ Handles(f)
    BY <1>3 DEF Handles
  <2>. QED  BY <1>3, <2>1, <2>2, OneHandles
<1>10. Queued(t)
  <2>1. PICK S : queue \in Seq(S)
    BY <1>0, QueueTo
  <2>2. ready' = ready
    BY <2>1, TrackSame
  <2>. QED  BY <2>2 DEF Queued
<1>11. ASSUME NEW q, Waiting(t, q)'  PROVE Waiting(t, q)
  <2>1. CASE Has(js, q)
    <3>1. PICK i \in 1..Len(js) : js[i].to = q
      BY <2>1 DEF Has
    <3>2. i \in 1..Len(reactions[p]) /\ reactions[p][i].to = q
      BY <1>5, <3>1
    <3>. QED  BY <3>2 DEF Waiting, Due
  <2>2. CASE Due(q)'
    <3>1. PICK x, j : x \in Promises /\ j \in 1..Len(reactions'[x]) /\ reactions'[x][j].to = q
      BY <2>2 DEF Due
    <3>2. reactions \in [Promises -> Seq(FitReaction(K))]
      BY <1>2 DEF IInv
    <3>3. x # p
      <4>1. ASSUME x = p  PROVE FALSE
        <5>1. reactions'[x] = <<>>
          BY <1>3, <3>2, <4>1
        <5>. QED  BY <3>1, <5>1
      <4>. QED  BY <4>1
    <3>4. reactions'[x] = reactions[x]
      BY <1>3, <3>2, <3>1, <3>3
    <3>. QED  BY <3>1, <3>4 DEF Waiting, Due
  <2>3. Has(js, q) \/ Due(q)'
    BY <1>8, <1>11 DEF Waiting, Has
  <2>. QED  BY <2>1, <2>2, <2>3
<1>. QED  BY <1>0, <1>8, <1>9, <1>10, <1>11, LineFlow

LEMMA ResolveFlow ==
  ASSUME NEW t \in Threads, OneInv(t), Track, CombUnchanged, Stays, Resolve(t)
  PROVE  Flow(t)
<1>. USE DEF Resolve
<1>. DEFINE p == Head(stack[t]).on
            v == Head(stack[t]).value
<1>0. CombInv
  BY DEF OneInv
<1>1. stack[t] # <<>> /\ Head(stack[t]).kind = "resolve" /\ p \in Promises
  <2>1. PICK K : K = Combined
    OBVIOUS
  <2>2. IInv(K) /\ IsMore(K)
    BY <1>0, <2>1, CombFacts
  <2>. QED  BY <2>2, HeadFrame DEF Running
<1>2. ~ Settling(t) /\ ~ Handles(Head(stack[t]))
  BY <1>1 DEF Settling, Handles
<1>3. CASE /\ Replace(t, <<>>)
           /\ UNCHANGED <<state, result, reactions, lock, queue>>
  BY <1>1, <1>2, <1>3, SmallFlow
<1>4. CASE /\ Replace(t, <<Call("reject", p, TypeErr)>>)
           /\ UNCHANGED <<state, result, reactions, queue>>
  BY <1>1, <1>2, <1>4, SmallFlow, SmallFrames
<1>5. CASE /\ queue' = Append(queue, ThenJob(v, p))
           /\ Replace(t, <<>>)
           /\ UNCHANGED <<state, result, reactions, lock>>
  <2>1. ThenJob(v, p).kind = "then"
    BY DEF ThenJob
  <2>. QED  BY <1>1, <1>2, <1>5, <2>1, SmallFlow
<1>6. CASE Settle(t, p, "Fulfilled", v) /\ UNCHANGED <<lock, queue>>
  BY <1>1, <1>6, SettleFlow
<1>. QED  BY <1>3, <1>4, <1>5, <1>6

LEMMA RejectFlow ==
  ASSUME NEW t \in Threads, OneInv(t), Track, CombUnchanged, Stays, Reject(t)
  PROVE  Flow(t)
<1>. USE DEF Reject
<1>. DEFINE p == Head(stack[t]).on
<1>0. CombInv
  BY DEF OneInv
<1>1. stack[t] # <<>> /\ Head(stack[t]).kind = "reject" /\ p \in Promises
  <2>1. PICK K : K = Combined
    OBVIOUS
  <2>2. IInv(K) /\ IsMore(K)
    BY <1>0, <2>1, CombFacts
  <2>. QED  BY <2>2, HeadFrame DEF Running
<1>2. ~ Settling(t) /\ ~ Handles(Head(stack[t]))
  BY <1>1 DEF Settling, Handles
<1>3. CASE Replace(t, <<>>) /\ UNCHANGED <<state, result, reactions>>
  BY <1>1, <1>2, <1>3, SmallFlow
<1>4. CASE Settle(t, p, "Rejected", Head(stack[t]).value)
  BY <1>1, <1>4, SettleFlow
<1>. QED  BY <1>3, <1>4

---------------------------------------------------------------------------
(* The first of a sequence comes before the others.                         *)
LEMMA FirstOfAll ==
  ASSUME NEW S, NEW s \in Seq(S), s # <<>>, NEW r, r = Tail(s), NEW h, h = Head(s)
  PROVE  /\ 1 \in 1..Len(s) /\ s[1] = h /\ h \in S /\ r \in Seq(S)
         /\ \A i \in 1..Len(r) : i + 1 \in 1..Len(s) /\ 1 < i + 1 /\ r[i] = s[i + 1]
<1>1. /\ Len(s) \in Nat /\ Len(s) >= 1 /\ Head(s) = s[1] /\ Len(Tail(s)) = Len(s) - 1
      /\ \A k \in 1..Len(Tail(s)) : Tail(s)[k] = s[k + 1]
      /\ Tail(s) \in Seq(S)
  BY HeadTailProperties, LenProperties, EmptySeq
<1>2. 1 \in 1..Len(s) /\ s[1] \in S
  BY <1>1, ElementOfSeq
<1>3. Len(r) = Len(s) - 1 /\ \A k \in 1..Len(r) : r[k] = s[k + 1]
  BY <1>1
<1>. QED  BY <1>1, <1>2, <1>3

(* A settling call queues an element: it becomes ready.                     *)
LEMMA EnqueueEnters ==
  ASSUME CombInv, NEW t \in Threads, Line(t), Passed(t), Queue(t), UNCHANGED <<element, state, reactions>>,
         NEW jobs, jobs = EnqueueOf(stack[t]), jobs # <<>>, EnqueueOf(stack'[t]) = Tail(jobs),
         NEW job, job = Head(jobs), job.kind # "then", IsElement(job.to)
  PROVE  Enters(t, job.to)
<1>1. PICK K, q : K = Combined /\ q = job.to
  OBVIOUS
<1>2. IInv(K) /\ IsMore(K)
  BY <1>1, CombFacts
<1>3. jobs \in Seq(FitJob(K))
  BY <1>2, Parts
<1>4. PICK r : r = Tail(jobs)
  OBVIOUS
<1>5. /\ 1 \in 1..Len(jobs) /\ jobs[1] = job /\ job \in FitJob(K) /\ r \in Seq(FitJob(K))
      /\ \A i \in 1..Len(r) : i + 1 \in 1..Len(jobs) /\ 1 < i + 1 /\ r[i] = jobs[i + 1]
  BY <1>3, <1>4, FirstOfAll
<1>6. /\ q \in Promises /\ job.src = element[q].src
      /\ state[job.src] \in {"Fulfilled", "Rejected"}
  BY <1>1, <1>5, ElementJob
<1>7. ~ Ready(q)
  <2>1. Has(jobs, q)
    BY <1>1, <1>5 DEF Has
  <2>. QED  BY <2>1 DEF Ready, Passed
<1>8. ~ Has(r, q)
  <2>1. ASSUME NEW i \in 1..Len(r), r[i].kind # "then", r[i].to = q  PROVE FALSE
    <3>1. r[i] \in FitJob(K)
      BY <1>5, <2>1, ElementOfSeq
    <3>2. r[i].src = element[q].src
      BY <1>1, <2>1, <3>1, ElementJob
    <3>3. Ahead(jobs[1], jobs[i + 1])
      BY <1>5 DEF Line, InLine, Ordered
    <3>4. job.to < r[i].to
      BY <1>5, <1>6, <2>1, <3>2, <3>3 DEF Ahead
    <3>. QED  BY <1>1, <1>6, <2>1, <3>4 DEF Promises
  <2>. QED  BY <2>1 DEF Has
<1>9. ~ Due(q)
  <2>1. ASSUME NEW x \in Promises, NEW j \in 1..Len(reactions[x]), reactions[x][j].to = q
        PROVE  FALSE
    <3>1. x = element[q].src /\ ~ Settled(x)
      BY <1>1, <1>6, <2>1, ElementReaction
    <3>. QED  BY <1>6, <3>1 DEF Settled
  <2>. QED  BY <2>1 DEF Due
<1>10. ~ Waiting(t, q)'
  <2>1. EnqueueOf(stack'[t]) = r /\ (Due(q)' <=> Due(q))
    BY <1>4 DEF Due
  <2>. QED  BY <1>8, <1>9, <2>1 DEF Waiting, Has
<1>11. \A s : AllReady(s) => Strange(q, s)
  BY <1>1, <1>7 DEF AllReady, Strange
<1>12. Strange(q, BatchOf(stack[t])) /\ Strange(q, queue)
  BY <1>11 DEF Queue
<1>. QED  BY <1>1, <1>6, <1>7, <1>10, <1>12 DEF Enters, IsElement

LEMMA EnqueueFlow ==
  ASSUME NEW t \in Threads, OneInv(t), Track, CombUnchanged, Stays, Enqueue(t)
  PROVE  Flow(t)
<1>0. /\ CombInv /\ Line(t) /\ Passed(t) /\ Queue(t) /\ UNCHANGED <<element, state, reactions>>
  BY DEF OneInv, Enqueue, CombUnchanged
<1>1. PICK K, jobs : K = Combined /\ jobs = Head(stack[t]).jobs
  OBVIOUS
<1>2. IInv(K) /\ IsMore(K)
  BY <1>0, <1>1, CombFacts
<1>3. stack[t] # <<>> /\ Head(stack[t]).kind = "enqueue" /\ jobs \in Seq(FitJob(K))
  BY <1>1, <1>2, HeadFrame DEF Enqueue, Running
<1>4. /\ stack[t] \in Seq(FitFrame(K)) /\ Shape(stack[t]) /\ stack[t][1].kind = "enqueue"
      /\ EnqueueOf(stack[t]) = jobs /\ stack \in [Threads -> Seq(FitFrame(K))]
  BY <1>0, <1>1, <1>2, <1>3, Parts DEF Line, EnqueueOf, IInv
<1>5. PICK S : queue \in Seq(S)
  BY <1>0, QueueTo
<1>6. ~ Handles(Head(stack[t]))
  BY <1>3 DEF Handles
<1>7. CASE jobs = <<>> /\ Replace(t, <<>>) /\ UNCHANGED queue
  <2>1. EnqueueOf(stack'[t]) = <<>> /\ BatchOf(stack'[t]) = BatchOf(stack[t])
    BY <1>0, <1>2, <1>3, <1>7, QuietOne
  <2>2. \A q : Handling(t, q)' <=> Handling(t, q)
    BY <1>3, <1>4, <1>6, <1>7, OneHandles
  <2>3. ready' = ready
    BY <1>5, <1>7, TrackSame
  <2>4. \A q : Waiting(t, q)' => Waiting(t, q)
    <3>1. \A q : Due(q)' <=> Due(q)
      BY <1>0 DEF Due
    <3>. QED  BY <2>1, <3>1 DEF Waiting, Has
  <2>5. Queued(t)
    BY <1>7, <2>3 DEF Queued
  <2>. QED  BY <1>0, <2>1, <2>2, <2>4, <2>5, LineFlow
<1>8. CASE /\ jobs # <<>>
           /\ queue' = Append(queue, Head(jobs))
           /\ Replace(t, <<Jobs("enqueue", Tail(jobs))>>)
  <2>1. PICK f, s, n, job : /\ f = Jobs("enqueue", Tail(jobs)) /\ s = stack[t]
                            /\ n = <<f>> \o Tail(s) /\ job = Head(jobs)
    OBVIOUS
  <2>2. f.kind = "enqueue" /\ f.jobs = Tail(jobs) /\ stack'[t] = n /\ Replace(t, <<f>>)
    BY <1>4, <1>8, <2>1 DEF Replace, Jobs
  <2>3. s \in Seq(FitFrame(K)) /\ s # <<>> /\ Shape(s) /\ s[1].kind # "batch"
    BY <1>3, <1>4, <2>1
  <2>4. EnqueueOf(n) = Tail(jobs) /\ BatchOf(n) = BatchOf(s)
    BY <2>1, <2>2, <2>3, EnqueueReplace
  <2>5. EnqueueOf(stack'[t]) = Tail(jobs) /\ BatchOf(stack'[t]) = BatchOf(stack[t])
    BY <2>1, <2>2, <2>4
  <2>6. \A q : Handling(t, q)' <=> Handling(t, q)
    <3>1. ~ Handles(f)
      BY <2>2 DEF Handles
    <3>. QED  BY <1>3, <1>4, <1>6, <2>2, <3>1, OneHandles
  <2>7. ready' = IF job.kind # "then" /\ IsElement(job.to)' THEN Append(ready, job.to) ELSE ready
    BY <1>5, <1>8, <2>1, TrackGrown
  <2>8. IsElement(job.to)' <=> IsElement(job.to)
    BY <1>0 DEF IsElement
  <2>9. Queued(t)
    <3>1. CASE job.kind # "then" /\ IsElement(job.to)
      <4>1. Enters(t, job.to)
        BY <1>0, <1>4, <1>8, <2>1, <2>5, <3>1, EnqueueEnters
      <4>2. Joined(t, job)
        BY <1>8, <2>1, <2>7, <2>8, <3>1, <4>1 DEF Joined
      <4>. QED  BY <4>2 DEF Queued
    <3>2. CASE ~ (job.kind # "then" /\ IsElement(job.to))
      <4>1. Joined(t, job)
        BY <1>8, <2>1, <2>7, <2>8, <3>2 DEF Joined
      <4>. QED  BY <4>1 DEF Queued
    <3>. QED  BY <3>1, <3>2
  <2>10. ASSUME NEW q, Waiting(t, q)'  PROVE Waiting(t, q)
    <3>1. Due(q)' <=> Due(q)
      BY <1>0 DEF Due
    <3>2. PICK r : r = Tail(jobs)
      OBVIOUS
    <3>3. Has(r, q) => Has(jobs, q)
      <4>1. \A i \in 1..Len(r) : i + 1 \in 1..Len(jobs) /\ r[i] = jobs[i + 1]
        BY <1>3, <1>8, <3>2, FirstOfAll
      <4>. QED  BY <4>1 DEF Has
    <3>4. Has(r, q) \/ Due(q)'
      BY <2>5, <2>10, <3>2 DEF Waiting, Has
    <3>. QED  BY <1>4, <3>1, <3>3, <3>4 DEF Waiting
  <2>. QED  BY <1>0, <2>5, <2>6, <2>9, <2>10, LineFlow
<1>. QED  BY <1>1, <1>7, <1>8 DEF Enqueue

---------------------------------------------------------------------------
(* The batch runs a job when it is the only frame.                          *)
Only(t, jobs) ==
  /\ stack[t] # <<>> /\ Len(stack[t]) = 1 /\ FrameAt(t, 1) = Head(stack[t])
  /\ Head(stack[t]).kind = "batch" /\ jobs = Head(stack[t]).jobs
  /\ BatchOf(stack[t]) = jobs /\ EnqueueOf(stack[t]) = <<>>
  /\ \A q : ~ Handling(t, q)

LEMMA BatchAlone ==
  ASSUME CombInv, NEW t \in Threads, Line(t), Running(t, "batch"), NEW jobs, jobs = Head(stack[t]).jobs
  PROVE  Only(t, jobs) /\ \A K : K = Combined => jobs \in Seq(FitJob(K))
<1>1. PICK K : K = Combined
  OBVIOUS
<1>2. IInv(K) /\ IsMore(K)
  BY <1>1, CombFacts
<1>3. stack[t] # <<>> /\ Head(stack[t]).kind = "batch" /\ jobs \in Seq(FitJob(K))
  BY <1>2, HeadFrame DEF Running
<1>4. stack[t] \in Seq(FitFrame(K)) /\ stack[t][1] = Head(stack[t])
  BY <1>2, <1>3, Parts
<1>5. Len(stack[t]) = 1
  <2>1. 1 \in 1..Len(stack[t])
    BY <1>3, <1>4, LenProperties, EmptySeq
  <2>. QED  BY <1>3, <1>4, <2>1 DEF Line, Shape
<1>6. FrameAt(t, 1) = Head(stack[t])
  BY <1>4, <1>5 DEF FrameAt
<1>7. BatchOf(stack[t]) = jobs /\ EnqueueOf(stack[t]) = <<>>
  BY <1>3, <1>4, <1>5 DEF BatchOf, EnqueueOf
<1>8. ASSUME NEW q, Handling(t, q)  PROVE FALSE
  <2>1. PICK d \in 1..Len(stack[t]) : Handles(FrameAt(t, d))
    BY <1>8 DEF Handling
  <2>2. d = 1
    BY <1>5, <2>1
  <2>. QED  BY <1>3, <1>6, <2>1, <2>2 DEF Handles
<1>. QED  BY <1>1, <1>3, <1>5, <1>6, <1>7, <1>8 DEF Only

(* The frames of the job on the rest of the batch.                          *)
LEMMA RanBatch ==
  ASSUME CombInv, CombInv', NEW t \in Threads, NEW jobs, Only(t, jobs),
         NEW T, NEW fs \in Seq(T), Replace(t, fs), NEW N, N = Len(fs), N \in Nat, N >= 1,
         NEW js, fs[N] = Jobs("batch", js), \A k \in 1..N : k = N \/ Quiet(fs[k])
  PROVE  /\ BatchOf(stack'[t]) = js /\ EnqueueOf(stack'[t]) = <<>>
         /\ \A q : Handling(t, q)' <=> \E k \in 1..N : Handles(fs[k]) /\ fs[k].on = q
<1>1. PICK S : stack \in [Threads -> Seq(S)]
  BY CombStacks
<1>2. PICK R : stack' \in [Threads -> Seq(R)]
  BY CombStacksNext
<1>3. PICK L : L = Len(stack[t])
  OBVIOUS
<1>4. TopChanged(t, L - 1, fs) /\ L \in Nat /\ L = 1
  BY <1>1, <1>3, ReplaceTop DEF Only
<1>5. PICK b : b = 0
  OBVIOUS
<1>6. TopChanged(t, b, fs)
  <2>1. b = L - 1
    BY <1>4, <1>5
  <2>. QED  BY <1>4, <2>1
<1>7. \E M : Lands(t, b, fs, M)
  BY <1>3, <1>4, <1>6, TopLands
<1>8. Lands(t, b, fs, N)
  BY <1>7 DEF Lands
<1>9. /\ Len(stack'[t]) = N
      /\ \A k \in 1..N : FrameAt(t, N + 1 - k)' = fs[k]
  <2>1. Len(stack'[t]) = N
    BY <1>5, <1>6 DEF TopChanged
  <2>2. ASSUME NEW k \in 1..N  PROVE FrameAt(t, N + 1 - k)' = fs[k]
    <3>1. N + 1 - k = b + N + 1 - k
      BY <1>5
    <3>. QED  BY <1>8, <3>1 DEF Lands
  <2>. QED  BY <2>1, <2>2
<1>10. FrameAt(t, 1)' = fs[N] /\ FrameAt(t, N)' = fs[1]
  <2>1. N \in 1..N /\ 1 \in 1..N /\ N + 1 - N = 1 /\ N + 1 - 1 = N
    OBVIOUS
  <2>. QED  BY <1>9, <2>1
<1>11. /\ fs[N].kind = "batch" /\ fs[N].jobs = js
       /\ fs[1].kind # "enqueue"
  <2>1. fs[N].kind = "batch" /\ fs[N].jobs = js
    BY DEF Jobs
  <2>2. 1 \in 1..N
    OBVIOUS
  <2>. QED  BY <2>1, <2>2 DEF Quiet
<1>12. stack'[t] \in Seq(R)
  BY <1>2
<1>13. /\ BatchOf(stack'[t]) =
            IF N # 0 /\ (FrameAt(t, 1)').kind = "batch" THEN (FrameAt(t, 1)').jobs ELSE <<>>
       /\ EnqueueOf(stack'[t]) =
            IF N # 0 /\ (FrameAt(t, N)').kind = "enqueue" THEN (FrameAt(t, N)').jobs ELSE <<>>
  BY <1>9, <1>12, ShapeIsNext
<1>14. BatchOf(stack'[t]) = js /\ EnqueueOf(stack'[t]) = <<>>
  BY <1>10, <1>11, <1>13
<1>15. ASSUME NEW q, Handling(t, q)'  PROVE \E k \in 1..N : Handles(fs[k]) /\ fs[k].on = q
  <2>1. PICK d \in 1..Len(stack'[t]) : Handles(FrameAt(t, d)') /\ (FrameAt(t, d)').on = q
    BY <1>15 DEF Handling, Handles
  <2>2. PICK k : k = N + 1 - d
    OBVIOUS
  <2>3. k \in 1..N /\ d = N + 1 - k
    BY <1>9, <2>1, <2>2
  <2>4. FrameAt(t, d)' = fs[k]
    BY <1>9, <2>3
  <2>. QED  BY <2>1, <2>3, <2>4
<1>16. ASSUME NEW q, NEW k \in 1..N, Handles(fs[k]), fs[k].on = q  PROVE Handling(t, q)'
  <2>1. PICK d : d = N + 1 - k
    OBVIOUS
  <2>2. d \in 1..Len(stack'[t]) /\ FrameAt(t, d)' = fs[k]
    BY <1>9, <2>1
  <2>. QED  BY <1>16, <2>2 DEF Handling, Handles
<1>. QED  BY <1>14, <1>15, <1>16

(* Which frames a reaction job makes.                                       *)
RunFrames(job, rest, fs, N) ==
  /\ N = Len(fs) /\ N \in Nat /\ N >= 1 /\ fs[N] = rest /\ \E S : fs \in Seq(S)
  /\ \A k \in 1..N : k = N \/ Quiet(fs[k])
  /\ \A q : (\E k \in 1..N : Handles(fs[k]) /\ fs[k].on = q) <=> job.to = q /\ IsElement(q)

LEMMA JobFrames ==
  ASSUME CombInv, NEW K, K = Combined, NEW job \in FitJob(K), job.kind # "then",
         NEW rest, NEW js, rest = Jobs("batch", js), NEW fs
  PROVE  fs = HandlerFrames(job) \o <<rest>> => \E N : RunFrames(job, rest, fs, N)
<1>a. SUFFICES ASSUME fs = HandlerFrames(job) \o <<rest>>
               PROVE  \E N : RunFrames(job, rest, fs, N)
  OBVIOUS
<1>0. PICK v, q, h : v = result[job.src] /\ q = job.to /\ h = job.handler
  OBVIOUS
<1>1. ~ Handles(rest) /\ Serves(K)
  BY CombFacts DEF Jobs, Handles
<1>2. /\ IsElement(q) => h.on = q /\ h.fn \in {"onFulfilled", "onRejected"}
      /\ h.fn \in {"onFulfilled", "onRejected"} => IsElement(q) /\ h.on = q
  BY <1>0, ElementJob
<1>3. ASSUME NEW f, Quiet(f), ~ Handles(f), fs = <<f>> \o <<rest>>, ~ IsElement(q)
      PROVE  \E N : RunFrames(job, rest, fs, N)
  <2>1. fs = <<f, rest>>
    BY <1>3, ConcatTwo
  <2>2. Len(fs) = 2 /\ fs[1] = f /\ fs[2] = rest /\ fs \in Seq({f, rest})
    BY <2>1, TwoSeq
  <2>3. \A k \in 1..2 : k = 1 \/ k = 2
    OBVIOUS
  <2>4. \A k \in 1..2 : ~ Handles(fs[k]) /\ (k = 2 \/ Quiet(fs[k]))
    BY <1>1, <1>3, <2>2, <2>3
  <2>5. \A x : ~ (job.to = x /\ IsElement(x)) /\ ~ \E k \in 1..2 : Handles(fs[k]) /\ fs[k].on = x
    BY <1>0, <1>3, <2>4
  <2>6. \A k \in 1..2 : k = 2 \/ Quiet(fs[k])
    BY <2>4
  <2>7. RunFrames(job, rest, fs, 2)
    BY <2>2, <2>5, <2>6 DEF RunFrames
  <2>. QED  BY <2>7
<1>4. CASE h.fn = "none"
  BY <1>a, <1>0, <1>2, <1>3, <1>4, SmallFrames DEF HandlerFrames
<1>5. CASE h.fn \in {"js", "finally"}
  BY <1>a, <1>0, <1>2, <1>3, <1>5, SmallFrames DEF HandlerFrames
<1>6. CASE h.fn \notin {"none", "js", "finally"}
  <2>0. PICK f, g : f = Call(h.fn, h.on, v) /\ g = Call("resolve", q, Undefined)
    OBVIOUS
  <2>1. fs = <<f, g>> \o <<rest>>
    BY <1>a, <1>0, <1>6, <2>0 DEF HandlerFrames
  <2>2. fs = <<f, g, rest>>
    BY <2>1, ConcatThree
  <2>3. Len(fs) = 3 /\ fs[1] = f /\ fs[2] = g /\ fs[3] = rest /\ fs \in Seq({f, g, rest})
    BY <2>2, ThreeSeq
  <2>4. Quiet(g) /\ ~ Handles(g)
    BY <2>0, SmallFrames
  <2>5. Quiet(f) /\ f.on = h.on /\ (Handles(f) <=> h.fn \in {"onFulfilled", "onRejected"})
    <3>1. h \in AnyHandler(K)
      BY <1>0 DEF FitJob, AnyJob, AnyHandler, Handler, None
    <3>2. h.fn \notin {"enqueue", "batch"}
      BY <1>1, <3>1 DEF AnyHandler, Handler, Serves, IsMore, Natives
    <3>. QED  BY <2>0, <3>2 DEF Quiet, Handles, Call
  <2>6. \A k \in 1..3 : k = 1 \/ k = 2 \/ k = 3
    OBVIOUS
  <2>7. \A k \in 1..3 : k = 3 \/ Quiet(fs[k])
    BY <2>3, <2>4, <2>5, <2>6
  <2>8. ASSUME NEW x
        PROVE  (\E k \in 1..3 : Handles(fs[k]) /\ fs[k].on = x) <=> job.to = x /\ IsElement(x)
    <3>1. (\E k \in 1..3 : Handles(fs[k]) /\ fs[k].on = x) <=> Handles(f) /\ f.on = x
      BY <1>1, <2>3, <2>4, <2>6
    <3>. QED  BY <1>0, <1>2, <2>5, <3>1
  <2>9. RunFrames(job, rest, fs, 3)
    BY <2>3, <2>7, <2>8 DEF RunFrames
  <2>. QED  BY <2>9
<1>. QED  BY <1>4, <1>5, <1>6

---------------------------------------------------------------------------
(* A job leaves the front of the batch.                                     *)
LEMMA RunFlow ==
  ASSUME NEW t, CombInv, CombUnchanged, Stays, NEW jobs, Only(t, jobs), jobs # <<>>,
         BatchOf(stack'[t]) = Tail(jobs), EnqueueOf(stack'[t]) = <<>>,
         NEW job, job = Head(jobs),
         \A q : Handling(t, q)' <=> job.kind # "then" /\ job.to = q /\ IsElement(q),
         Queued(t), \A q \in Existing : Due(q)' => Due(q)
  PROVE  Flow(t)
<1>1. /\ \A q : IsElement(q)' <=> IsElement(q)
      /\ Aggregates' = Aggregates /\ UNCHANGED <<element, decided, combinator>>
  BY CombsStay
<1>2. BatchOf(stack[t]) = jobs /\ \A q : ~ Handling(t, q)
  BY DEF Only
<1>3. Run(t)
  BY <1>2 DEF Run
<1>4. ASSUME NEW q \in Existing, Waiting(t, q)'  PROVE Waiting(t, q)
  <2>1. ~ Has(EnqueueOf(stack'[t]), q)
    BY DEF Has
  <2>2. Due(q)'
    BY <1>4, <2>1 DEF Waiting, Has
  <2>. QED  BY <2>2 DEF Waiting
<1>. QED  BY <1>1, <1>3, <1>4 DEF Flow

LEMMA RunReactionFlow ==
  ASSUME NEW t \in Threads, OneInv(t), CombInv', Track, CombUnchanged, Stays, RunReaction(t)
  PROVE  Flow(t)
<1>0. CombInv /\ Line(t) /\ ReadyInv /\ Running(t, "batch") /\ UNCHANGED <<queue, reactions>>
  BY DEF OneInv, RunReaction
<1>1. PICK K, jobs, job, rest : /\ K = Combined /\ jobs = Head(stack[t]).jobs /\ job = Head(jobs)
                                /\ rest = Jobs("batch", Tail(jobs))
  OBVIOUS
<1>2. Only(t, jobs) /\ jobs \in Seq(FitJob(K))
  BY <1>0, <1>1, BatchAlone
<1>3. PICK fs : fs = HandlerFrames(job) \o <<rest>>
  OBVIOUS
<1>4. jobs # <<>> /\ job.kind # "then" /\ Replace(t, fs)
  BY <1>1, <1>3 DEF RunReaction
<1>5. job \in FitJob(K)
  BY <1>1, <1>2, <1>4, FirstOfAll
<1>6. \E N : RunFrames(job, rest, fs, N)
  BY <1>0, <1>1, <1>3, <1>4, <1>5, JobFrames
<1>7. PICK N : RunFrames(job, rest, fs, N)
  BY <1>6
<1>8. /\ N = Len(fs) /\ N \in Nat /\ N >= 1 /\ fs[N] = rest /\ \E S : fs \in Seq(S)
      /\ \A k \in 1..N : k = N \/ Quiet(fs[k])
      /\ \A q : (\E k \in 1..N : Handles(fs[k]) /\ fs[k].on = q) <=> job.to = q /\ IsElement(q)
  BY <1>7 DEF RunFrames
<1>9. PICK js : js = Tail(jobs)
  OBVIOUS
<1>10. /\ BatchOf(stack'[t]) = js /\ EnqueueOf(stack'[t]) = <<>>
       /\ \A q : Handling(t, q)' <=> \E k \in 1..N : Handles(fs[k]) /\ fs[k].on = q
  <2>1. PICK S : fs \in Seq(S)
    BY <1>8
  <2>2. fs[N] = Jobs("batch", js)
    BY <1>1, <1>8, <1>9
  <2>. QED  BY <1>0, <1>2, <1>4, <1>8, <2>1, <2>2, RanBatch
<1>11. Queued(t) /\ \A q : Due(q)' => Due(q)
  BY <1>0, QuietQueue
<1>. QED  BY <1>0, <1>1, <1>2, <1>4, <1>8, <1>9, <1>10, <1>11, RunFlow

LEMMA RunThenFlow ==
  ASSUME NEW t \in Threads, OneInv(t), CombInv', Track, CombUnchanged, Stays, RunThen(t)
  PROVE  Flow(t)
<1>0. CombInv /\ Line(t) /\ ReadyInv /\ Running(t, "batch") /\ UNCHANGED element
  BY DEF OneInv, RunThen, CombUnchanged
<1>1. PICK jobs, job, rest, js : /\ jobs = Head(stack[t]).jobs /\ job = Head(jobs)
                                 /\ js = Tail(jobs) /\ rest = Jobs("batch", js)
  OBVIOUS
<1>2. Only(t, jobs) /\ jobs # <<>> /\ job.kind = "then"
  BY <1>0, <1>1, BatchAlone DEF RunThen
<1>3. ASSUME NEW T, NEW fs \in Seq(T), Replace(t, fs), NEW N \in Nat, N >= 1, N = Len(fs), fs[N] = rest,
             \A k \in 1..N : (k = N \/ Quiet(fs[k])) /\ ~ Handles(fs[k])
      PROVE  /\ BatchOf(stack'[t]) = js /\ EnqueueOf(stack'[t]) = <<>>
             /\ \A q : ~ Handling(t, q)'
  <2>1. /\ BatchOf(stack'[t]) = js /\ EnqueueOf(stack'[t]) = <<>>
        /\ \A q : Handling(t, q)' <=> \E k \in 1..N : Handles(fs[k]) /\ fs[k].on = q
    BY <1>0, <1>1, <1>2, <1>3, RanBatch
  <2>. QED  BY <1>3, <2>1
<1>4. ~ Handles(rest)
  BY <1>1 DEF Jobs, Handles
<1>5. ASSUME Replace(t, <<rest>>)
      PROVE  /\ BatchOf(stack'[t]) = js /\ EnqueueOf(stack'[t]) = <<>>
             /\ \A q : ~ Handling(t, q)'
  <2>1. PICK fs : fs = <<rest>>
    OBVIOUS
  <2>2. fs \in Seq({rest}) /\ Len(fs) = 1 /\ fs[1] = rest /\ Replace(t, fs)
    BY <1>5, <2>1
  <2>3. \A k \in 1..1 : (k = 1 \/ Quiet(fs[k])) /\ ~ Handles(fs[k])
    BY <1>4, <2>2
  <2>4. PICK N : N = 1
    OBVIOUS
  <2>5. /\ fs \in Seq({rest}) /\ N \in Nat /\ N >= 1 /\ N = Len(fs) /\ fs[N] = rest
        /\ \A k \in 1..N : (k = N \/ Quiet(fs[k])) /\ ~ Handles(fs[k])
    BY <2>2, <2>3, <2>4
  <2>6. PICK T : fs \in Seq(T)
    BY <2>2
  <2>. QED  BY <1>3, <2>2, <2>5, <2>6
<1>6. ASSUME Replace(t, <<Script(NoPromise, job.to, "no", Undefined), rest>>)
      PROVE  /\ BatchOf(stack'[t]) = js /\ EnqueueOf(stack'[t]) = <<>>
             /\ \A q : ~ Handling(t, q)'
  <2>1. PICK f, fs : f = Script(NoPromise, job.to, "no", Undefined) /\ fs = <<f, rest>>
    OBVIOUS
  <2>2. fs \in Seq({f, rest}) /\ Len(fs) = 2 /\ fs[1] = f /\ fs[2] = rest
    BY <2>1, TwoSeq
  <2>3. Replace(t, fs)
    BY <1>6, <2>1
  <2>4. Quiet(f) /\ ~ Handles(f)
    BY <2>1, SmallFrames
  <2>5. \A k \in 1..2 : k = 1 \/ k = 2
    OBVIOUS
  <2>6. \A k \in 1..2 : (k = 2 \/ Quiet(fs[k])) /\ ~ Handles(fs[k])
    BY <1>4, <2>2, <2>4, <2>5
  <2>7. PICK N : N = 2
    OBVIOUS
  <2>8. /\ fs \in Seq({f, rest}) /\ N \in Nat /\ N >= 1 /\ N = Len(fs) /\ fs[N] = rest
        /\ \A k \in 1..N : (k = N \/ Quiet(fs[k])) /\ ~ Handles(fs[k])
    BY <2>2, <2>6, <2>7
  <2>9. PICK T : fs \in Seq(T)
    BY <2>2
  <2>. QED  BY <1>3, <2>3, <2>8, <2>9
<1>7. Queued(t) /\ \A q \in Existing : Due(q)' => Due(q)
  <2>1. CASE \E f, g : job.src \in Promises /\ Register(job.src, f, g)
    BY <1>0, <2>1, QueueChanges
  <2>2. CASE UNCHANGED <<reactions, queue>>
    BY <1>0, <2>2, QueueChanges
  <2>. QED  BY <1>1, <2>1, <2>2 DEF RunThen
<1>8. /\ BatchOf(stack'[t]) = js /\ EnqueueOf(stack'[t]) = <<>>
      /\ \A q : ~ Handling(t, q)'
  <2>1. Replace(t, <<rest>>) \/ Replace(t, <<Script(NoPromise, job.to, "no", Undefined), rest>>)
    BY <1>1 DEF RunThen
  <2>. QED  BY <1>5, <1>6, <2>1
<1>. QED  BY <1>0, <1>1, <1>2, <1>7, <1>8, RunFlow

(* The batch ends.                                                          *)
LEMMA EndBatchFlow ==
  ASSUME NEW t \in Threads, OneInv(t), Track, CombUnchanged, Stays, EndBatch(t)
  PROVE  Flow(t)
<1>0. CombInv /\ Line(t) /\ Running(t, "batch") /\ UNCHANGED <<queue, reactions>> /\ Replace(t, <<>>)
  BY DEF OneInv, EndBatch
<1>1. PICK K, jobs : K = Combined /\ jobs = Head(stack[t]).jobs
  OBVIOUS
<1>2. Only(t, jobs) /\ jobs = <<>> /\ IInv(K) /\ IsMore(K)
  BY <1>0, <1>1, BatchAlone, CombFacts DEF EndBatch
<1>3. stack[t] # <<>> /\ ~ Handles(Head(stack[t])) /\ Head(stack[t]).kind = "batch"
  BY <1>2 DEF Only, Handles
<1>4. EnqueueOf(stack'[t]) = <<>> /\ BatchOf(stack'[t]) = <<>>
  BY <1>0, <1>2, <1>3, QuietOne
<1>5. \A q : Handling(t, q)' <=> Handling(t, q)
  <2>1. stack \in [Threads -> Seq(FitFrame(K))]
    BY <1>2 DEF IInv
  <2>. QED  BY <1>0, <1>3, <2>1, OneHandles
<1>6. Queued(t) /\ \A q : Due(q)' => Due(q)
  BY <1>0, QuietQueue
<1>7. BatchOf(stack'[t]) = BatchOf(stack[t])
  BY <1>2, <1>4 DEF Only
<1>8. ASSUME NEW q, Waiting(t, q)'  PROVE Waiting(t, q)
  <2>1. ~ Has(EnqueueOf(stack'[t]), q)
    BY <1>4 DEF Has
  <2>2. Due(q)'
    BY <1>8, <2>1 DEF Waiting, Has
  <2>. QED  BY <1>6, <2>2 DEF Waiting
<1>. QED  BY <1>0, <1>5, <1>6, <1>7, <1>8, LineFlow

(* The queue becomes the batch.                                             *)
LEMMA ProcessFlow ==
  ASSUME NEW t \in Threads, OneInv(t), Track, CombUnchanged, Stays, ProcessMicrotasks(t)
  PROVE  Flow(t)
<1>0. /\ CombInv /\ Line(t) /\ stack[t] = <<>> /\ queue' = <<>> /\ UNCHANGED reactions
      /\ Push(t, Jobs("batch", queue))
  BY DEF OneInv, ProcessMicrotasks
<1>1. PICK K, f, n : K = Combined /\ f = Jobs("batch", queue) /\ n = <<f>>
  OBVIOUS
<1>2. f.kind = "batch" /\ f.jobs = queue /\ IInv(K)
  BY <1>0, <1>1, CombFacts DEF Jobs
<1>3. stack'[t] = n
  <2>1. stack' = [stack EXCEPT ![t] = n \o @]
    BY <1>0, <1>1 DEF Push
  <2>2. n \in Seq({f}) /\ stack'[t] = n \o stack[t]
    BY <1>1, <1>2, <2>1 DEF IInv
  <2>3. n \o <<>> = n
    BY <2>2, ConcatEmptySeq
  <2>. QED  BY <1>0, <2>2, <2>3
<1>4. Len(n) = 1 /\ n[1] = f /\ n # <<>>
  BY <1>1
<1>5. BatchOf(stack'[t]) = queue /\ EnqueueOf(stack'[t]) = <<>>
  BY <1>2, <1>3, <1>4 DEF BatchOf, EnqueueOf
<1>6. BatchOf(stack[t]) = <<>> /\ EnqueueOf(stack[t]) = <<>>
  BY <1>0 DEF BatchOf, EnqueueOf
<1>7. \A q : ~ Handling(t, q)
  <2>1. Len(stack[t]) = 0
    BY <1>0
  <2>. QED  BY <2>1 DEF Handling
<1>8. ASSUME NEW q, Handling(t, q)'  PROVE FALSE
  <2>1. PICK d \in 1..Len(stack'[t]) : Handles(FrameAt(t, d)')
    BY <1>8 DEF Handling, Handles
  <2>2. d = 1 /\ Len(stack'[t]) = 1
    BY <1>3, <1>4, <2>1
  <2>3. FrameAt(t, d)' = f
    BY <1>3, <1>4, <2>2 DEF FrameAt
  <2>. QED  BY <1>2, <2>1, <2>3 DEF Handles
<1>9. ready' = ready
  <2>1. PICK S : queue \in Seq(S)
    BY <1>0, QueueTo
  <2>. QED  BY <1>0, <2>1, TrackSame
<1>10. Processed(t)
  BY <1>0, <1>5, <1>6, <1>7, <1>8, <1>9 DEF Processed
<1>11. ASSUME NEW q, Waiting(t, q)'  PROVE Waiting(t, q)
  <2>1. ~ Has(EnqueueOf(stack'[t]), q)
    BY <1>5 DEF Has
  <2>2. Due(q)'
    BY <1>11, <2>1 DEF Waiting, Has
  <2>. QED  BY <1>0, <2>2 DEF Waiting, Due
<1>12. /\ \A q : IsElement(q)' <=> IsElement(q)
       /\ Aggregates' = Aggregates /\ UNCHANGED <<element, decided, combinator>>
  BY <1>0, CombsStay
<1>. QED  BY <1>10, <1>11, <1>12 DEF Flow

(* Every step of Promise.                                                   *)
LEMMA PromiseFlow ==
  ASSUME NEW t \in Threads, Threads = {t}, OneInv(t), CombInv', Track,
         PromiseStep(t), CombUnchanged
  PROVE  Frames(t)' /\ Flow(t)
<1>1. Frames(t)' /\ Stays
  BY PromiseOne
<1>2. Flow(t)
  BY <1>1, ApiFlow, EndScriptFlow, ResolveFlow, RejectFlow, EnqueueFlow, RunReactionFlow,
     RunThenFlow, EndBatchFlow, ProcessFlow DEF PromiseStep, Native
<1>. QED  BY <1>1, <1>2

---------------------------------------------------------------------------
(* The invariant of one thread holds at the start,                          *)
LEMMA OneInit ==
  ASSUME NEW t, Threads = {t}, CombInit  PROVE OneInv(t)
<1>1. CombInv
  BY InitComb
<1>2. /\ Init /\ ready = <<>> /\ phase = [p \in Promises |-> "none"]
      /\ combinator = [p \in Promises |-> "none"] /\ element = [p \in Promises |-> NoElement]
  BY DEF CombInit
<1>3. stack[t] = <<>> /\ queue = <<>> /\ \A p \in Promises : reactions[p] = <<>>
  BY <1>2 DEF Init
<1>4. Len(<<>>) = 0
  OBVIOUS
<1>5. Len(stack[t]) = 0 /\ Len(queue) = 0 /\ Len(ready) = 0
      /\ BatchOf(stack[t]) = <<>> /\ EnqueueOf(stack[t]) = <<>>
  BY <1>2, <1>3, <1>4 DEF BatchOf, EnqueueOf
<1>6. Line(t)
  BY <1>3, <1>4 DEF Line, Shape, BatchOf, EnqueueOf, InLine, Ordered, Before, Rising
<1>7. \A q \in Promises : ~ IsElement(q)
  BY <1>2 DEF IsElement
<1>8. Aggregates = {}
  BY <1>2 DEF Aggregates
<1>9. OnBatch(t) /\ Strays(t) /\ \A q : ~ Handling(t, q)
  BY <1>5 DEF OnBatch, Strays, Handling
<1>10. Phases(t)
  BY <1>2, <1>5, <1>8 DEF Phases, LoopAt
<1>11. Verdicts(t)
  BY <1>8 DEF Verdicts, StatesJust, CallsJust, Threw
<1>12. Recorded
  BY <1>7 DEF Recorded
<1>13. ReadyInv /\ Passed(t)
  BY <1>2, <1>5 DEF ReadyInv, Passed
<1>14. Queue(t)
  <2>1. Len(BatchOf(stack[t])) = 0
    BY <1>4, <1>5
  <2>. QED  BY <1>5, <1>9, <2>1 DEF Queue, InTurn, Turns, AllReady
<1>15. Undecided(t)
  BY <1>8 DEF Undecided
<1>. QED  BY <1>1, <1>6, <1>9, <1>10, <1>11, <1>12, <1>13, <1>14, <1>15 DEF OneInv

(* when nothing changes,                                                    *)
LEMMA OneStutter ==
  ASSUME NEW t, OneInv(t), CombInv', UNCHANGED allVars  PROVE OneInv(t)'
<1>1. /\ UNCHANGED <<stack, queue, reactions, state, result, created>>
      /\ UNCHANGED <<combinator, phase, remaining, decided, results, element, ready>>
  BY DEF allVars, vars, combVars
<1>2. Line(t)' /\ OnBatch(t)' /\ Strays(t)'
  BY <1>1 DEF OneInv, Line, OnBatch, Strays, FrameAt, Handles, Aggregates
<1>3. Phases(t)'
  BY <1>1 DEF OneInv, Phases, LoopAt, FrameAt, Aggregates
<1>4. Verdicts(t)'
  BY <1>1 DEF OneInv, Verdicts, StatesJust, CallsJust, Threw, Judged, Just, Earned, First, Decides,
              Deciding, Settled, Aggregates, FrameAt, Running
<1>5. Recorded'
  BY <1>1 DEF OneInv, Recorded, IsElement, Slot, Settled, Outcome
<1>6. ReadyInv' /\ Passed(t)'
  BY <1>1 DEF OneInv, ReadyInv, Passed, IsElement, Settled
<1>7. Queue(t)'
  <2>1. PICK b, c, r : b = BatchOf(stack[t]) /\ c = BatchOf(stack'[t]) /\ r = queue'
    OBVIOUS
  <2>2. b = c /\ r = queue
    BY <1>1, <2>1
  <2>3. /\ InTurn(b) /\ InTurn(r) /\ Turns(b, r) /\ AllReady(b) /\ AllReady(r)
        /\ \A q \in Promises : Handling(t, q) => Ready(q) /\ Behind(q, b) /\ Behind(q, r)
    BY <2>1, <2>2 DEF OneInv, Queue
  <2>4. \A q : (Handling(t, q)' <=> Handling(t, q)) /\ (Ready(q)' <=> Ready(q))
    BY <1>1 DEF Handling, Handles, FrameAt, Ready
  <2>5. \A q, x : Turn(q, x)' <=> Turn(q, x)
    BY <1>1 DEF Turn
  <2>6. InTurn(b)' /\ InTurn(r)' /\ Turns(b, r)'
    BY <2>3, <2>5 DEF InTurn, Turns, Later
  <2>7. AllReady(b)' /\ AllReady(r)'
    BY <1>1, <2>3, <2>4 DEF AllReady, IsElement
  <2>8. \A q \in Promises : Handling(t, q)' => Ready(q)' /\ Behind(q, b)' /\ Behind(q, r)'
    BY <2>3, <2>4, <2>5 DEF Behind
  <2>. QED  BY <2>1, <2>2, <2>6, <2>7, <2>8, QueueIs
<1>8. Undecided(t)'
  BY <1>1 DEF OneInv, Undecided, Decides, Deciding, Waits, Handling, Handles, FrameAt, Aggregates
<1>. QED  BY <1>2, <1>3, <1>4, <1>5, <1>6, <1>7, <1>8 DEF OneInv

(* and in every step.                                                       *)
LEMMA OneNext ==
  ASSUME NEW t, Threads = {t}, OneInv(t), [CombNext]_allVars  PROVE OneInv(t)'
<1>1. CombInv' /\ t \in Threads
  BY NextComb DEF OneInv
<1>2. CASE UNCHANGED allVars
  BY <1>1, <1>2, OneStutter
<1>3. CASE CombNext
  <2>1. CombApi(t) \/ CombNative(t) \/ CombEndScript(t) \/ CombProcessMicrotasks(t)
    BY <1>3 DEF CombNext
  <2>2. Frames(t)' /\ Flow(t)
    <3>1. CASE CombApi(t)
      <4>1. CASE \E k \in Kinds : Combine(t, k)
        BY <1>1, <3>1, <4>1, CombineFlow DEF CombApi
      <4>2. CASE Api(t) /\ CombUnchanged
        BY <1>1, <3>1, <4>2, PromiseFlow DEF CombApi, PromiseStep
      <4>. QED  BY <3>1, <4>1, <4>2 DEF CombApi
    <3>2. CASE CombNative(t)
      <4>1. CASE Subscribe(t)
        BY <1>1, <3>2, <4>1, SubscribeFlow DEF CombNative
      <4>2. CASE ElementFulfilled(t) \/ ElementRejected(t)
        BY <1>1, <3>2, <4>2, HandlerFlow DEF CombNative
      <4>3. CASE Native(t) /\ CombUnchanged
        BY <1>1, <3>2, <4>3, PromiseFlow DEF CombNative, PromiseStep
      <4>. QED  BY <3>2, <4>1, <4>2, <4>3 DEF CombNative
    <3>3. CASE CombEndScript(t)
      <4>1. CASE (\E v \in ElementValues : NextValue(t, v)) \/ NextDone(t)
                   \/ \E e \in Reasons : NextThrows(t, e)
        BY <1>1, <3>3, <4>1, LoopFlow DEF CombEndScript
      <4>2. CASE ~ InIterator(t) /\ EndScript(t) /\ CombUnchanged
        BY <1>1, <3>3, <4>2, PromiseFlow DEF CombEndScript, PromiseStep
      <4>. QED  BY <3>3, <4>1, <4>2 DEF CombEndScript
    <3>4. CASE CombProcessMicrotasks(t)
      BY <1>1, <3>4, PromiseFlow DEF CombProcessMicrotasks, PromiseStep
    <3>. QED  BY <2>1, <3>1, <3>2, <3>3, <3>4
  <2>3. CombInv /\ ReadyInv /\ Passed(t) /\ Queue(t) /\ Undecided(t)
    BY DEF OneInv
  <2>4. ReadyInv' /\ Passed(t)'
    BY <2>2, <2>3, KeepReady, KeepPassed
  <2>5. Queue(t)' /\ Undecided(t)'
    BY <1>1, <2>2, <2>3, KeepQueue, KeepUndecided
  <2>. QED  BY <1>1, <2>2, <2>4, <2>5 DEF OneInv, Frames
<1>. QED  BY <1>2, <1>3

(* What one thread's invariant says of an aggregate that is settled.        *)
LEMMA Verdict ==
  ASSUME NEW t, OneInv(t), NEW a \in Aggregates, Settled(a), phase[a] # "threw"
  PROVE  phase[a] = "done" /\ Earned(a, state[a], result[a])
  BY DEF OneInv, Verdicts, StatesJust, Just

(* No slot is empty: every one belongs to an element.                       *)
LEMMA Counted ==
  ASSUME CombInv, NEW a \in Aggregates, remaining[a] = 0
  PROVE  /\ Cardinality(Elements(a)) = Len(results[a])
         /\ \A q \in Elements(a) : IsElement(q) /\ Slot(q) # Hole
<1>1. SlotsInv /\ ElementsInv /\ a \in Promises
  BY DEF CombInv, Aggregates
<1>2. PICK S, s : s = results[a] /\ s \in Seq(S)
  BY <1>1 DEF SlotsInv
<1>3. PICK n \in Nat : n = Len(s)
  BY <1>2
<1>4. Holes(s) = {}
  <2>1. IsFiniteSet(Holes(s))
    BY <1>2, HolesFinite
  <2>2. Cardinality(Holes(s)) = 0
    BY <1>1, <1>2 DEF SlotsInv
  <2>. QED  BY <2>1, <2>2, FS_EmptySet
<1>5. \A i \in 1..n : s[i] # Hole
  BY <1>3, <1>4 DEF Holes
<1>6. \A q \in Elements(a) : q \in Promises /\ IsElement(q) /\ element[q].of = a
  BY <1>1, PromiseAssumption DEF ElementsInv, Elements, IsElement, NoElement, NoPromise, Promises
<1>7. \A q \in Elements(a) : element[q].index \in 1..n /\ Slot(q) # Hole
  BY <1>1, <1>2, <1>3, <1>5, <1>6 DEF ElementsInv, Slot
<1>8. ASSUME NEW i \in 1..n  PROVE \E q \in Elements(a) : element[q].index = i
  <2>1. ~ Awaited(a, i)
    BY <1>1, <1>2, <1>3, <1>5, <1>8 DEF ElementsInv
  <2>. QED  BY <2>1 DEF Awaited, Elements
<1>9. PICK f : f = [q \in Elements(a) |-> element[q].index]
  OBVIOUS
<1>10. f \in Bijection(Elements(a), 1..n)
  <2>1. f \in [Elements(a) -> 1..n]
    BY <1>7, <1>9
  <2>2. \A q, r \in Elements(a) : f[q] = f[r] => q = r
    BY <1>1, <1>6, <1>9 DEF ElementsInv
  <2>3. \A i \in 1..n : \E q \in Elements(a) : f[q] = i
    BY <1>8, <1>9
  <2>. QED  BY <2>1, <2>2, <2>3, Fun_IsBij
<1>11. IsFiniteSet(1..n) /\ Cardinality(1..n) = n
  BY FS_Interval
<1>12. Cardinality(Elements(a)) = n
  <2>1. Elements(a) \subseteq Promises /\ IsFiniteSet(Promises)
    BY FS_Interval, PromiseAssumption DEF Elements, Promises
  <2>2. IsFiniteSet(Elements(a))
    BY <2>1, FS_Subset
  <2>3. Cardinality(Elements(a)) = Cardinality(1..n)
    BY <1>10, <1>11, <2>2, FS_Bijection DEF ExistsBijection
  <2>. QED  BY <1>11, <2>3
<1>. QED  BY <1>2, <1>3, <1>6, <1>7, <1>12

---------------------------------------------------------------------------
LEMMA CompleteOne ==
  ASSUME NEW t, OneInv(t)  PROVE ResultsComplete
<1>1. CombInv /\ Recorded
  BY DEF OneInv
<1>2. ASSUME NEW a \in Aggregates, ByElements(a)
      PROVE  /\ phase[a] = "done" /\ remaining[a] = 0
             /\ result[a] = (IF combinator[a] = "any" THEN AggregateError ELSE ResultArray)
  <2>1. Settled(a)
    BY <1>2 DEF ByElements, Settled
  <2>2. phase[a] # "threw"
    BY <1>2, <2>1 DEF OneInv, Verdicts, Threw, ByElements, Settled
  <2>3. phase[a] = "done" /\ Earned(a, state[a], result[a])
    BY <2>1, <2>2, Verdict
  <2>4. \/ state[a] = "Fulfilled" /\ combinator[a] \in {"all", "allSettled"}
        \/ state[a] = "Rejected" /\ combinator[a] = "any"
    BY <1>2 DEF ByElements
  <2>. QED  BY <2>3, <2>4 DEF Earned
<1>3. ASSUME NEW a \in Aggregates, ByElements(a), NEW q \in Elements(a)
      PROVE  /\ Settled(element[q].src)
             /\ results[a][element[q].index] = Outcome(element[q].src)
             /\ combinator[a] = "all" => state[element[q].src] = "Fulfilled"
             /\ combinator[a] = "any" => state[element[q].src] = "Rejected"
  <2>1. q \in Promises /\ element[q].of = a /\ IsElement(q) /\ Slot(q) # Hole
    BY <1>1, <1>2, <1>3, Counted DEF Elements
  <2>. QED  BY <1>1, <2>1 DEF Recorded, Slot
<1>4. \A a \in Aggregates : ByElements(a) => Cardinality(Elements(a)) = Len(results[a])
  BY <1>1, <1>2, Counted
<1>. QED  BY <1>2, <1>3, <1>4 DEF ResultsComplete

LEMMA FirstOne ==
  ASSUME NEW t, OneInv(t)  PROVE FirstWins
<1>1. ASSUME NEW a \in Aggregates, Settled(a), phase[a] # "threw", ~ ByElements(a)
      PROVE  \E i \in First(a) : LET p == element[ready[i]].src
                                 IN  state[a] = state[p] /\ result[a] = result[p]
  <2>1. Earned(a, state[a], result[a])
    BY <1>1, Verdict
  <2>. QED  BY <1>1, <2>1 DEF Earned, ByElements
<1>. QED  BY <1>1 DEF FirstWins

(* On one thread, what all, allSettled and any settle with for the elements  *)
(* as a whole is complete, for any number of elements and any interleaving   *)
(* of their promises: the handlers of promise_static.cpp count every element *)
(* off once, after its slot holds the outcome of its own promise.           *)
THEOREM CompleteWhenDone ==
  ASSUME NEW t, Threads = {t}
  PROVE  CombSpec => []ResultsComplete
<1>1. CombInit => OneInv(t)
  BY OneInit
<1>2. OneInv(t) /\ [CombNext]_allVars => OneInv(t)'
  BY OneNext
<1>3. OneInv(t) => ResultsComplete
  BY CompleteOne
<1>. QED  BY <1>1, <1>2, <1>3, PTL DEF CombSpec

(* On one thread, where one element decides, it is the first whose reaction  *)
(* was queued, however long the aggregate's executor keeps subscribing and   *)
(* whatever other handlers run in between.                                 *)
THEOREM FirstDecides ==
  ASSUME NEW t, Threads = {t}
  PROVE  CombSpec => []FirstWins
<1>1. CombInit => OneInv(t)
  BY OneInit
<1>2. OneInv(t) /\ [CombNext]_allVars => OneInv(t)'
  BY OneNext
<1>3. OneInv(t) => FirstWins
  BY FirstOne
<1>. QED  BY <1>1, <1>2, <1>3, PTL DEF CombSpec
=============================================================================
