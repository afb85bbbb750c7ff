------------------------- MODULE PromiseCombinators -------------------------
(***************************************************************************)
(* promise_static.cpp: Promise.all, race, allSettled and any, on top of the  *)
(* promises, the reactions and the microtask queue of Promise.              *)
(*                                                                         *)
(* A combinator runs in the executor of the promise it returns, its         *)
(* aggregate.  The executor is a "loop" frame under the script frame of the  *)
(* iterator's next(); each element it is given gets two handlers of its      *)
(* own, which an ordinary then() registers and the microtask loop calls.    *)
(* The derived promise of that then() stands for the element.               *)
(*                                                                         *)
(* The constructor's resolve and the promises' then are the built-in ones.  *)
(***************************************************************************)
EXTENDS Promise

CONSTANTS
  Kinds,         (* the combinators scripts call                             *)
  ElementValues, (* what iterators yield                                     *)
  MaxCombined,   (* combinators called; bounds the model                     *)
  MaxDepth,      (* frames under which a script that is no iterator calls more *)
  ResultArray,   (* the array that all and allSettled resolve with           *)
  AggregateError (* what any rejects with; its errors are in `results`       *)

ASSUME CombinatorsAssumption ==
  /\ Kinds \subseteq {"all", "race", "allSettled", "any"}
  /\ ElementValues \subseteq Value
  /\ MaxCombined \in Nat /\ MaxDepth \in Nat
  /\ ResultArray \in Plain /\ AggregateError \in Plain

VARIABLES
  combinator,  (* of which combinator a promise is the aggregate, or "none"  *)
  phase,       (* of its executor                                            *)
  remaining,   (* *remainingCount                                            *)
  decided,     (* *alreadyRejected, *alreadySettled, *alreadyResolved        *)
  results,     (* resultArray or errorsArray, an entry for each element; a   *)
               (* race keeps none, and has them here to count its elements   *)
  element,     (* the element that a derived promise stands for              *)
  ready        (* history: the elements in the order their jobs were queued  *)

combVars == <<combinator, phase, remaining, decided, results, element, ready>>
allVars  == <<vars, combVars>>

NoElement == [of |-> NoPromise, index |-> 0, src |-> NoPromise]
Hole      == [status |-> "hole", value |-> Undefined]
Entry(status, v) == [status |-> status, value |-> v]

OnFulfilled(q) == [fn |-> "onFulfilled", on |-> q]
OnRejected(q)  == [fn |-> "onRejected",  on |-> q]

CombInit ==
  /\ Init
  /\ combinator = [p \in Promises |-> "none"]
  /\ phase = [p \in Promises |-> "none"]
  /\ remaining = [p \in Promises |-> 0]
  /\ decided = [p \in Promises |-> FALSE]
  /\ results = [p \in Promises |-> <<>>]
  /\ element = [p \in Promises |-> NoElement]
  /\ ready = <<>>

---------------------------------------------------------------------------
Aggregates == {a \in Promises : combinator[a] # "none"}

Loop(a) == Call("loop", a, Undefined)

(* A script frame that is an iterator's: its executor waits under it.       *)
InIterator(t) ==
  /\ Running(t, "script")
  /\ Len(stack[t]) > 1
  /\ stack[t][2].kind = "loop"

Iterator(a) == Script(NoPromise, a, "no", Undefined)

(* The executor and the iterator it called both end.                        *)
Leave(t, frames) == stack' = [stack EXCEPT ![t] = frames \o Tail(Tail(@))]

(* Promise.all(iterable) and the others: the aggregate is made, and its     *)
(* executor asks the iterable for its iterator and for the first element.   *)
Combine(t, k) ==
  /\ InScript(t)
  /\ Cardinality(Aggregates) < MaxCombined
  /\ budget >= 1 /\ created < MaxPromises
  /\ created' = created + 1
  /\ state' = [state EXCEPT ![created + 1] = "Pending"]
  /\ budget' = budget - 1
  /\ combinator' = [combinator EXCEPT ![created + 1] = k]
  /\ phase' = [phase EXCEPT ![created + 1] = "loop"]
  /\ stack' = [stack EXCEPT ![t] =
                 <<Iterator(created + 1), Loop(created + 1)>> \o @]
  /\ UNCHANGED <<result, reactions, lock, queue, exposed, awaits, remaining,
                 decided, results, element>>

(* The promises an element may cost: its derived promise, the one that       *)
(* Promise.resolve makes of a value that is none, and the value's adoption. *)
ElementCost(v) == IF v \in Promises THEN 1 ELSE 2 + Cost(v)

(* Mutation: the element is not counted.                                   *)
NextValueUncounted(t, v) ==
  /\ InIterator(t)
  /\ v \in Promises => v \in Existing
  /\ budget >= ElementCost(v)
  /\ budget' = budget - ElementCost(v)
  /\ LET a == stack[t][2].on
     IN  /\ results' = [results EXCEPT ![a] = Append(@, Hole)]
         /\ \/ /\ v \in Promises
               /\ Leave(t, <<Call("subscribe", v, Undefined), Loop(a)>>)
               /\ UNCHANGED <<created, state>>
            \/ /\ v \notin Promises
               /\ created < MaxPromises
               /\ created' = created + 1
               /\ state' = [state EXCEPT ![created + 1] = "Pending"]
               /\ Leave(t, <<Call("resolve", created + 1, v),
                             Call("subscribe", created + 1, Undefined), Loop(a)>>)
  /\ UNCHANGED <<result, reactions, lock, queue, exposed, awaits, combinator,
                 phase, remaining, decided, element>>

(* next() yields v: a slot is made and counted, and Promise.resolve(v) is v  *)
(* itself or a new promise resolved with it.                               *)
NextValue(t, v) ==
  /\ InIterator(t)
  /\ v \in Promises => v \in Existing
  /\ budget >= ElementCost(v)
  /\ budget' = budget - ElementCost(v)
  /\ LET a == stack[t][2].on
     IN  /\ results' = [results EXCEPT ![a] = Append(@, Hole)]
         /\ remaining' = [remaining EXCEPT ![a] = @ + 1]
         /\ \/ /\ v \in Promises
               /\ Leave(t, <<Call("subscribe", v, Undefined), Loop(a)>>)
               /\ UNCHANGED <<created, state>>
            \/ /\ v \notin Promises
               /\ created < MaxPromises
               /\ created' = created + 1
               /\ state' = [state EXCEPT ![created + 1] = "Pending"]
               /\ Leave(t, <<Call("resolve", created + 1, v),
                             Call("subscribe", created + 1, Undefined), Loop(a)>>)
  /\ UNCHANGED <<result, reactions, lock, queue, exposed, awaits, combinator,
                 phase, decided, element>>

(* The element's then(), and the iterator is asked for the next one.         *)
Subscribe(t) ==
  /\ Running(t, "subscribe")
  /\ LET p == Head(stack[t]).on
         q == created + 1
         a == stack[t][2].on
     IN  /\ Register(p, OnFulfilled(q), OnRejected(q))
         /\ element' = [element EXCEPT ![q] =
              [of |-> a, index |-> Len(results[a]), src |-> p]]
         /\ Replace(t, <<Iterator(a)>>)
  /\ UNCHANGED <<result, lock, exposed, awaits, budget, combinator, phase,
                 remaining, decided, results>>

(* No element is missing: all and allSettled resolve, any rejects.          *)
Complete(a) ==
  CASE combinator[a] \in {"all", "allSettled"} -> <<Call("resolve", a, ResultArray)>>
    [] combinator[a] = "any"                   -> <<Call("reject", a, AggregateError)>>
    [] combinator[a] = "race"                  -> <<>>

(* next() is done.  An empty iterable leaves a race pending for ever.       *)
NextDone(t) ==
  /\ InIterator(t)
  /\ LET a == stack[t][2].on
     IN  /\ phase' = [phase EXCEPT ![a] = "done"]
         /\ \/ /\ remaining[a] = 0
               /\ combinator[a] # "any" \/ results[a] = <<>> \/ ~decided[a]
               /\ Leave(t, Complete(a))
               /\ decided' = [decided EXCEPT ![a] =
                    @ \/ (combinator[a] = "any" /\ results[a] # <<>>)]
            \/ /\ remaining[a] # 0 \/ (combinator[a] = "any" /\ decided[a])
               /\ Leave(t, <<>>)
               /\ UNCHANGED decided
  /\ UNCHANGED <<created, state, result, reactions, lock, queue, exposed,
                 awaits, budget, combinator, remaining, results, element>>

(* Getting the iterator or its next element throws.                        *)
NextThrows(t, e) ==
  /\ InIterator(t)
  /\ e \in Promises => e \in Existing
  /\ LET a == stack[t][2].on
     IN  /\ phase' = [phase EXCEPT ![a] = "threw"]
         /\ Leave(t, <<Call("reject", a, e)>>)
  /\ UNCHANGED <<created, state, result, reactions, lock, queue, exposed,
                 awaits, budget, combinator, remaining, decided, results, element>>

---------------------------------------------------------------------------
(* The handlers of an element, run as the frame at the head of the stack.   *)

(* Mutation: the counter was captured by value when the element was given   *)
(* its handlers, so the first element's says that none is left.             *)
RecordByCopy(t, status) ==
  LET f == Head(stack[t])
      a == element[f.on].of
      i == element[f.on].index
  IN  /\ results' = [results EXCEPT ![a][i] = Entry(status, f.value)]
      /\ remaining' = [remaining EXCEPT ![a] = @ - 1]
      /\ Replace(t, IF i = 1 THEN Complete(a) ELSE <<>>)
      /\ decided' = [decided EXCEPT ![a] =
           @ \/ (combinator[a] = "any" /\ remaining[a] = 1)]

(* Mutation: an element that was rejected is not counted off.              *)
RecordFulfilled(t, status) ==
  LET f == Head(stack[t])
      a == element[f.on].of
      i == element[f.on].index
      left == IF status = "rejected" THEN remaining[a] ELSE remaining[a] - 1
  IN  /\ results' = [results EXCEPT ![a][i] = Entry(status, f.value)]
      /\ remaining' = [remaining EXCEPT ![a] = left]
      /\ Replace(t, IF left = 0 THEN Complete(a) ELSE <<>>)
      /\ decided' = [decided EXCEPT ![a] =
           @ \/ (combinator[a] = "any" /\ left = 0)]

(* The element's slot is filled and counted off; the last one completes.    *)
Record(t, status) ==
  LET f == Head(stack[t])
      a == element[f.on].of
      i == element[f.on].index
      left == remaining[a] - 1
  IN  /\ results' = [results EXCEPT ![a][i] = Entry(status, f.value)]
      /\ remaining' = [remaining EXCEPT ![a] = left]
      /\ Replace(t, IF left = 0 THEN Complete(a) ELSE <<>>)
      /\ decided' = [decided EXCEPT ![a] =
           @ \/ (combinator[a] = "any" /\ left = 0)]

(* Mutation: a rejected element resolves a race.                           *)
DecideResolve(t, how) ==
  LET f == Head(stack[t])
      a == element[f.on].of
  IN  /\ decided' = [decided EXCEPT ![a] = TRUE]
      /\ Replace(t, <<Call("resolve", a, f.value)>>)
      /\ UNCHANGED <<remaining, results>>

(* The element decides: the aggregate is settled the way it was.            *)
Decide(t, how) ==
  LET f == Head(stack[t])
      a == element[f.on].of
  IN  /\ decided' = [decided EXCEPT ![a] = TRUE]
      /\ Replace(t, <<Call(how, a, f.value)>>)
      /\ UNCHANGED <<remaining, results>>

(* Nothing is left to decide.  allSettled has no such flag.                 *)
Skip(t) ==
  LET a == element[Head(stack[t]).on].of
  IN  /\ decided[a] /\ combinator[a] # "allSettled"
      /\ Replace(t, <<>>)
      /\ UNCHANGED <<remaining, decided, results>>

ElementFulfilled(t) ==
  /\ Running(t, "onFulfilled")
  /\ LET a == element[Head(stack[t]).on].of
     IN  \/ Skip(t)
         \/ /\ combinator[a] = "allSettled" \/ (combinator[a] = "all" /\ ~decided[a])
            /\ Record(t, "fulfilled")
         \/ /\ combinator[a] \in {"race", "any"} /\ ~decided[a]
            /\ Decide(t, "resolve")
  /\ UNCHANGED <<created, state, result, reactions, lock, queue, exposed,
                 awaits, budget, combinator, phase, element>>

ElementRejected(t) ==
  /\ Running(t, "onRejected")
  /\ LET a == element[Head(stack[t]).on].of
     IN  \/ Skip(t)
         \/ /\ combinator[a] = "allSettled" \/ (combinator[a] = "any" /\ ~decided[a])
            /\ Record(t, "rejected")
         \/ /\ combinator[a] \in {"race", "all"} /\ ~decided[a]
            /\ Decide(t, "reject")
  /\ UNCHANGED <<created, state, result, reactions, lock, queue, exposed,
                 awaits, budget, combinator, phase, element>>

---------------------------------------------------------------------------
CombUnchanged == UNCHANGED <<combinator, phase, remaining, decided, results, element>>

(* The job of an element joins the queue.                                  *)
Queueing ==
  /\ Len(queue') > Len(queue)
  /\ queue'[Len(queue')].kind # "then"
  /\ element'[queue'[Len(queue')].to] # NoElement
Track == ready' = IF Queueing THEN Append(ready, queue'[Len(queue')].to) ELSE ready

CombNative(t) ==
  /\ \/ Subscribe(t) \/ ElementFulfilled(t) \/ ElementRejected(t)
     \/ Native(t) /\ CombUnchanged
  /\ Track

CombEndScript(t) ==
  /\ \/ \E v \in ElementValues : NextValue(t, v)
     \/ NextDone(t)
     \/ \E e \in Reasons : NextThrows(t, e)
     \/ ~InIterator(t) /\ EndScript(t) /\ CombUnchanged
  /\ Track

CombApi(t) ==
  /\ Len(stack[t]) <= MaxDepth \/ InIterator(t)
  /\ \/ \E k \in Kinds : Combine(t, k)
     \/ Api(t) /\ CombUnchanged
  /\ Track

CombProcessMicrotasks(t) == ProcessMicrotasks(t) /\ CombUnchanged /\ Track

CombNext ==
  \E t \in Threads : CombApi(t) \/ CombNative(t) \/ CombEndScript(t)
                      \/ CombProcessMicrotasks(t)

CombSpec == CombInit /\ [][CombNext]_allVars

(* As in Promise: fair threads, scripts and iterators that end, and an       *)
(* embedder that drains the queue.                                         *)
CombFairSpec ==
  /\ CombSpec
  /\ \A t \in Threads : /\ WF_allVars(CombNative(t))
                        /\ SF_allVars(CombEndScript(t))
                        /\ SF_allVars(CombProcessMicrotasks(t))

---------------------------------------------------------------------------
(* Properties.                                                             *)

Settled(p) == state[p] \in {"Fulfilled", "Rejected"}
Elements(a) == {q \in Promises : element[q].of = a}

(* The shapes of the combinators' state; the counter, a size_t, never goes  *)
(* below zero and never says more than the slots there are.                *)
CombTypeOK ==
  /\ combinator \in [Promises -> Kinds \cup {"none"}]
  /\ phase \in [Promises -> {"none", "loop", "done", "threw"}]
  /\ decided \in [Promises -> BOOLEAN]
  /\ element \in [Promises -> {NoElement} \cup
                    [of : Promises, index : 1..MaxPromises, src : Promises]]
  /\ \A a \in Promises : \A i \in 1..Len(results[a]) :
       results[a][i] \in {Hole} \cup [status : {"fulfilled", "rejected"}, value : Value]
  /\ \A a \in Promises : remaining[a] \in 0..Len(results[a])

(* When all or allSettled resolves with its array, or any rejects with its  *)
(* errors, the iterator is exhausted, no element is missing, and each slot  *)
(* holds the outcome of its own element, whatever order they came in.       *)
ByElements(a) ==
  \/ combinator[a] \in {"all", "allSettled"} /\ state[a] = "Fulfilled"
  \/ combinator[a] = "any" /\ state[a] = "Rejected" /\ phase[a] # "threw"

Outcome(p) == Entry(IF state[p] = "Fulfilled" THEN "fulfilled" ELSE "rejected", result[p])

ResultsComplete ==
  \A a \in Aggregates : ByElements(a) =>
    /\ phase[a] = "done"
    /\ result[a] = (IF combinator[a] = "any" THEN AggregateError ELSE ResultArray)
    /\ Cardinality(Elements(a)) = Len(results[a])
    /\ \A q \in Elements(a) :
         /\ Settled(element[q].src)
         /\ results[a][element[q].index] = Outcome(element[q].src)
         /\ combinator[a] = "all" => state[element[q].src] = "Fulfilled"
         /\ combinator[a] = "any" => state[element[q].src] = "Rejected"

(* Where one element decides, it is the first whose job could be queued: a   *)
(* race takes the first outcome, all the first rejection, any the first     *)
(* fulfilment.  allSettled is rejected by no element.                       *)
Deciding(a) ==
  CASE combinator[a] = "race" -> {"Fulfilled", "Rejected"}
    [] combinator[a] = "all"  -> {"Rejected"}
    [] combinator[a] = "any"  -> {"Fulfilled"}
    [] OTHER                  -> {}

Decides(a, i) ==
  element[ready[i]].of = a /\ state[element[ready[i]].src] \in Deciding(a)

First(a) == {i \in 1..Len(ready) :
               Decides(a, i) /\ \A j \in 1..(i - 1) : ~Decides(a, j)}

FirstWins ==
  \A a \in Aggregates :
    Settled(a) /\ phase[a] # "threw" /\ ~ByElements(a) =>
      \E i \in First(a) : LET p == element[ready[i]].src
                          IN  state[a] = state[p] /\ result[a] = result[p]

(* Liveness: once the iterator is exhausted and the elements settle what     *)
(* the aggregate's outcome is, it is settled: neither is ever undone, so    *)
(* again and again is once and for all.                                    *)
Decidable(a) ==
  /\ a \in Aggregates /\ phase[a] = "done"
  /\ \/ \E q \in Elements(a) : state[element[q].src] \in Deciding(a)
     \/ /\ \A q \in Elements(a) : Settled(element[q].src)
        /\ combinator[a] # "race"

DecidedSettles == \A a \in Promises : []<>(Decidable(a) => Settled(a))
=============================================================================
