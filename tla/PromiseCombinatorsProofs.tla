--------------------- MODULE PromiseCombinatorsProofs ---------------------
(***************************************************************************)
(* Proofs about the combinators of promise_static.cpp, for any number of    *)
(* promises, scripts, iterators and threads: the counter of the elements   *)
(* that are missing is the number of empty slots, and each slot is filled   *)
(* by its own element, once.                                               *)
(***************************************************************************)
EXTENDS PromiseCombinators, PromiseReactionProofs


(* What the combinators add to Promise: the executors of the aggregates, the *)
(* calls of then() these make, and two handlers for each element, which are  *)
(* called with the outcome of the promise that the element is.  The          *)
(* aggregates are settled by the combinators alone.                        *)
IsElement(q) == element[q] # NoElement

Combined ==
  [native |->
     {n \in [fn : {"loop", "subscribe", "onFulfilled", "onRejected"}, on : Promises,
             src : Promises \cup {NoPromise}, how : {"never", "fulfilled", "rejected"}] :
        \/ n.fn = "loop" /\ n.how = "never" /\ n.on \in Aggregates
        \/ n.fn = "subscribe" /\ n.how = "never"
        \/ /\ n.fn = "onFulfilled" /\ n.how = "fulfilled"
           /\ IsElement(n.on) /\ n.src = element[n.on].src
        \/ /\ n.fn = "onRejected" /\ n.how = "rejected"
           /\ IsElement(n.on) /\ n.src = element[n.on].src},
   own |-> Aggregates]

(* The same without the handlers of the element q.                          *)
Without(K, q) ==
  [native |-> {n \in K.native : n.how = "never" \/ n.on # q}, own |-> K.own]

---------------------------------------------------------------------------
(* Which frames stand on which: an executor waits under its iterator or     *)
(* under the then() of its element, a handler is called on top of all and   *)
(* just above the call that resolves the derived promise after it.          *)
Handles(f) == f.kind \in {"onFulfilled", "onRejected"}

Above(f, g) ==
  /\ g.kind = "loop" => f.kind = "subscribe" \/ f = Iterator(g.on)
  /\ f.kind = "subscribe" => g.kind = "loop"
  /\ Handles(f) => g = Call("resolve", f.on, Undefined)
  /\ ~ Handles(g)

Stacked(t) ==
  /\ Len(stack[t]) # 0 =>
       /\ FrameAt(t, Len(stack[t])).kind # "loop"
       /\ FrameAt(t, 1).kind # "subscribe" /\ ~ Handles(FrameAt(t, 1))
  /\ \A d \in 1..(Len(stack[t]) - 1) : Above(FrameAt(t, d + 1), FrameAt(t, d))

LoopAt(a, t, d) ==
  /\ d \in 1..Len(stack[t])
  /\ FrameAt(t, d).kind = "loop" /\ FrameAt(t, d).on = a

OneLoop ==
  \A a : \A t, u \in Threads : \A d, e :
    LoopAt(a, t, d) /\ LoopAt(a, u, e) => t = u /\ d = e

(* The slot of the element that the executor is about to give handlers.     *)
Awaited(a, i) == \A q \in Promises : IsElement(q) => element[q].of # a \/ element[q].index # i

SubscribeAt(a, t, d) ==
  /\ LoopAt(a, t, d)
  /\ d + 1 \in 1..Len(stack[t]) /\ FrameAt(t, d + 1).kind = "subscribe"

SubscribeInv ==
  \A a \in Promises : \A t \in Threads : \A d :
    SubscribeAt(a, t, d) => Len(results[a]) # 0 /\ Awaited(a, Len(results[a]))

Holes(s) == {i \in 1..Len(s) : s[i] = Hole}

(* The shapes of the combinators' variables, and how many slots are empty.   *)
SlotsInv ==
  /\ combinator \in [Promises -> Kinds \cup {"none"}]
  /\ phase \in [Promises -> {"none", "loop", "done", "threw"}]
  /\ decided \in [Promises -> BOOLEAN]
  /\ results \in [Promises -> Seq({Hole} \cup [status : {"fulfilled", "rejected"}, value : Value])]
  /\ remaining \in [Promises -> Nat]
  /\ \A a \in Promises : /\ remaining[a] = Cardinality(Holes(results[a]))
                         /\ Len(results[a]) + budget <= MaxPromises
  /\ Aggregates \subseteq Existing

(* Each element has a slot of its own.                                     *)
ElementsInv ==
  /\ element \in [Promises -> {NoElement} \cup [of : Promises, index : 1..MaxPromises, src : Promises]]
  /\ \A q \in Promises : IsElement(q) =>
       /\ q \in Existing /\ q \notin Aggregates /\ element[q].of \in Aggregates
       /\ element[q].index \in 1..Len(results[element[q].of])
  /\ \A q, r \in Promises :
       IsElement(q) /\ IsElement(r) /\ element[q].of = element[r].of
         /\ element[q].index = element[r].index => q = r
  /\ \A a \in Promises : \A i \in 1..Len(results[a]) : Awaited(a, i) => results[a][i] = Hole

Slot(q) == results[element[q].of][element[q].index]

---------------------------------------------------------------------------
(* The frames of t up to the height b stay, and those of fs stand on them.   *)
TopChanged(t, b, fs) ==
  /\ b \in 0..Len(stack[t]) /\ Len(fs) \in Nat
  /\ \A u \in Threads : u # t => stack'[u] = stack[u]
  /\ Len(stack'[t]) = b + Len(fs)
  /\ \A d \in 1..b : FrameAt(t, d)' = FrameAt(t, d)
  /\ \A d \in (b + 1)..(b + Len(fs)) : FrameAt(t, d)' = fs[b + Len(fs) + 1 - d]

(* Frames are put on the lower part of a stack.                             *)
LEMMA TopIs ==
  ASSUME NEW S, stack \in [Threads -> Seq(S)], NEW t \in Threads,
         NEW base \in Seq(S), Len(base) <= Len(stack[t]),
         \A k \in 1..Len(base) : base[k] = stack[t][k + (Len(stack[t]) - Len(base))],
         NEW T, NEW fs \in Seq(T),
         stack' = [stack EXCEPT ![t] = fs \o base]
  PROVE  TopChanged(t, Len(base), fs)
<1>. DEFINE B == Len(base)
            N == Len(fs)
            L == Len(stack[t])
            new == fs \o base
<1>1. B \in Nat /\ N \in Nat /\ L \in Nat /\ B <= L
  BY LenProperties
<1>2. Len(new) = N + B
  BY ConcatProperties
<1>3. /\ \A k \in 1..N : new[k] = fs[k]
      /\ \A k \in (N + 1)..(N + B) : new[k] = base[k - N]
  BY <1>1
<1>4. stack'[t] = new /\ \A u \in Threads : u # t => stack'[u] = stack[u]
  OBVIOUS
<1>. HIDE DEF new
<1>5. ASSUME NEW d \in 1..B  PROVE FrameAt(t, d)' = FrameAt(t, d)
  <2>1. FrameAt(t, d)' = new[N + B + 1 - d]
    BY <1>2, <1>4 DEF FrameAt
  <2>2. /\ N + B + 1 - d \in (N + 1)..(N + B) /\ (N + B + 1 - d) - N = B + 1 - d
        /\ B + 1 - d \in 1..B /\ (B + 1 - d) + (L - B) = L + 1 - d
    BY <1>1
  <2>3. new[N + B + 1 - d] = stack[t][L + 1 - d]
    <3>. HIDE DEF B, N, L
    <3>1. new[N + B + 1 - d] = base[B + 1 - d]
      BY <1>3, <2>2
    <3>. QED  BY <2>2, <3>1 DEF B, L
  <2>. QED  BY <2>1, <2>3 DEF FrameAt
<1>6. ASSUME NEW d \in (B + 1)..(B + N)  PROVE FrameAt(t, d)' = fs[B + N + 1 - d]
  <2>1. FrameAt(t, d)' = new[N + B + 1 - d]
    BY <1>2, <1>4 DEF FrameAt
  <2>2. N + B + 1 - d \in 1..N /\ N + B + 1 - d = B + N + 1 - d
    BY <1>1
  <2>. HIDE DEF B, N
  <2>. QED  BY <1>3, <2>1, <2>2
<1>7. B \in 0..L /\ N + B = B + N
  BY <1>1
<1>. QED  BY <1>1, <1>2, <1>4, <1>5, <1>6, <1>7 DEF TopChanged

(* Replacing the innermost frame, pushing one, and leaving an executor.      *)
LEMMA ReplaceTop ==
  ASSUME NEW S, stack \in [Threads -> Seq(S)], NEW t \in Threads, stack[t] # <<>>,
         NEW T, NEW fs \in Seq(T), Replace(t, fs)
  PROVE  /\ TopChanged(t, Len(stack[t]) - 1, fs) /\ Len(stack[t]) \in Nat /\ Len(stack[t]) >= 1
         /\ FrameAt(t, Len(stack[t])) = Head(stack[t])
<1>. DEFINE base == Tail(stack[t])
<1>1. /\ base \in Seq(S) /\ Len(base) = Len(stack[t]) - 1 /\ Len(stack[t]) \in Nat
      /\ Len(stack[t]) >= 1 /\ Head(stack[t]) = stack[t][1]
      /\ \A k \in 1..Len(base) : base[k] = stack[t][k + 1]
  BY HeadTailProperties, LenProperties, EmptySeq
<1>2. /\ Len(base) <= Len(stack[t])
      /\ \A k \in 1..Len(base) : base[k] = stack[t][k + (Len(stack[t]) - Len(base))]
  <2>1. Len(stack[t]) - Len(base) = 1 /\ Len(base) <= Len(stack[t])
    BY <1>1
  <2>. QED  BY <1>1, <2>1
<1>3. stack' = [stack EXCEPT ![t] = fs \o base]
  BY DEF Replace
<1>. HIDE DEF base
<1>4. TopChanged(t, Len(base), fs)
  BY <1>1, <1>2, <1>3, TopIs
<1>5. FrameAt(t, Len(stack[t])) = stack[t][1]
  BY <1>1 DEF FrameAt
<1>. QED  BY <1>1, <1>4, <1>5

(* Pushing on the whole stack.                                              *)
LEMMA PushTop ==
  ASSUME NEW S, stack \in [Threads -> Seq(S)], NEW t \in Threads,
         NEW T, NEW fs \in Seq(T), stack' = [stack EXCEPT ![t] = fs \o @]
  PROVE  TopChanged(t, Len(stack[t]), fs) /\ Len(stack[t]) \in Nat
<1>. DEFINE base == stack[t]
<1>1. /\ base \in Seq(S) /\ Len(stack[t]) \in Nat
      /\ Len(base) <= Len(stack[t]) /\ Len(stack[t]) - Len(base) = 0
  BY LenProperties
<1>2. \A k \in 1..Len(base) : base[k] = stack[t][k + (Len(stack[t]) - Len(base))]
  BY <1>1
<1>3. stack' = [stack EXCEPT ![t] = fs \o base]
  OBVIOUS
<1>4. TopChanged(t, Len(base), fs)
  <2>. HIDE DEF base
  <2>. QED  BY <1>1, <1>2, <1>3, TopIs
<1>. QED  BY <1>1, <1>4

(* Leaving takes two frames away, the iterator and what called it.          *)
LEMMA LeaveTop ==
  ASSUME NEW S, stack \in [Threads -> Seq(S)], NEW t \in Threads, InIterator(t),
         NEW T, NEW fs \in Seq(T), Leave(t, fs)
  PROVE  /\ TopChanged(t, Len(stack[t]) - 2, fs) /\ Len(stack[t]) \in Nat /\ Len(stack[t]) >= 2
         /\ FrameAt(t, Len(stack[t])) = stack[t][1] /\ Head(stack[t]) = stack[t][1]
         /\ FrameAt(t, Len(stack[t]) - 1) = stack[t][2]
<1>. DEFINE s == stack[t]
            r == Tail(s)
            base == Tail(r)
<1>1. s \in Seq(S) /\ s # <<>> /\ Len(s) > 1 /\ Len(s) \in Nat
  BY LenProperties DEF InIterator, Running
<1>2. /\ r \in Seq(S) /\ Len(r) = Len(s) - 1 /\ \A k \in 1..Len(r) : r[k] = s[k + 1]
      /\ Head(s) = s[1]
  <2>. HIDE DEF s
  <2>. QED  BY <1>1, HeadTailProperties, EmptySeq
<1>3. r # <<>>
  <2>. HIDE DEF r, s
  <2>1. PICK n : n = Len(r) /\ n # 0
    BY <1>1, <1>2
  <2>. QED  BY <2>1
<1>4. base \in Seq(S) /\ Len(base) = Len(r) - 1 /\ \A k \in 1..Len(base) : base[k] = r[k + 1]
  <2>. HIDE DEF r
  <2>. QED  BY <1>2, <1>3, HeadTailProperties, EmptySeq
<1>. HIDE DEF s, r, base
<1>5. Len(base) = Len(s) - 2 /\ \A k \in 1..Len(base) : base[k] = s[k + (Len(s) - Len(base))]
  <2>1. Len(base) = Len(s) - 2 /\ Len(s) - Len(base) = 2 /\ Len(r) = Len(s) - 1
    BY <1>1, <1>2, <1>4
  <2>2. ASSUME NEW k \in 1..Len(base)  PROVE base[k] = s[k + 2]
    <3>1. k + 1 \in 1..Len(r) /\ (k + 1) + 1 = k + 2
      BY <1>1, <2>1
    <3>. QED  BY <1>2, <1>4, <3>1
  <2>. QED  BY <2>1, <2>2
<1>6. stack' = [stack EXCEPT ![t] = fs \o base]
  BY DEF Leave, s, r, base
<1>7. Len(base) <= Len(stack[t])
  BY <1>1, <1>5 DEF s
<1>8. TopChanged(t, Len(base), fs)
  BY <1>4, <1>5, <1>6, <1>7, TopIs DEF s
<1>9. FrameAt(t, Len(s)) = s[1] /\ FrameAt(t, Len(s) - 1) = s[2]
  BY <1>1 DEF FrameAt, s
<1>. QED  BY <1>1, <1>2, <1>5, <1>8, <1>9 DEF s

---------------------------------------------------------------------------
(* The places of a stack that changed above a height.                       *)
LEMMA TopPlaces ==
  ASSUME NEW t \in Threads, NEW b, NEW fs, TopChanged(t, b, fs), Len(stack[t]) \in Nat, NEW q,
         NEW N, N = Len(fs)
  PROVE  \A u \in Threads : \A d, i :
           InStack(q, u, d, i)' <=>
             \/ InStack(q, u, d, i) /\ ~(u = t /\ d > b)
             \/ u = t /\ \E k \in 1..N : d = b + N + 1 - k /\ InFrame(fs[k], q, i)
<1>1. /\ b \in Nat /\ b <= Len(stack[t]) /\ N \in Nat
      /\ Len(stack'[t]) = b + N
      /\ \A u \in Threads : u # t => stack'[u] = stack[u]
      /\ \A d \in 1..b : FrameAt(t, d)' = FrameAt(t, d)
      /\ \A d \in (b + 1)..(b + N) : FrameAt(t, d)' = fs[b + N + 1 - d]
  BY DEF TopChanged
<1>2. \A u, d, i : InStack(q, u, d, i)' <=> d \in 1..Len(stack'[u]) /\ InFrame(FrameAt(u, d)', q, i)
  BY DEF InStack, InFrame, ForFrame, ForJob
<1>3. ASSUME NEW u \in Threads, u # t, NEW d, NEW i
      PROVE  InStack(q, u, d, i)' <=> InStack(q, u, d, i)
  <2>1. stack'[u] = stack[u] /\ FrameAt(u, d)' = FrameAt(u, d)
    BY <1>1, <1>3 DEF FrameAt
  <2>. QED  BY <1>2, <2>1 DEF InStack
<1>4. ASSUME NEW d, NEW i
      PROVE  InStack(q, t, d, i)' <=>
               \/ InStack(q, t, d, i) /\ ~(d > b)
               \/ \E k \in 1..N : d = b + N + 1 - k /\ InFrame(fs[k], q, i)
  <2>1. InStack(q, t, d, i)' <=> d \in 1..(b + N) /\ InFrame(FrameAt(t, d)', q, i)
    BY <1>1, <1>2
  <2>2. CASE d \in 1..b
    <3>1. d \in 1..(b + N) /\ ~(d > b) /\ d \in 1..Len(stack[t])
      BY <1>1, <2>2
    <3>2. FrameAt(t, d)' = FrameAt(t, d)
      BY <1>1, <2>2
    <3>3. \A k \in 1..N : d # b + N + 1 - k
      BY <1>1, <2>2
    <3>4. InStack(q, t, d, i) <=> InFrame(FrameAt(t, d), q, i)
      BY <3>1 DEF InStack
    <3>. QED  BY <2>1, <3>1, <3>2, <3>3, <3>4
  <2>3. CASE d \in (b + 1)..(b + N)
    <3>0. b \in Nat /\ N \in Nat /\ d \in Int
      BY <1>1, <2>3
    <3>1. /\ b + N + 1 - d \in 1..N /\ d = b + N + 1 - (b + N + 1 - d) /\ d > b
          /\ d \in 1..(b + N)
          /\ \A k \in 1..N : d = b + N + 1 - k => k = b + N + 1 - d
      BY <2>3, <3>0
    <3>2. PICK m : m = b + N + 1 - d
      OBVIOUS
    <3>3. FrameAt(t, d)' = fs[m] /\ m \in 1..N /\ d = b + N + 1 - m
      BY <1>1, <2>3, <3>1, <3>2
    <3>4. \A k \in 1..N : d = b + N + 1 - k => k = m
      BY <3>1, <3>2
    <3>5. InStack(q, t, d, i)' <=> InFrame(fs[m], q, i)
      BY <2>1, <3>1, <3>3
    <3>6. InFrame(fs[m], q, i) <=> \E k \in 1..N : d = b + N + 1 - k /\ InFrame(fs[k], q, i)
      BY <3>3, <3>4
    <3>. QED  BY <3>1, <3>5, <3>6
  <2>4. CASE d \notin 1..(b + N)
    <3>1. \A k \in 1..N : d # b + N + 1 - k
      BY <1>1, <2>4
    <3>2. ~(d \in 1..Len(stack[t]) /\ ~(d > b))
      BY <1>1, <2>4
    <3>. QED  BY <2>1, <2>4, <3>1, <3>2 DEF InStack
  <2>5. d \in 1..b \/ d \in (b + 1)..(b + N) \/ d \notin 1..(b + N)
    BY <1>1
  <2>. QED  BY <2>2, <2>3, <2>4, <2>5
<1>. QED  BY <1>3, <1>4

(* The frames that go and those that come do not hold q.                    *)
LEMMA TopSame ==
  ASSUME NEW t \in Threads, NEW b, NEW fs, TopChanged(t, b, fs), Len(stack[t]) \in Nat, NEW q,
         \A d \in (b + 1)..Len(stack[t]) : \A i : ~ InFrame(FrameAt(t, d), q, i),
         \A k \in 1..Len(fs) : \A i : ~ InFrame(fs[k], q, i)
  PROVE  \A u \in Threads : \A d, i : InStack(q, u, d, i)' <=> InStack(q, u, d, i)
<1>0. PICK N : N = Len(fs)
  OBVIOUS
<1>1. \A u \in Threads : \A d, i :
           InStack(q, u, d, i)' <=> InStack(q, u, d, i) /\ ~(u = t /\ d > b)
  <2>1. \A u \in Threads : \A d, i :
           InStack(q, u, d, i)' <=>
             \/ InStack(q, u, d, i) /\ ~(u = t /\ d > b)
             \/ u = t /\ \E k \in 1..N : d = b + N + 1 - k /\ InFrame(fs[k], q, i)
    BY <1>0, TopPlaces
  <2>. QED  BY <1>0, <2>1
<1>2. \A d, i : InStack(q, t, d, i) => ~(d > b)
  BY DEF InStack, TopChanged
<1>. QED  BY <1>1, <1>2

(* The frames that come are not those of an executor of somebody's.          *)
LEMMA TopOwners ==
  ASSUME NEW K, NEW K2, OwnersExposed(K), K.own \subseteq K2.own, exposed \subseteq exposed',
         NEW t \in Threads, NEW b, NEW fs, TopChanged(t, b, fs), Len(stack[t]) \in Nat,
         NEW X, X = exposed' \cup K2.own, \A k \in 1..Len(fs) : Open(fs[k], X)
  PROVE  OwnersExposed(K2)'
<1>. SUFFICES ASSUME NEW u \in Threads, NEW k \in 1..Len(stack'[u])
              PROVE  Open(stack'[u][k], X)
  BY DEF OwnersExposed, Open
<1>0. \A v \in Threads : \A j \in 1..Len(stack[v]) : Open(stack[v][j], X)
  BY DEF OwnersExposed, Open
<1>1. CASE u # t
  BY <1>0, <1>1 DEF TopChanged
<1>2. CASE u = t
  <2>1. PICK N, L : N = Len(fs) /\ L = Len(stack[t])
    OBVIOUS
  <2>2. b \in Nat /\ N \in Nat /\ L \in Nat /\ b <= L /\ Len(stack'[t]) = b + N
    BY <2>1 DEF TopChanged
  <2>3. PICK d : d = b + N + 1 - k
    OBVIOUS
  <2>4. d \in 1..(b + N) /\ k = b + N + 1 - d
    BY <1>2, <2>2, <2>3
  <2>5. stack'[t][k] = FrameAt(t, d)'
    BY <2>2, <2>4 DEF FrameAt
  <2>6. CASE d \in 1..b
    <3>1. FrameAt(t, d)' = stack[t][L + 1 - d] /\ L + 1 - d \in 1..L
      BY <2>1, <2>2, <2>6 DEF TopChanged, FrameAt
    <3>. QED  BY <1>0, <1>2, <2>1, <2>5, <3>1
  <2>7. CASE d \in (b + 1)..(b + N)
    <3>1. FrameAt(t, d)' = fs[k] /\ k \in 1..N
      BY <2>1, <2>2, <2>4, <2>7 DEF TopChanged
    <3>. QED  BY <1>2, <2>1, <2>5, <3>1
  <2>. QED  BY <2>2, <2>4, <2>6, <2>7
<1>. QED  BY <1>1, <1>2

---------------------------------------------------------------------------
(* The frames that come stand on the others as they must.                   *)
LEMMA TopStacked ==
  ASSUME NEW t \in Threads, Stacked(t),
         NEW b, NEW fs, TopChanged(t, b, fs), Len(stack[t]) \in Nat, NEW N, N = Len(fs),
         N # 0 => fs[1].kind # "loop",
         N = 0 /\ b # 0 => FrameAt(t, b).kind # "loop",
         N # 0 /\ b = 0 => fs[N].kind # "subscribe" /\ ~ Handles(fs[N]),
         N # 0 /\ b # 0 => Above(fs[N], FrameAt(t, b)),
         \A k \in 1..(N - 1) : Above(fs[k], fs[k + 1])
  PROVE  Stacked(t)'
<1>1. /\ b \in Nat /\ b <= Len(stack[t]) /\ N \in Nat
      /\ Len(stack'[t]) = b + N
      /\ \A d \in 1..b : FrameAt(t, d)' = FrameAt(t, d)
      /\ \A d \in (b + 1)..(b + N) : FrameAt(t, d)' = fs[b + N + 1 - d]
  BY DEF TopChanged
<1>2. ASSUME b + N # 0
      PROVE  /\ (FrameAt(t, b + N)').kind # "loop"
             /\ (FrameAt(t, 1)').kind # "subscribe" /\ ~ Handles(FrameAt(t, 1)')
  <2>1. (FrameAt(t, b + N)').kind # "loop"
    <3>1. CASE N = 0
      <4>1. b # 0 /\ b + N = b /\ b \in 1..b
        BY <1>1, <1>2, <3>1
      <4>. QED  BY <1>1, <3>1, <4>1
    <3>2. CASE N # 0
      <4>1. b + N \in (b + 1)..(b + N) /\ b + N + 1 - (b + N) = 1
        BY <1>1, <3>2
      <4>2. FrameAt(t, b + N)' = fs[1]
        BY <1>1, <4>1
      <4>. QED  BY <3>2, <4>2
    <3>. QED  BY <3>1, <3>2
  <2>2. (FrameAt(t, 1)').kind # "subscribe" /\ ~ Handles(FrameAt(t, 1)')
    <3>1. CASE b = 0
      <4>1. N # 0 /\ 1 \in (b + 1)..(b + N) /\ b + N + 1 - 1 = N
        BY <1>1, <1>2, <3>1
      <4>2. FrameAt(t, 1)' = fs[N]
        BY <1>1, <4>1
      <4>. QED  BY <3>1, <4>1, <4>2
    <3>2. CASE b # 0
      <4>1. 1 \in 1..b /\ Len(stack[t]) # 0
        BY <1>1, <3>2
      <4>2. FrameAt(t, 1)' = FrameAt(t, 1)
        BY <1>1, <4>1
      <4>. QED  BY <4>1, <4>2 DEF Stacked
    <3>. QED  BY <3>1, <3>2
  <2>. QED  BY <2>1, <2>2
<1>3. ASSUME NEW d \in 1..(b + N - 1)  PROVE Above(FrameAt(t, d + 1)', FrameAt(t, d)')
  <2>1. CASE d + 1 \in 1..b
    <3>1. d \in 1..b /\ d \in 1..(Len(stack[t]) - 1)
      BY <1>1, <2>1
    <3>2. FrameAt(t, d + 1)' = FrameAt(t, d + 1) /\ FrameAt(t, d)' = FrameAt(t, d)
      BY <1>1, <2>1, <3>1
    <3>3. Above(FrameAt(t, d + 1), FrameAt(t, d))
      BY <3>1 DEF Stacked
    <3>. QED  BY <3>2, <3>3
  <2>2. CASE d = b
    <3>1. N # 0 /\ b # 0 /\ d + 1 \in (b + 1)..(b + N) /\ b + N + 1 - (d + 1) = N /\ d \in 1..b
      BY <1>1, <2>2
    <3>2. FrameAt(t, d + 1)' = fs[N] /\ FrameAt(t, d)' = FrameAt(t, b)
      BY <1>1, <2>2, <3>1
    <3>3. Above(fs[N], FrameAt(t, b))
      BY <3>1
    <3>. QED  BY <3>2, <3>3
  <2>3. CASE d > b
    <3>1. PICK k : k = b + N + 1 - (d + 1)
      OBVIOUS
    <3>2. /\ k \in 1..(N - 1) /\ b + N + 1 - d = k + 1
          /\ d \in (b + 1)..(b + N) /\ d + 1 \in (b + 1)..(b + N)
      BY <1>1, <2>3, <3>1
    <3>3. FrameAt(t, d + 1)' = fs[k] /\ FrameAt(t, d)' = fs[k + 1]
      BY <1>1, <3>1, <3>2
    <3>. QED  BY <3>2, <3>3
  <2>. QED  BY <1>1, <2>1, <2>2, <2>3
<1>. QED
  <2>1. \A f, g : Above(f, g) <=> /\ g.kind = "loop" => f.kind = "subscribe" \/ f = Iterator(g.on)
                                  /\ f.kind = "subscribe" => g.kind = "loop"
                                  /\ Handles(f) => g = Call("resolve", f.on, Undefined)
                                  /\ ~ Handles(g)
    BY DEF Above
  <2>. QED  BY <1>1, <1>2, <1>3 DEF Stacked, Above, Handles

(* The stacks of the other threads.                                        *)
LEMMA OtherStacked ==
  ASSUME NEW u \in Threads, Stacked(u), stack'[u] = stack[u]
  PROVE  Stacked(u)'
  BY DEF Stacked, FrameAt, Above, Handles

---------------------------------------------------------------------------
(* Every frame of the new stack is an old one in its place or one that came. *)
LEMMA TopFrames ==
  ASSUME NEW t \in Threads, NEW b, NEW fs, TopChanged(t, b, fs), Len(stack[t]) \in Nat,
         NEW N, N = Len(fs)
  PROVE  /\ \A u \in Threads : \A d : d \in 1..Len(stack'[u]) =>
              \/ (u # t \/ d <= b) /\ d \in 1..Len(stack[u]) /\ FrameAt(u, d)' = FrameAt(u, d)
              \/ u = t /\ d > b /\ \E k \in 1..N : d = b + N + 1 - k /\ FrameAt(u, d)' = fs[k]
         /\ \A u \in Threads : \A d : d \in 1..Len(stack[u]) /\ (u # t \/ d <= b) =>
              d \in 1..Len(stack'[u]) /\ FrameAt(u, d)' = FrameAt(u, d)
         /\ \A k \in 1..N : \A d : d = b + N + 1 - k =>
              d \in 1..Len(stack'[t]) /\ FrameAt(t, d)' = fs[k]
<1>1. /\ b \in Nat /\ b <= Len(stack[t]) /\ N \in Nat
      /\ Len(stack'[t]) = b + N
      /\ \A u \in Threads : u # t => stack'[u] = stack[u]
      /\ \A d \in 1..b : FrameAt(t, d)' = FrameAt(t, d)
      /\ \A d \in (b + 1)..(b + N) : FrameAt(t, d)' = fs[b + N + 1 - d]
  BY DEF TopChanged
<1>2. ASSUME NEW u \in Threads, u # t, NEW d
      PROVE  stack'[u] = stack[u] /\ FrameAt(u, d)' = FrameAt(u, d)
  BY <1>1, <1>2 DEF FrameAt
<1>3. ASSUME NEW d, d \in 1..(b + N)
      PROVE  \/ d <= b /\ d \in 1..Len(stack[t]) /\ FrameAt(t, d)' = FrameAt(t, d)
             \/ d > b /\ \E k \in 1..N : d = b + N + 1 - k /\ FrameAt(t, d)' = fs[k]
  <2>0. b \in Nat /\ N \in Nat /\ d \in Int
    BY <1>1, <1>3
  <2>1. CASE d <= b
    <3>1. d \in 1..b /\ d \in 1..Len(stack[t])
      BY <1>1, <1>3, <2>1
    <3>. QED  BY <1>1, <2>1, <3>1
  <2>2. CASE ~(d <= b)
    <3>1. PICK k : k = b + N + 1 - d
      OBVIOUS
    <3>2. k \in 1..N /\ d = b + N + 1 - k /\ d \in (b + 1)..(b + N) /\ d > b
      BY <1>3, <2>0, <2>2, <3>1
    <3>3. FrameAt(t, d)' = fs[k]
      BY <1>1, <3>1, <3>2
    <3>. QED  BY <3>2, <3>3
  <2>. QED  BY <2>1, <2>2
<1>4. ASSUME NEW d, d \in 1..Len(stack[t]), d <= b
      PROVE  d \in 1..(b + N) /\ FrameAt(t, d)' = FrameAt(t, d)
  <2>1. d \in 1..b /\ d \in 1..(b + N)
    BY <1>1, <1>4
  <2>. QED  BY <1>1, <2>1
<1>5. ASSUME NEW k \in 1..N, NEW d, d = b + N + 1 - k
      PROVE  d \in 1..(b + N) /\ FrameAt(t, d)' = fs[k]
  <2>1. d \in (b + 1)..(b + N) /\ b + N + 1 - d = k /\ d \in 1..(b + N)
    BY <1>1, <1>5
  <2>. QED  BY <1>1, <2>1
<1>. QED  BY <1>1, <1>2, <1>3, <1>4, <1>5

---------------------------------------------------------------------------
(* The step keeps the executors where they are, and adds no call of then(). *)
Keeps(t) ==
  /\ Stacked(t)'
  /\ \A u \in Threads : u # t => stack'[u] = stack[u]
  /\ \A a : \A u \in Threads : \A d :
       /\ LoopAt(a, u, d)' <=> LoopAt(a, u, d)
       /\ SubscribeAt(a, u, d)' => SubscribeAt(a, u, d)

(* Frames that may come while Promise runs: a handler on top of the call    *)
(* that resolves its promise.                                              *)
Fine(fs) ==
  \A k \in 1..Len(fs) :
    /\ fs[k].kind \notin {"loop", "subscribe"}
    /\ Handles(fs[k]) => k = 1 /\ Len(fs) > 1 /\ fs[2] = Call("resolve", fs[1].on, Undefined)

(* Neither the frames that go nor those that come are an executor or a call *)
(* of then().                                                               *)
LEMMA TopKeeps ==
  ASSUME NEW t \in Threads, NEW b, NEW fs, TopChanged(t, b, fs), Len(stack[t]) \in Nat,
         \A k \in 1..Len(fs) : fs[k].kind \notin {"loop", "subscribe"},
         \A d \in (b + 1)..Len(stack[t]) : FrameAt(t, d).kind # "loop",
         Stacked(t)'
  PROVE  Keeps(t)
<1>0. PICK N : N = Len(fs)
  OBVIOUS
<1>1. b \in Nat /\ N \in Nat /\ b <= Len(stack[t])
  BY <1>0 DEF TopChanged
<1>2. /\ \A u \in Threads : \A d : d \in 1..Len(stack'[u]) =>
              \/ (u # t \/ d <= b) /\ d \in 1..Len(stack[u]) /\ FrameAt(u, d)' = FrameAt(u, d)
              \/ u = t /\ d > b /\ \E k \in 1..N : d = b + N + 1 - k /\ FrameAt(u, d)' = fs[k]
      /\ \A u \in Threads : \A d : d \in 1..Len(stack[u]) /\ (u # t \/ d <= b) =>
              d \in 1..Len(stack'[u]) /\ FrameAt(u, d)' = FrameAt(u, d)
  BY <1>0, TopFrames
<1>3. ASSUME NEW a, NEW u \in Threads, NEW d
      PROVE  LoopAt(a, u, d)' <=> LoopAt(a, u, d)
  <2>1. LoopAt(a, u, d)' <=> /\ d \in 1..Len(stack'[u])
                             /\ (FrameAt(u, d)').kind = "loop" /\ (FrameAt(u, d)').on = a
    BY DEF LoopAt
  <2>2. ASSUME LoopAt(a, u, d)'  PROVE LoopAt(a, u, d)
    BY <1>0, <1>2, <2>1, <2>2 DEF LoopAt
  <2>3. ASSUME LoopAt(a, u, d)  PROVE LoopAt(a, u, d)'
    <3>1. u # t \/ d <= b
      <4>1. u = t /\ ~(d <= b) => d \in (b + 1)..Len(stack[t])
        BY <1>1, <2>3 DEF LoopAt
      <4>. QED  BY <2>3, <4>1 DEF LoopAt
    <3>. QED  BY <1>2, <2>1, <2>3, <3>1 DEF LoopAt
  <2>. QED  BY <2>2, <2>3
<1>4. ASSUME NEW a, NEW u \in Threads, NEW d, SubscribeAt(a, u, d)'
      PROVE  SubscribeAt(a, u, d)
  <2>1. /\ LoopAt(a, u, d)' /\ d + 1 \in 1..Len(stack'[u])
        /\ (FrameAt(u, d + 1)').kind = "subscribe"
    BY <1>4 DEF SubscribeAt
  <2>2. PICK e : e = d + 1
    OBVIOUS
  <2>3. e \in 1..Len(stack[u]) /\ FrameAt(u, e)' = FrameAt(u, e)
    BY <1>0, <1>2, <2>1, <2>2
  <2>. QED  BY <1>3, <2>1, <2>2, <2>3 DEF SubscribeAt
<1>. QED  BY <1>3, <1>4 DEF Keeps, TopChanged

(* The top frame is none of the combinators' and no iterator: it makes room *)
(* for others.                                                             *)
LEMMA FineReplace ==
  ASSUME NEW S, stack \in [Threads -> Seq(S)], NEW t \in Threads, Stacked(t), stack[t] # <<>>,
         Head(stack[t]).kind # "subscribe", ~ InIterator(t),
         NEW T, NEW fs \in Seq(T), Fine(fs), Replace(t, fs)
  PROVE  Keeps(t)
<1>0. PICK L, b, N : L = Len(stack[t]) /\ b = Len(stack[t]) - 1 /\ N = Len(fs)
  OBVIOUS
<1>1. /\ TopChanged(t, b, fs) /\ L \in Nat /\ L >= 1 /\ N \in Nat
      /\ FrameAt(t, L) = Head(stack[t])
  BY <1>0, ReplaceTop, LenProperties
<1>2. b = L - 1 /\ b \in Nat /\ L # 0
  BY <1>0, <1>1
<1>3. FrameAt(t, L).kind # "loop"
  BY <1>0, <1>2 DEF Stacked
<1>4. b # 0 => /\ Above(FrameAt(t, L), FrameAt(t, b)) /\ FrameAt(t, b) = stack[t][2]
               /\ L > 1
  <2>. SUFFICES ASSUME b # 0
                PROVE  /\ Above(FrameAt(t, L), FrameAt(t, b)) /\ FrameAt(t, b) = stack[t][2]
                       /\ L > 1
    OBVIOUS
  <2>1. L > 1 /\ b \in 1..(L - 1) /\ b + 1 = L /\ L + 1 - b = 2
    BY <1>1, <1>2
  <2>2. Above(FrameAt(t, b + 1), FrameAt(t, b))
    BY <1>0, <2>1 DEF Stacked
  <2>3. FrameAt(t, b) = stack[t][L + 1 - b]
    BY <1>0 DEF FrameAt
  <2>. QED  BY <2>1, <2>2, <2>3
<1>5. b # 0 => FrameAt(t, b).kind # "loop" /\ ~ Handles(FrameAt(t, b))
  <2>. SUFFICES ASSUME b # 0  PROVE FrameAt(t, b).kind # "loop" /\ ~ Handles(FrameAt(t, b))
    OBVIOUS
  <2>1. ~ Handles(FrameAt(t, b))
    BY <1>4 DEF Above
  <2>2. ASSUME FrameAt(t, b).kind = "loop"  PROVE FALSE
    <3>1. Head(stack[t]) = Iterator(FrameAt(t, b).on)
      BY <1>1, <1>4, <2>2 DEF Above
    <3>2. Running(t, "script")
      BY <3>1 DEF Running, Iterator, Script
    <3>. QED  BY <1>0, <1>4, <2>2, <3>2 DEF InIterator
  <2>. QED  BY <2>1, <2>2
<1>6. N # 0 => 1 \in 1..N /\ N \in 1..N
  BY <1>1
<1>7. N # 0 => fs[N].kind # "subscribe" /\ ~ Handles(fs[N])
  <2>. SUFFICES ASSUME N # 0  PROVE fs[N].kind # "subscribe" /\ ~ Handles(fs[N])
    OBVIOUS
  <2>1. fs[N].kind # "subscribe" /\ (Handles(fs[N]) => N = 1 /\ N > 1)
    BY <1>0, <1>6 DEF Fine
  <2>. QED  BY <2>1
<1>8. N # 0 /\ b # 0 => Above(fs[N], FrameAt(t, b))
  BY <1>5, <1>7 DEF Above
<1>9. ASSUME NEW k \in 1..(N - 1)  PROVE Above(fs[k], fs[k + 1])
  <2>1. k \in 1..N /\ k + 1 \in 1..N /\ k + 1 # 1
    BY <1>1
  <2>2. /\ fs[k].kind # "subscribe" /\ fs[k + 1].kind # "loop" /\ ~ Handles(fs[k + 1])
        /\ Handles(fs[k]) => k = 1 /\ fs[2] = Call("resolve", fs[1].on, Undefined)
    BY <1>0, <2>1 DEF Fine
  <2>3. Handles(fs[k]) => fs[k + 1] = Call("resolve", fs[k].on, Undefined)
    BY <2>2
  <2>. QED  BY <2>2, <2>3 DEF Above
<1>10. Stacked(t)'
  <2>1. N # 0 => fs[1].kind # "loop"
    BY <1>0, <1>6 DEF Fine
  <2>2. N = 0 /\ b # 0 => FrameAt(t, b).kind # "loop"
    BY <1>5
  <2>3. N # 0 /\ b = 0 => fs[N].kind # "subscribe" /\ ~ Handles(fs[N])
    BY <1>7
  <2>4. Len(stack[t]) \in Nat
    BY <1>0, <1>1
  <2>. QED  BY <1>0, <1>1, <1>8, <1>9, <2>1, <2>2, <2>3, <2>4, TopStacked
<1>11. \A k \in 1..Len(fs) : fs[k].kind \notin {"loop", "subscribe"}
  BY DEF Fine
<1>12. \A d \in (b + 1)..Len(stack[t]) : FrameAt(t, d).kind # "loop"
  <2>1. \A d \in (b + 1)..L : d = L
    BY <1>1, <1>2
  <2>. QED  BY <1>0, <1>3, <2>1
<1>. QED  BY <1>0, <1>1, <1>10, <1>11, <1>12, TopKeeps

(* A frame is pushed on a script, or on an empty stack.                     *)
LEMMA FinePush ==
  ASSUME NEW S, stack \in [Threads -> Seq(S)], NEW t \in Threads, Stacked(t), InScript(t),
         NEW f, f.kind \notin {"loop", "subscribe"}, ~ Handles(f), Push(t, f)
  PROVE  Keeps(t)
<1>0. PICK fs, N, L : fs = <<f>> /\ N = Len(fs) /\ L = Len(stack[t])
  OBVIOUS
<1>1. fs \in Seq({f}) /\ N = 1 /\ fs[1] = f /\ stack' = [stack EXCEPT ![t] = fs \o @]
  BY <1>0 DEF Push
<1>2. TopChanged(t, L, fs) /\ L \in Nat
  BY <1>0, <1>1, PushTop
<1>3. L # 0 => FrameAt(t, L).kind = "script"
  <2>. SUFFICES ASSUME L # 0  PROVE FrameAt(t, L).kind = "script"
    OBVIOUS
  <2>1. stack[t] # <<>> /\ stack[t] \in Seq(S)
    BY <1>0
  <2>2. FrameAt(t, L) = stack[t][1]
    BY <1>0, <1>2 DEF FrameAt
  <2>3. stack[t][1] = Head(stack[t])
    BY <2>1
  <2>. QED  BY <2>1, <2>2, <2>3 DEF InScript, Running
<1>4. L # 0 => Above(f, FrameAt(t, L))
  BY <1>3 DEF Above, Handles
<1>6. Stacked(t)'
  <2>1. Len(stack[t]) \in Nat
    BY <1>0, <1>2
  <2>2. N # 0 => fs[1].kind # "loop"
    BY <1>1
  <2>3. N = 0 /\ L # 0 => FrameAt(t, L).kind # "loop"
    BY <1>1
  <2>4. N # 0 /\ L = 0 => fs[N].kind # "subscribe" /\ ~ Handles(fs[N])
    BY <1>1
  <2>5. N # 0 /\ L # 0 => Above(fs[N], FrameAt(t, L))
    BY <1>1, <1>4
  <2>6. \A k \in 1..(N - 1) : Above(fs[k], fs[k + 1])
    BY <1>1
  <2>. QED  BY <1>0, <1>2, <2>1, <2>2, <2>3, <2>4, <2>5, <2>6, TopStacked
<1>7. \A k \in 1..Len(fs) : fs[k].kind \notin {"loop", "subscribe"}
  BY <1>0, <1>1
<1>8. \A d \in (L + 1)..Len(stack[t]) : FrameAt(t, d).kind # "loop"
  BY <1>0, <1>2
<1>. QED  BY <1>0, <1>2, <1>6, <1>7, <1>8, TopKeeps

(* The stacks stay.                                                        *)
LEMMA SameKeeps ==
  ASSUME NEW t \in Threads, Stacked(t), UNCHANGED stack
  PROVE  Keeps(t)
<1>1. \A a : \A u \in Threads : \A d :
       /\ LoopAt(a, u, d)' <=> LoopAt(a, u, d)
       /\ SubscribeAt(a, u, d)' => SubscribeAt(a, u, d)
  BY DEF LoopAt, SubscribeAt, FrameAt
<1>2. Stacked(t)'
  BY OtherStacked
<1>. QED  BY <1>1, <1>2 DEF Keeps

---------------------------------------------------------------------------
(* What K must be of, to be what the combinators add or a part of it.        *)
Serves(K) ==
  /\ IsMore(K)
  /\ \A n \in K.native :
       /\ n.fn \in {"loop", "subscribe", "onFulfilled", "onRejected"} /\ n.on \in Promises
       /\ n.fn = "loop" => n.on \in K.own
       /\ n.fn \in {"loop", "subscribe"} => n.how = "never"
       /\ n.fn = "onFulfilled" => n.how = "fulfilled"
       /\ n.fn = "onRejected" => n.how = "rejected"
  /\ \A a \in K.own : \E n \in K.native : n.fn = "loop" /\ n.on = a
  /\ \A p \in Promises : \E n \in K.native : n.fn = "subscribe" /\ n.on = p

(* A frame that is none of the combinators'.                               *)
Plainly(f) == f.kind \notin {"loop", "subscribe", "onFulfilled", "onRejected"}

(* Calls of the resolving functions, jobs and scripts are not the           *)
(* combinators'.                                                            *)
LEMMA PlainFrames ==
  /\ \A fn, p, v : fn \in {"resolve", "reject"} => Plainly(Call(fn, p, v))
  /\ \A kind, js : kind \in {"enqueue", "batch"} => Plainly(Jobs(kind, js))
  /\ \A ret, thr, wrapper, arg : Plainly(Script(ret, thr, wrapper, arg))
  BY DEF Plainly, Call, Jobs, Script

(* Replacing a frame that is not the combinators' by nothing or by another  *)
(* one.                                                                     *)
LEMMA PlainReplace ==
  ASSUME NEW S, stack \in [Threads -> Seq(S)], NEW t \in Threads, Stacked(t), stack[t] # <<>>,
         Head(stack[t]).kind # "subscribe", ~ InIterator(t),
         \/ Replace(t, <<>>)
         \/ \E f : Replace(t, <<f>>) /\ Plainly(f)
  PROVE  Keeps(t)
<1>1. CASE Replace(t, <<>>)
  <2>1. <<>> \in Seq({}) /\ Fine(<<>>)
    BY DEF Fine
  <2>. QED  BY <1>1, <2>1, FineReplace
<1>2. ASSUME NEW f, Replace(t, <<f>>), Plainly(f)  PROVE Keeps(t)
  <2>0. PICK fs : fs = <<f>>
    OBVIOUS
  <2>1. fs \in Seq({f}) /\ \A k \in 1..Len(fs) : fs[k] = f
    BY <2>0
  <2>2. Fine(fs)
    BY <1>2, <2>1 DEF Fine, Plainly, Handles
  <2>3. Replace(t, fs)
    BY <1>2, <2>0
  <2>. QED  BY <2>1, <2>2, <2>3, FineReplace
<1>. QED  BY <1>1, <1>2

(* Where a frame of another kind runs, no iterator does.                    *)
LEMMA NotIterator ==
  ASSUME NEW t \in Threads, NEW kind, Running(t, kind), kind # "script"
  PROVE  ~ InIterator(t) /\ stack[t] # <<>> /\ Head(stack[t]).kind = kind
  BY DEF InIterator, Running

(* settle replaces its frame by the jobs to be queued.                      *)
LEMMA SettleKeeps ==
  ASSUME NEW S, stack \in [Threads -> Seq(S)], NEW t \in Threads, Stacked(t),
         NEW kind \in {"resolve", "reject"}, Running(t, kind),
         NEW p, NEW how, NEW v, Settle(t, p, how, v)
  PROVE  Keeps(t)
<1>1. PICK js : Replace(t, <<Jobs("enqueue", js)>>)
  BY DEF Settle
<1>. QED  BY <1>1, NotIterator, PlainFrames, PlainReplace

(* resolve and reject replace their frame.                                  *)
LEMMA ResolveKeeps ==
  ASSUME NEW S, stack \in [Threads -> Seq(S)], NEW t \in Threads, Stacked(t), Resolve(t)
  PROVE  Keeps(t)
<1>1. Running(t, "resolve")
  BY DEF Resolve
<1>2. \/ Replace(t, <<>>)
      \/ \E p : Replace(t, <<Call("reject", p, TypeErr)>>)
      \/ \E p, v : Settle(t, p, "Fulfilled", v)
  BY DEF Resolve
<1>. QED  BY <1>1, <1>2, NotIterator, PlainFrames, PlainReplace, SettleKeeps

LEMMA RejectKeeps ==
  ASSUME NEW S, stack \in [Threads -> Seq(S)], NEW t \in Threads, Stacked(t), Reject(t)
  PROVE  Keeps(t)
<1>1. Running(t, "reject")
  BY DEF Reject
<1>2. \/ Replace(t, <<>>)
      \/ \E p, v : Settle(t, p, "Rejected", v)
  BY DEF Reject
<1>. QED  BY <1>1, <1>2, NotIterator, PlainReplace, SettleKeeps

(* Queueing a job, and the end of a batch.                                  *)
LEMMA EnqueueKeeps ==
  ASSUME NEW S, stack \in [Threads -> Seq(S)], NEW t \in Threads, Stacked(t),
         Enqueue(t) \/ EndBatch(t)
  PROVE  Keeps(t)
<1>1. Running(t, "enqueue") \/ Running(t, "batch")
  BY DEF Enqueue, EndBatch
<1>2. \/ Replace(t, <<>>)
      \/ \E js : Replace(t, <<Jobs("enqueue", js)>>)
  BY DEF Enqueue, EndBatch
<1>. QED  BY <1>1, <1>2, NotIterator, PlainFrames, PlainReplace

(* Two or three frames are a sequence.                                     *)
LEMMA TwoSeq ==
  ASSUME NEW f, NEW g, NEW fs, fs = <<f, g>>
  PROVE  fs \in Seq({f, g}) /\ Len(fs) = 2 /\ fs[1] = f /\ fs[2] = g
  OBVIOUS

LEMMA ThreeSeq ==
  ASSUME NEW f, NEW g, NEW h, NEW fs, fs = <<f, g, h>>
  PROVE  /\ fs \in Seq({f, g, h}) /\ Len(fs) = 3
         /\ fs[1] = f /\ fs[2] = g /\ fs[3] = h
  OBVIOUS

(* The frames that a reaction job puts on the batch are fine.               *)
LEMMA HandlerFine ==
  ASSUME NEW K, Serves(K), NEW job \in FitJob(K), job.kind # "then",
         NEW rest, NEW kind, kind \in {"enqueue", "batch"}, NEW js, rest = Jobs(kind, js),
         NEW fs
  PROVE  fs = HandlerFrames(job) \o <<rest>> => Fine(fs) /\ \E S : fs \in Seq(S)
<1>a. SUFFICES ASSUME fs = HandlerFrames(job) \o <<rest>>
               PROVE  Fine(fs) /\ \E S : fs \in Seq(S)
  OBVIOUS
<1>0. PICK v, q, h : v = result[job.src] /\ q = job.to /\ h = job.handler
  OBVIOUS
<1>1. Plainly(rest)
  BY PlainFrames
<1>2. ASSUME NEW f, Plainly(f), fs = <<f>> \o <<rest>>  PROVE Fine(fs) /\ \E S : fs \in Seq(S)
  <2>1. fs = <<f, rest>>
    BY <1>2, ConcatTwo
  <2>2. Len(fs) = 2 /\ fs[1] = f /\ fs[2] = rest /\ fs \in Seq({f, rest})
    BY <2>1, TwoSeq
  <2>3. \A k \in 1..Len(fs) : Plainly(fs[k])
    BY <1>1, <1>2, <2>2
  <2>. QED  BY <2>2, <2>3 DEF Fine, Plainly, Handles
<1>3. CASE h.fn = "none"
  BY <1>a, <1>0, <1>2, <1>3, PlainFrames DEF HandlerFrames
<1>4. CASE h.fn = "js"
  BY <1>a, <1>0, <1>2, <1>4, PlainFrames DEF HandlerFrames
<1>5. CASE h.fn = "finally"
  BY <1>a, <1>0, <1>2, <1>5, PlainFrames DEF HandlerFrames
<1>6. CASE h.fn \notin {"none", "js", "finally"}
  <2>0. PICK f, g : f = Call(h.fn, h.on, v) /\ g = Call("resolve", q, Undefined)
    OBVIOUS
  <2>1. fs = <<f, g>> \o <<rest>>
    BY <1>a, <1>0, <1>6, <2>0 DEF HandlerFrames
  <2>2. fs = <<f, g, rest>>
    BY <2>1, ConcatThree
  <2>3. Len(fs) = 3 /\ fs[1] = f /\ fs[2] = g /\ fs[3] = rest /\ fs \in Seq({f, g, rest})
    BY <2>2, ThreeSeq
  <2>4. Plainly(g)
    BY <2>0, PlainFrames
  <2>5. f.kind \notin {"loop", "subscribe"} /\ (Handles(f) => g = Call("resolve", f.on, Undefined))
    <3>1. h \in AnyHandler(K)
      BY <1>0 DEF FitJob, AnyJob, AnyHandler, Handler, None
    <3>2. CASE h.fn \in Natives(K)
      <4>1. h.on = q /\ \E n \in K.native : n.fn = h.fn /\ n.on = q /\ n.how = job.kind
        BY <1>0, <3>2 DEF FitJob, NativeFits
      <4>2. job.kind \in {"fulfilled", "rejected"}
        BY DEF FitJob, AnyJob
      <4>3. h.fn \notin {"loop", "subscribe"}
        BY <4>1, <4>2 DEF Serves
      <4>4. f.kind = h.fn /\ f.on = h.on
        BY <2>0 DEF Call
      <4>. QED  BY <2>0, <4>1, <4>3, <4>4
    <3>3. CASE h.fn \notin Natives(K)
      <4>1. h.fn \in {"resolve", "reject"}
        BY <1>6, <3>1, <3>3 DEF AnyHandler, Handler
      <4>. QED  BY <2>0, <4>1, PlainFrames DEF Plainly, Handles
    <3>. QED  BY <3>2, <3>3
  <2>6. \A k \in 1..Len(fs) : (k = 1 /\ fs[k] = f) \/ Plainly(fs[k])
    BY <1>1, <2>3, <2>4
  <2>. QED  BY <2>3, <2>5, <2>6 DEF Fine, Plainly, Handles
<1>. QED  BY <1>3, <1>4, <1>5, <1>6

(* A job of the batch: its handler comes on top, above what settles its     *)
(* promise.                                                                 *)
LEMMA RunKeeps ==
  ASSUME NEW K, Serves(K), IInv(K), NEW t \in Threads, Stacked(t),
         RunReaction(t) \/ RunThen(t)
  PROVE  Keeps(t)
<1>1. /\ IsMore(K) /\ Running(t, "batch") /\ Head(stack[t]).jobs # <<>>
      /\ stack \in [Threads -> Seq(FitFrame(K))]
  BY DEF RunReaction, RunThen, Serves, IInv
<1>2. ~ InIterator(t) /\ stack[t] # <<>> /\ Head(stack[t]).kind = "batch"
  BY <1>1, NotIterator
<1>3. PICK js, rest, job : /\ js = Tail(Head(stack[t]).jobs) /\ rest = Jobs("batch", js)
                           /\ job = Head(Head(stack[t]).jobs)
  OBVIOUS
<1>4. job \in FitJob(K)
  <2>1. Head(stack[t]).jobs \in Seq(FitJob(K))
    BY <1>1, <1>2, HeadFrame
  <2>. QED  BY <1>1, <1>3, <2>1, HeadTailProperties
<1>5. CASE RunReaction(t)
  <2>0. PICK fs : fs = HandlerFrames(job) \o <<rest>>
    OBVIOUS
  <2>1. job.kind # "then" /\ Replace(t, fs)
    BY <1>3, <1>5, <2>0 DEF RunReaction
  <2>2. Fine(fs) /\ \E S : fs \in Seq(S)
    BY <1>3, <1>4, <2>0, <2>1, HandlerFine
  <2>. QED  BY <1>1, <1>2, <2>1, <2>2, FineReplace
<1>6. CASE RunThen(t)
  <2>1. CASE Replace(t, <<rest>>)
    <3>1. Plainly(rest)
      BY <1>3, PlainFrames
    <3>. QED  BY <1>1, <1>2, <2>1, <3>1, PlainReplace
  <2>2. CASE Replace(t, <<Script(NoPromise, job.to, "no", Undefined), rest>>)
    <3>0. PICK f, fs : f = Script(NoPromise, job.to, "no", Undefined) /\ fs = <<f, rest>>
      OBVIOUS
    <3>1. Len(fs) = 2 /\ fs[1] = f /\ fs[2] = rest /\ fs \in Seq({f, rest})
      BY <3>0, TwoSeq
    <3>2. \A k \in 1..Len(fs) : Plainly(fs[k])
      BY <1>3, <3>0, <3>1, PlainFrames
    <3>3. Fine(fs)
      BY <3>2 DEF Fine, Plainly, Handles
    <3>4. Replace(t, fs)
      BY <2>2, <3>0
    <3>. QED  BY <1>1, <1>2, <3>1, <3>3, <3>4, FineReplace
  <2>. QED  BY <1>3, <1>6, <2>1, <2>2 DEF RunThen
<1>. QED  BY <1>5, <1>6

(* A script ends that is no iterator.                                       *)
LEMMA EndScriptKeeps ==
  ASSUME NEW S, stack \in [Threads -> Seq(S)], NEW t \in Threads, Stacked(t),
         ~ InIterator(t), EndScript(t)
  PROVE  Keeps(t)
<1>1. Running(t, "script")
  BY DEF EndScript, ReturnIgnored, ReturnValue, ReturnFinally, ReturnFinallyPromise, Throw
<1>2. stack[t] # <<>> /\ Head(stack[t]).kind # "subscribe"
  BY <1>1 DEF Running
<1>3. \/ Replace(t, <<>>)
      \/ \E fn \in {"resolve", "reject"} : \E p, v : Replace(t, <<Call(fn, p, v)>>)
  <2>1. CASE ReturnIgnored(t)
    BY <2>1 DEF ReturnIgnored
  <2>2. ASSUME NEW v, ReturnValue(t, v) \/ ReturnFinallyPromise(t, v)
        PROVE  \E fn \in {"resolve", "reject"} : \E p, w : Replace(t, <<Call(fn, p, w)>>)
    BY <2>2 DEF ReturnValue, ReturnFinallyPromise
  <2>3. ASSUME NEW v, ReturnFinally(t, v) \/ Throw(t, v)
        PROVE  \E fn \in {"resolve", "reject"} : \E p, w : Replace(t, <<Call(fn, p, w)>>)
    BY <2>3 DEF ReturnFinally, Throw
  <2>. QED  BY <2>1, <2>2, <2>3 DEF EndScript
<1>. QED  BY <1>2, <1>3, PlainFrames, PlainReplace

(* A call from a script, or the loop that is entered, is pushed.            *)
LEMMA ApiKeeps ==
  ASSUME NEW S, stack \in [Threads -> Seq(S)], NEW t \in Threads, Stacked(t),
         Api(t) \/ ProcessMicrotasks(t)
  PROVE  Keeps(t)
<1>1. ASSUME NEW f, Plainly(f), Push(t, f), InScript(t)  PROVE Keeps(t)
  <2>1. f.kind \notin {"loop", "subscribe"} /\ ~ Handles(f)
    BY <1>1 DEF Plainly, Handles
  <2>. QED  BY <1>1, <2>1, FinePush
<1>2. CASE NewPromise(t)
  BY <1>1, <1>2, PlainFrames DEF NewPromise
<1>3. ASSUME NEW p, NEW v, CallResolve(t, p, v) \/ CallReject(t, p, v)  PROVE Keeps(t)
  BY <1>1, <1>3, PlainFrames DEF CallResolve, CallReject
<1>4. ASSUME NEW p, NEW pair, CallThen(t, p, pair)  PROVE Keeps(t)
  BY <1>4, SameKeeps DEF CallThen
<1>5. CASE ProcessMicrotasks(t)
  BY <1>1, <1>5, PlainFrames DEF ProcessMicrotasks, InScript
<1>. QED  BY <1>2, <1>3, <1>4, <1>5 DEF Api

(* Promise's own steps keep the combinators' frames as they are.            *)
LEMMA PromiseKeeps ==
  ASSUME NEW K, Serves(K), IInv(K), NEW t \in Threads, Stacked(t),
         \/ Api(t) \/ Native(t) \/ ProcessMicrotasks(t)
         \/ ~ InIterator(t) /\ EndScript(t)
  PROVE  Keeps(t)
<1>1. stack \in [Threads -> Seq(FitFrame(K))]
  BY DEF IInv
<1>2. CASE Native(t)
  BY <1>1, <1>2, ResolveKeeps, RejectKeeps, EnqueueKeeps, RunKeeps DEF Native
<1>3. CASE Api(t) \/ ProcessMicrotasks(t)
  BY <1>1, <1>3, ApiKeeps
<1>4. CASE ~ InIterator(t) /\ EndScript(t)
  BY <1>1, <1>4, EndScriptKeeps
<1>. QED  BY <1>2, <1>3, <1>4

---------------------------------------------------------------------------
(* What is added to K concerns no promise that exists yet: all that fits K    *)
(* fits what it becomes.                                                   *)
LEMMA WidenInv ==
  ASSUME NEW K, IsMore(K), IInv(K), NEW L, IsMore(L),
         K.native \subseteq L.native, K.own \subseteq L.own,
         \A n \in L.native : n \in K.native \/ n.on \notin Existing,
         \A a \in L.own : a \in K.own \/ a \notin Existing
  PROVE  IInv(L)
<1>1. /\ ScalarsOK /\ BornInOrder /\ NativeReactions(K) /\ exposed \cap K.own = {}
      /\ reactions \in [Promises -> Seq(FitReaction(K))]
      /\ queue \in Seq(FitJob(K))
      /\ stack \in [Threads -> Seq(FitFrame(K))]
      /\ SettledHasNoReactions /\ FulfilledIsPlain
  BY DEF IInv
<1>2. /\ created \in Nat /\ Existing \subseteq Promises /\ exposed \subseteq Existing
      /\ \A p \in Promises : p \in Nat /\ (p <= created => p \in Existing)
  BY <1>1, Numbers DEF ScalarsOK, Existing, Promises
<1>3. Natives(K) \subseteq Natives(L) /\ AnyHandler(K) \subseteq AnyHandler(L)
  BY DEF Natives, AnyHandler
<1>4. ASSUME NEW h \in AnyHandler(K), h.fn \in Natives(L)  PROVE h.fn \in Natives(K)
  BY <1>4 DEF AnyHandler, Handler, IsMore, Natives
<1>5. ASSUME NEW h \in AnyHandler(K), NEW q \in Promises, HandlerFits(K, h, q)
      PROVE  HandlerFits(L, h, q)
  <2>1. h.on \in Promises \/ h.on \notin L.own
    BY DEF AnyHandler, Handler, NoPromise, IsMore, Promises
  <2>2. q \notin L.own /\ h.on \notin L.own
    BY <1>2, <1>5, <2>1 DEF HandlerFits
  <2>. QED  BY <1>4, <1>5, <2>2 DEF HandlerFits
<1>6. ASSUME NEW p, NEW how, NEW h \in AnyHandler(K), NEW q \in Promises, q <= created,
             NativeFits(K, p, how, h, q)
      PROVE  NativeFits(L, p, how, h, q)
  <2>1. Reserved(L, q) => Reserved(K, q)
    BY <1>2, <1>6 DEF Reserved
  <2>. QED  BY <1>4, <1>6, <2>1 DEF NativeFits
<1>7. FitReaction(K) \subseteq FitReaction(L)
  BY <1>3, <1>5 DEF FitReaction, AnyReaction
<1>8. FitJob(K) \subseteq FitJob(L)
  <2>. SUFFICES ASSUME NEW job \in FitJob(K)  PROVE job \in FitJob(L)
    OBVIOUS
  <2>1. /\ job.handler \in AnyHandler(K) /\ job.to \in Promises
        /\ Fits(job) /\ HandlerFits(K, job.handler, job.to)
        /\ job.kind # "then" => NativeFits(K, job.src, job.kind, job.handler, job.to)
        /\ job \in AnyJob(K)
    BY DEF FitJob, AnyJob, AnyHandler, Handler, None
  <2>2. HandlerFits(L, job.handler, job.to)
    BY <1>5, <2>1
  <2>3. job.kind # "then" => NativeFits(L, job.src, job.kind, job.handler, job.to)
    <3>1. job.to <= created
      BY <2>1 DEF HandlerFits
    <3>. QED  BY <1>6, <2>1, <3>1
  <2>4. job \in AnyJob(L)
    BY <1>3, <2>1 DEF AnyJob
  <2>. QED  BY <2>1, <2>2, <2>3, <2>4 DEF FitJob
<1>9. Seq(FitReaction(K)) \subseteq Seq(FitReaction(L)) /\ Seq(FitJob(K)) \subseteq Seq(FitJob(L))
  BY <1>7, <1>8, SeqMonotonic
<1>10. FitFrame(K) \subseteq FitFrame(L)
  <2>1. FitCall(K) \subseteq FitCall(L)
    BY <1>2 DEF FitCall
  <2>2. FitNative(K) \subseteq FitNative(L)
    BY <1>3 DEF FitNative
  <2>3. FitScript(K) \subseteq FitScript(L)
    <3>. SUFFICES ASSUME NEW f \in FitScript(K)  PROVE f \in FitScript(L)
      OBVIOUS
    <3>1. f.thr \in Promises /\ f.thr \in Existing
      BY <1>2 DEF FitScript, ScriptFrame
    <3>2. f.thr \in L.own => f.thr \in K.own
      BY <3>1
    <3>. QED  BY <3>2 DEF FitScript
  <2>4. [kind : {"enqueue", "batch"}, jobs : Seq(FitJob(K))]
          \subseteq [kind : {"enqueue", "batch"}, jobs : Seq(FitJob(L))]
    BY <1>9
  <2>. QED  BY <2>1, <2>2, <2>3, <2>4 DEF FitFrame
<1>11. Seq(FitFrame(K)) \subseteq Seq(FitFrame(L))
  BY <1>10, SeqMonotonic
<1>12. NativeReactions(L)
  <2>. SUFFICES ASSUME NEW p \in Promises, NEW i \in 1..Len(reactions[p]),
                       NEW r, r = reactions[p][i]
                PROVE  /\ NativeFits(L, p, "fulfilled", r.onFulfilled, r.to)
                       /\ NativeFits(L, p, "rejected", r.onRejected, r.to)
    BY DEF NativeReactions
  <2>1. r \in FitReaction(K)
    BY <1>1, ElementOfSeq
  <2>2. /\ r.onFulfilled \in AnyHandler(K) /\ r.onRejected \in AnyHandler(K)
        /\ r.to \in Promises /\ r.to <= created
    BY <2>1 DEF FitReaction, AnyReaction, HandlerFits
  <2>. QED  BY <1>1, <1>6, <2>2 DEF NativeReactions
<1>13. exposed \cap L.own = {}
  BY <1>1, <1>2
<1>. QED  BY <1>1, <1>9, <1>11, <1>12, <1>13 DEF IInv

---------------------------------------------------------------------------
(* Nothing will call the handlers of q any more.                           *)
Derives(job, q) == job.kind # "then" /\ job.to = q
Bare(q) ==
  /\ \A p \in Promises : \A i \in 1..Len(reactions[p]) : reactions[p][i].to # q
  /\ \A i \in 1..Len(queue) : ~ Derives(queue[i], q)
  /\ \A t \in Threads : \A k \in 1..Len(stack[t]) :
       /\ ~ (Handles(stack[t][k]) /\ stack[t][k].on = q)
       /\ stack[t][k].kind \in {"enqueue", "batch"} =>
            \A i \in 1..Len(stack[t][k].jobs) : ~ Derives(stack[t][k].jobs[i], q)

(* A sequence is one of any set that has its elements.                      *)
LEMMA SeqIn ==
  ASSUME NEW S, NEW T, NEW s \in Seq(S), \A i \in 1..Len(s) : s[i] \in T
  PROVE  s \in Seq(T)
<1>1. s \in [1..Len(s) -> T] /\ Len(s) \in Nat
  BY LenProperties
<1>. QED  BY <1>1, SeqDef

(* Less is served by what serves more.                                      *)
LEMMA WithoutServes ==
  ASSUME NEW K, Serves(K), NEW q
  PROVE  Serves(Without(K, q))
  BY DEF Serves, Without, IsMore

(* Where no handler of q will be called, Promise's invariant holds without  *)
(* them.                                                                    *)
LEMMA NarrowInv ==
  \A K, q : Serves(K) /\ IInv(K) /\ Bare(q) => IInv(Without(K, q))
<1>. SUFFICES ASSUME NEW K, NEW q, Serves(K), IInv(K), Bare(q),
                     NEW L, L = Without(K, q)
              PROVE  IInv(L)
  OBVIOUS
<1>1. /\ ScalarsOK /\ BornInOrder /\ NativeReactions(K) /\ exposed \cap K.own = {}
      /\ reactions \in [Promises -> Seq(FitReaction(K))]
      /\ queue \in Seq(FitJob(K))
      /\ stack \in [Threads -> Seq(FitFrame(K))]
      /\ SettledHasNoReactions /\ FulfilledIsPlain
  BY DEF IInv
<1>2. /\ L.own = K.own
      /\ \A n : n \in L.native <=> n \in K.native /\ (n.how = "never" \/ n.on # q)
  BY DEF Without
<1>3. Natives(L) \subseteq Natives(K)
  BY <1>2 DEF Natives
<1>4. ASSUME NEW h \in AnyHandler(K), NEW r, HandlerFits(K, h, r)  PROVE HandlerFits(L, h, r)
  BY <1>2, <1>3, <1>4 DEF HandlerFits
<1>5. ASSUME NEW p, NEW how, NEW h, NEW r, r # q, NativeFits(K, p, how, h, r)
      PROVE  NativeFits(L, p, how, h, r)
  <2>1. Reserved(L, r) => Reserved(K, r)
    BY <1>2 DEF Reserved
  <2>. QED  BY <1>2, <1>3, <1>5, <2>1 DEF NativeFits
<1>6. ASSUME NEW p, NEW how, NEW h \in AnyHandler(K), NEW r, r # q, NativeFits(K, p, how, h, r)
      PROVE  h \in AnyHandler(L)
  <2>1. h.fn \in Natives(K) => h.fn \in Natives(L)
    BY <1>2, <1>6 DEF NativeFits, Natives
  <2>. QED  BY <2>1 DEF AnyHandler
<1>7. ASSUME NEW p \in Promises, NEW i \in 1..Len(reactions[p]),
             NEW r, r = reactions[p][i]
      PROVE  /\ r \in FitReaction(L)
             /\ NativeFits(L, p, "fulfilled", r.onFulfilled, r.to)
             /\ NativeFits(L, p, "rejected", r.onRejected, r.to)
  <2>1. r \in FitReaction(K)
    BY <1>1, <1>7, ElementOfSeq
  <2>2. /\ r.onFulfilled \in AnyHandler(K) /\ r.onRejected \in AnyHandler(K)
        /\ HandlerFits(K, r.onFulfilled, r.to) /\ HandlerFits(K, r.onRejected, r.to)
        /\ r \in AnyReaction(K)
    BY <2>1 DEF FitReaction, AnyReaction
  <2>3. r.to # q
    BY <1>7 DEF Bare
  <2>4. /\ NativeFits(K, p, "fulfilled", r.onFulfilled, r.to)
        /\ NativeFits(K, p, "rejected", r.onRejected, r.to)
    BY <1>1, <1>7 DEF NativeReactions
  <2>5. r.onFulfilled \in AnyHandler(L) /\ r.onRejected \in AnyHandler(L)
    BY <1>6, <2>2, <2>3, <2>4
  <2>6. r \in AnyReaction(L)
    BY <2>2, <2>5 DEF AnyReaction
  <2>7. HandlerFits(L, r.onFulfilled, r.to) /\ HandlerFits(L, r.onRejected, r.to)
    BY <1>4, <2>2
  <2>8. r \in FitReaction(L)
    BY <2>1, <2>6, <2>7 DEF FitReaction
  <2>. QED  BY <1>5, <2>3, <2>4, <2>8
<1>8. ASSUME NEW job \in FitJob(K), ~ Derives(job, q)  PROVE job \in FitJob(L)
  <2>1. /\ job.handler \in AnyHandler(K)
        /\ Fits(job) /\ HandlerFits(K, job.handler, job.to)
        /\ job.kind # "then" => NativeFits(K, job.src, job.kind, job.handler, job.to)
        /\ job \in AnyJob(K)
    BY DEF FitJob, AnyJob, AnyHandler, Handler, None
  <2>2. HandlerFits(L, job.handler, job.to)
    BY <1>4, <2>1
  <2>3. CASE job.kind = "then"
    <3>1. job \in AnyJob(L)
      BY <2>1, <2>3 DEF AnyJob
    <3>. QED  BY <2>1, <2>2, <2>3, <3>1 DEF FitJob
  <2>4. CASE job.kind # "then"
    <3>1. job.to # q
      BY <1>8, <2>4 DEF Derives
    <3>2. NativeFits(L, job.src, job.kind, job.handler, job.to)
      BY <1>5, <2>1, <2>4, <3>1
    <3>3. job.handler \in AnyHandler(L)
      BY <1>6, <2>1, <2>4, <3>1
    <3>4. job \in AnyJob(L)
      BY <2>1, <2>4, <3>3 DEF AnyJob
    <3>. QED  BY <2>1, <2>2, <3>2, <3>4 DEF FitJob
  <2>. QED  BY <2>3, <2>4
<1>9. \A p \in Promises : reactions[p] \in Seq(FitReaction(L))
  BY <1>1, <1>7, SeqIn
<1>10. queue \in Seq(FitJob(L))
  <2>1. \A i \in 1..Len(queue) : queue[i] \in FitJob(K) /\ ~ Derives(queue[i], q)
    BY <1>1, ElementOfSeq DEF Bare
  <2>. QED  BY <1>1, <1>8, <2>1, SeqIn
<1>11. ASSUME NEW t \in Threads, NEW k \in 1..Len(stack[t]), NEW f, f = stack[t][k]
       PROVE  f \in FitFrame(L)
  <2>1. f \in FitFrame(K)
    BY <1>1, <1>11, ElementOfSeq
  <2>2. CASE f \in FitCall(K)
    BY <1>2, <2>2 DEF FitFrame, FitCall
  <2>3. CASE f \in FitScript(K)
    BY <1>2, <2>3 DEF FitFrame, FitScript
  <2>4. CASE f \in FitNative(K)
    <3>1. PICK n \in K.native :
            /\ n.fn = f.kind /\ n.on = f.on
            /\ n.how = "fulfilled" => state[n.src] = "Fulfilled" /\ result[n.src] = f.value
            /\ n.how = "rejected" => state[n.src] = "Rejected" /\ result[n.src] = f.value
      BY <2>4 DEF FitNative
    <3>2. ~ Handles(f) \/ f.on # q
      BY <1>11 DEF Bare
    <3>3. n.how = "never" \/ n.on # q
      BY <3>1, <3>2 DEF Serves, Handles
    <3>4. n \in L.native /\ f.kind \in Natives(L)
      BY <1>2, <3>1, <3>3 DEF Natives
    <3>5. f \in FitNative(L)
      BY <2>4, <3>1, <3>4 DEF FitNative
    <3>. QED  BY <3>5 DEF FitFrame
  <2>5. CASE f \in [kind : {"enqueue", "batch"}, jobs : Seq(FitJob(K))]
    <3>1. \A i \in 1..Len(f.jobs) : f.jobs[i] \in FitJob(K) /\ ~ Derives(f.jobs[i], q)
      BY <1>11, <2>5, ElementOfSeq DEF Bare
    <3>2. f.jobs \in Seq(FitJob(L))
      BY <1>8, <2>5, <3>1, SeqIn
    <3>3. f \in [kind : {"enqueue", "batch"}, jobs : Seq(FitJob(L))]
      BY <2>5, <3>2
    <3>. QED  BY <3>3 DEF FitFrame
  <2>. QED  BY <2>1, <2>2, <2>3, <2>4, <2>5 DEF FitFrame
<1>12. \A t \in Threads : stack[t] \in Seq(FitFrame(L))
  BY <1>1, <1>11, SeqIn
<1>13. NativeReactions(L)
  BY <1>7 DEF NativeReactions
<1>14. /\ reactions \in [Promises -> Seq(FitReaction(L))]
       /\ stack \in [Threads -> Seq(FitFrame(L))]
  BY <1>1, <1>9, <1>12
<1>. QED  BY <1>1, <1>2, <1>10, <1>13, <1>14 DEF IInv

LEMMA NarrowedInv ==
  (\A K, q : Serves(K) /\ IInv(K) /\ Bare(q) => IInv(Without(K, q)))'
  BY NarrowInv, PTL

---------------------------------------------------------------------------
(* What the combinators add is what K must be of.                           *)
LEMMA CombinedServes ==
  \A K : K = Combined /\ ElementsInv => Serves(K)
<1>. SUFFICES ASSUME NEW K, K = Combined, ElementsInv  PROVE Serves(K)
  OBVIOUS
<1>1. /\ K.own = Aggregates
      /\ \A n : n \in K.native <=>
           /\ n \in [fn : {"loop", "subscribe", "onFulfilled", "onRejected"}, on : Promises,
                     src : Promises \cup {NoPromise}, how : {"never", "fulfilled", "rejected"}]
           /\ \/ n.fn = "loop" /\ n.how = "never" /\ n.on \in Aggregates
              \/ n.fn = "subscribe" /\ n.how = "never"
              \/ /\ n.fn = "onFulfilled" /\ n.how = "fulfilled"
                 /\ IsElement(n.on) /\ n.src = element[n.on].src
              \/ /\ n.fn = "onRejected" /\ n.how = "rejected"
                 /\ IsElement(n.on) /\ n.src = element[n.on].src
  BY DEF Combined
<1>2. \A q \in Promises : IsElement(q) => element[q].src \in Promises
  BY DEF ElementsInv, IsElement
<1>3. IsMore(K)
  BY <1>1, <1>2 DEF IsMore, Aggregates
<1>4. ASSUME NEW a \in K.own  PROVE \E n \in K.native : n.fn = "loop" /\ n.on = a
  <2>1. PICK n : n = [fn |-> "loop", on |-> a, src |-> NoPromise, how |-> "never"]
    OBVIOUS
  <2>2. a \in Promises /\ a \in Aggregates
    BY <1>1 DEF Aggregates
  <2>. QED  BY <1>1, <2>1, <2>2
<1>5. ASSUME NEW p \in Promises  PROVE \E n \in K.native : n.fn = "subscribe" /\ n.on = p
  <2>1. PICK n : n = [fn |-> "subscribe", on |-> p, src |-> NoPromise, how |-> "never"]
    OBVIOUS
  <2>. QED  BY <1>1, <2>1
<1>6. ASSUME NEW n \in K.native
      PROVE  /\ n.fn \in {"loop", "subscribe", "onFulfilled", "onRejected"} /\ n.on \in Promises
             /\ n.fn = "loop" => n.on \in K.own
             /\ n.fn \in {"loop", "subscribe"} => n.how = "never"
             /\ n.fn = "onFulfilled" => n.how = "fulfilled"
             /\ n.fn = "onRejected" => n.how = "rejected"
  BY <1>1
<1>. QED  BY <1>3, <1>4, <1>5, <1>6 DEF Serves

LEMMA CombinedServesNext ==
  (\A K : K = Combined /\ ElementsInv => Serves(K))'
  BY CombinedServes, PTL

(* The next promise is neither an aggregate nor an element.                 *)
LEMMA CombinedFree ==
  ASSUME NEW K, K = Combined, ScalarsOK, SlotsInv, ElementsInv
  PROVE  NextIsFree(K)
<1>1. created \in Nat /\ \A q \in Existing : q <= created
  BY Numbers
<1>2. created + 1 \notin Existing
  BY <1>1
<1>3. created + 1 \notin K.own
  BY <1>2 DEF Combined, SlotsInv
<1>4. ASSUME NEW n \in K.native, n.on = created + 1, n.how # "never"  PROVE FALSE
  <2>1. IsElement(n.on) /\ n.on \in Promises
    BY <1>4 DEF Combined
  <2>. QED  BY <1>2, <1>4, <2>1 DEF ElementsInv
<1>. QED  BY <1>3, <1>4 DEF NextIsFree, Reserved

---------------------------------------------------------------------------
(* The frame and its iterator make room for others.                         *)
LEMMA LeaveTyped ==
  ASSUME NEW S, NEW T, S \subseteq T,
         NEW st \in [Threads -> Seq(S)],
         NEW t \in Threads, Len(st[t]) > 1,
         NEW frames \in Seq(T)
  PROVE  [st EXCEPT ![t] = frames \o Tail(Tail(@))] \in [Threads -> Seq(T)]
<1>1. \A u \in Threads : st[u] \in Seq(T)
  BY SeqMonotonic
<1>2. PICK n, r, x : n = Len(st[t]) /\ r = Tail(st[t]) /\ x = Tail(r)
  OBVIOUS
<1>3. n \in Nat /\ n > 1 /\ st[t] # <<>>
  BY <1>2, LenProperties
<1>4. r \in Seq(T) /\ Len(r) = n - 1
  BY <1>1, <1>2, <1>3, HeadTailProperties
<1>5. r # <<>>
  BY <1>3, <1>4
<1>6. x \in Seq(T)
  BY <1>2, <1>4, <1>5, HeadTailProperties
<1>7. frames \o x \in Seq(T)
  BY <1>6, ConcatProperties
<1>. QED  BY <1>1, <1>2, <1>7

(* Frames of the combinators that are pushed.                               *)
LEMMA CombFrames ==
  ASSUME NEW K, Serves(K), NEW a \in Promises, a <= created
  PROVE  /\ a \in K.own => Loop(a) \in FitFrame(K)
         /\ Iterator(a) \in FitFrame(K)
         /\ Call("subscribe", a, Undefined) \in FitFrame(K)
<1>1. Undefined \in Value /\ NoPromise \notin Promises
  BY PromiseAssumption DEF Value, NoPromise, Promises
<1>2. ASSUME NEW n \in K.native, n.how = "never", n.on = a
      PROVE  Call(n.fn, a, Undefined) \in FitFrame(K)
  BY <1>1, <1>2 DEF FitFrame, FitNative, Natives, Call
<1>3. a \in K.own => Loop(a) \in FitFrame(K)
  BY <1>2 DEF Serves, Loop
<1>4. Call("subscribe", a, Undefined) \in FitFrame(K)
  BY <1>2 DEF Serves
<1>5. Iterator(a) \in FitFrame(K)
  BY <1>1, ScriptTyped DEF Iterator
<1>. QED  BY <1>3, <1>4, <1>5

LEMMA CombFramesNext ==
  (\A K : Serves(K) => \A a \in Promises : a <= created =>
     /\ a \in K.own => Loop(a) \in FitFrame(K)
     /\ Iterator(a) \in FitFrame(K)
     /\ Call("subscribe", a, Undefined) \in FitFrame(K))'
<1>1. \A K : Serves(K) => \A a \in Promises : a <= created =>
     /\ a \in K.own => Loop(a) \in FitFrame(K)
     /\ Iterator(a) \in FitFrame(K)
     /\ Call("subscribe", a, Undefined) \in FitFrame(K)
  BY CombFrames
<1>. QED  BY <1>1, PTL

(* The executor under an iterator, or under a call of then().                *)
LEMMA LoopFrame ==
  ASSUME NEW K, Serves(K), IInv(K), NEW t \in Threads, Stacked(t),
         InIterator(t) \/ Running(t, "subscribe"),
         NEW a, a = stack[t][2].on, NEW L, L = Len(stack[t])
  PROVE  /\ stack[t] # <<>> /\ L \in Nat /\ L >= 2
         /\ a \in K.own /\ a \in Promises /\ a <= created
         /\ FrameAt(t, L) = Head(stack[t]) /\ FrameAt(t, L - 1) = stack[t][2]
         /\ LoopAt(a, t, L - 1)
         /\ InIterator(t) => Head(stack[t]) = Iterator(a)
         /\ Running(t, "subscribe") =>
              /\ SubscribeAt(a, t, L - 1)
              /\ Head(stack[t]).on \in Promises /\ Head(stack[t]).on <= created
<1>1. stack[t] # <<>> /\ stack[t] \in Seq(FitFrame(K)) /\ IsMore(K)
  BY DEF InIterator, Running, IInv, Serves
<1>2. L \in Nat /\ L >= 1
  BY <1>1, LenProperties
<1>3. FrameAt(t, L) = stack[t][1] /\ stack[t][1] = Head(stack[t])
  BY <1>1, <1>2 DEF FrameAt
<1>4. L >= 2
  <2>1. CASE InIterator(t)
    BY <1>2, <2>1 DEF InIterator
  <2>2. CASE Running(t, "subscribe")
    <3>1. FrameAt(t, L).kind = "subscribe"
      BY <1>3, <2>2 DEF Running
    <3>2. L # 1
      BY <1>2, <3>1 DEF Stacked
    <3>. QED  BY <1>2, <3>2
  <2>. QED  BY <2>1, <2>2
<1>5. PICK e : e = L - 1
  OBVIOUS
<1>6. e \in 1..(L - 1) /\ e + 1 = L /\ L + 1 - e = 2 /\ 2 \in 1..L /\ e \in 1..L
  BY <1>4, <1>5, <1>2
<1>7. FrameAt(t, e) = stack[t][2]
  BY <1>6 DEF FrameAt
<1>8. Above(FrameAt(t, L), FrameAt(t, e))
  <2>1. Above(FrameAt(t, e + 1), FrameAt(t, e))
    BY <1>6 DEF Stacked
  <2>. QED  BY <1>6, <2>1
<1>9. stack[t][2].kind = "loop"
  <2>1. CASE InIterator(t)
    BY <2>1 DEF InIterator
  <2>2. CASE Running(t, "subscribe")
    BY <1>3, <1>7, <1>8, <2>2 DEF Above, Running
  <2>. QED  BY <2>1, <2>2
<1>10. stack[t][2] \in FitFrame(K)
  BY <1>1, <1>6, ElementOfSeq
<1>11. stack[t][2] \in FitNative(K)
  BY <1>9, <1>10 DEF FitFrame, FitCall, FitScript, ScriptFrame
<1>12. a \in Promises /\ a <= created /\ \E n \in K.native : n.fn = "loop" /\ n.on = a
  BY <1>9, <1>11 DEF FitNative
<1>13. a \in K.own
  BY <1>12 DEF Serves
<1>14. LoopAt(a, t, e)
  BY <1>6, <1>7, <1>9 DEF LoopAt
<1>15. ASSUME InIterator(t)  PROVE Head(stack[t]) = Iterator(a)
  <2>1. Head(stack[t]).kind = "script"
    BY <1>15 DEF InIterator, Running
  <2>. QED  BY <1>3, <1>7, <1>8, <1>9, <2>1 DEF Above
<1>16. ASSUME Running(t, "subscribe")
       PROVE  /\ SubscribeAt(a, t, e)
              /\ Head(stack[t]).on \in Promises /\ Head(stack[t]).on <= created
  <2>1. Head(stack[t]).kind = "subscribe"
    BY <1>16 DEF Running
  <2>2. SubscribeAt(a, t, e)
    BY <1>2, <1>3, <1>6, <1>14, <2>1 DEF SubscribeAt
  <2>3. "subscribe" \in Natives(K)
    BY <1>12 DEF Serves, Natives
  <2>4. /\ Head(stack[t]).kind \in {"resolve", "reject"} \cup Natives(K)
             => /\ Head(stack[t]).on \in Promises
                /\ Head(stack[t]).on <= created
    BY <1>1, HeadFrame
  <2>. QED  BY <2>1, <2>2, <2>3, <2>4
<1>. QED  BY <1>1, <1>2, <1>3, <1>4, <1>5, <1>7, <1>12, <1>13, <1>14, <1>15, <1>16

---------------------------------------------------------------------------
(* Each action of the combinators keeps the promises' invariant.            *)
LEMMA CombineInv ==
  ASSUME NEW K, Serves(K), IInv(K), created + 1 \in K.own,
         NEW t \in Threads, NEW k, Combine(t, k)
  PROVE  IInv(K)'
<1>1. /\ IsMore(K) /\ ScalarsOK /\ created < MaxPromises
      /\ created' = created + 1
      /\ state' = [state EXCEPT ![created + 1] = "Pending"]
      /\ budget' = budget - 1 /\ budget >= 1
      /\ stack' = [stack EXCEPT ![t] = <<Iterator(created + 1), Loop(created + 1)>> \o @]
      /\ UNCHANGED <<result, reactions, lock, queue, exposed, awaits>>
      /\ stack \in [Threads -> Seq(FitFrame(K))] /\ queue \in Seq(FitJob(K))
      /\ exposed \cap K.own = {}
  BY DEF Combine, Serves, IInv
<1>2. /\ created \in Nat /\ created + 1 \in Promises /\ budget \in 0..MaxPromises
      /\ exposed \subseteq Existing /\ MaxPromises \in Nat
      /\ awaits \in [Promises -> Promises \cup {NoPromise}]
  BY <1>1, Numbers DEF ScalarsOK
<1>3. PICK p : p = created + 1
  OBVIOUS
<1>4. /\ FitJob(K) \subseteq FitJob(K)' /\ FitFrame(K) \subseteq FitFrame(K)'
  BY <1>1, BirthGrows
<1>5. Loop(p) \in FitFrame(K)' /\ Iterator(p) \in FitFrame(K)'
  <2>1. p \in Promises /\ p <= created' /\ p \in K.own
    BY <1>1, <1>2, <1>3
  <2>2. (\A a \in Promises : a <= created =>
            /\ a \in K.own => Loop(a) \in FitFrame(K)
            /\ Iterator(a) \in FitFrame(K))'
    BY CombFramesNext
  <2>. QED  BY <2>1, <2>2 DEF Loop, Iterator
<1>6. queue' \in Seq(FitJob(K)')
  BY <1>1, <1>4, SeqMonotonic
<1>7. stack' \in [Threads -> Seq(FitFrame(K)')]
  <2>1. <<Iterator(p), Loop(p)>> \in Seq(FitFrame(K)')
    BY <1>5, ShortSeqs
  <2>2. \A u \in Threads : stack[u] \in Seq(FitFrame(K)')
    BY <1>1, <1>4, SeqMonotonic
  <2>3. <<Iterator(p), Loop(p)>> \o stack[t] \in Seq(FitFrame(K)')
    BY <2>1, <2>2, ConcatProperties
  <2>. QED  BY <1>1, <1>3, <2>2, <2>3
<1>8. exposed' \subseteq Existing' \ K.own /\ budget' \in 0..MaxPromises
  BY <1>1, <1>2 DEF Existing
<1>9. awaits' \in [Promises -> Promises \cup {NoPromise}] /\ Undefined \in Value
  BY <1>1, <1>2, PromiseAssumption DEF Value
<1>. QED  BY <1>1, <1>2, <1>6, <1>7, <1>8, <1>9, BirthStep

(* An element costs at least the promise that its then() returns.           *)
LEMMA CostOf ==
  ASSUME NEW v, ScalarsOK, budget >= ElementCost(v)
  PROVE  budget - ElementCost(v) \in 0..MaxPromises /\ ElementCost(v) >= 1 /\ ElementCost(v) \in Nat
<1>1. ElementCost(v) \in {1, 2, 3}
  BY DEF ElementCost, Cost
<1>. QED  BY <1>1, PromiseAssumption DEF ScalarsOK

(* The iterator yields a value.                                             *)
LEMMA NextValueInv ==
  ASSUME NEW K, Serves(K), IInv(K), NextIsFree(K), NEW t \in Threads, Stacked(t),
         NEW v \in ElementValues, NextValue(t, v)
  PROVE  IInv(K)'
<1>0. PICK a : a = stack[t][2].on
  OBVIOUS
<1>1. /\ IsMore(K) /\ ScalarsOK /\ InIterator(t) /\ v \in Value
      /\ UNCHANGED <<result, reactions, lock, queue, exposed, awaits>>
      /\ stack \in [Threads -> Seq(FitFrame(K))] /\ queue \in Seq(FitJob(K))
      /\ exposed \cap K.own = {} /\ budget' = budget - ElementCost(v)
      /\ budget >= ElementCost(v) /\ Len(stack[t]) > 1
  BY CombinatorsAssumption DEF NextValue, Serves, IInv, InIterator
<1>2. /\ created \in Nat /\ exposed \subseteq Existing /\ budget' \in 0..MaxPromises
      /\ created < MaxPromises => created + 1 \in Promises
      /\ awaits \in [Promises -> Promises \cup {NoPromise}]
      /\ \A q \in Existing : q <= created
      /\ \A q \in Promises : q \in Nat
  BY <1>1, Numbers, CostOf DEF ScalarsOK
<1>3. a \in K.own /\ a \in Promises /\ a <= created
  BY <1>0, <1>1, LoopFrame
<1>4. CASE v \in Promises /\ UNCHANGED <<created, state>>
            /\ Leave(t, <<Call("subscribe", v, Undefined), Loop(a)>>)
  <2>1. v <= created
    BY <1>2, <1>4 DEF NextValue
  <2>2. Call("subscribe", v, Undefined) \in FitFrame(K) /\ Loop(a) \in FitFrame(K)
    BY <1>3, <1>4, <2>1, CombFrames
  <2>3. <<Call("subscribe", v, Undefined), Loop(a)>> \in Seq(FitFrame(K))
    BY <2>2, ShortSeqs
  <2>4. stack' \in [Threads -> Seq(FitFrame(K))]
    BY <1>1, <1>4, <2>3, LeaveTyped DEF Leave
  <2>5. exposed' \subseteq Existing \ K.own
    BY <1>1, <1>2
  <2>. QED  BY <1>1, <1>2, <1>4, <2>4, <2>5, StackStep
<1>5. CASE /\ v \notin Promises /\ created < MaxPromises
           /\ created' = created + 1
           /\ state' = [state EXCEPT ![created + 1] = "Pending"]
           /\ Leave(t, <<Call("resolve", created + 1, v),
                         Call("subscribe", created + 1, Undefined), Loop(a)>>)
  <2>0. PICK p : p = created + 1
    OBVIOUS
  <2>f. PICK fs : fs = <<Call("resolve", p, v), Call("subscribe", p, Undefined), Loop(a)>>
    OBVIOUS
  <2>1. p \in Promises /\ p \notin K.own /\ p <= created' /\ a <= created' /\ p = created'
    BY <1>2, <1>3, <1>5, <2>0 DEF NextIsFree
  <2>2. FitJob(K) \subseteq FitJob(K)' /\ FitFrame(K) \subseteq FitFrame(K)'
    BY <1>1, <1>5, BirthGrows
  <2>3. Call("subscribe", p, Undefined) \in FitFrame(K)' /\ Loop(a) \in FitFrame(K)'
    <3>1. (\A b \in Promises : b <= created =>
              /\ b \in K.own => Loop(b) \in FitFrame(K)
              /\ Call("subscribe", b, Undefined) \in FitFrame(K))'
      BY CombFramesNext
    <3>. QED  BY <1>3, <2>1, <3>1 DEF Loop, Call
  <2>4. Call("resolve", p, v) \in FitFrame(K)'
    BY <1>1, <2>1 DEF FitFrame, FitCall, Call
  <2>5. fs \in Seq(FitFrame(K)')
    BY <2>f, <2>3, <2>4
  <2>6. stack' \in [Threads -> Seq(FitFrame(K)')]
    <3>1. stack' = [stack EXCEPT ![t] = fs \o Tail(Tail(@))]
      BY <1>5, <2>0, <2>f DEF Leave
    <3>. QED  BY <1>1, <2>2, <2>5, <3>1, LeaveTyped
  <2>7. queue' \in Seq(FitJob(K)')
    BY <1>1, <2>2, SeqMonotonic
  <2>8. /\ exposed' \subseteq Existing' \ K.own /\ Undefined \in Value
        /\ awaits' \in [Promises -> Promises \cup {NoPromise}]
    BY <1>1, <1>2, <1>5, PromiseAssumption DEF Existing, Value
  <2>. QED  BY <1>1, <1>2, <1>3, <1>5, <2>6, <2>7, <2>8, BirthStep
<1>. QED  BY <1>0, <1>4, <1>5 DEF NextValue

(* The element's then() registers its two handlers.                         *)
LEMMA SubscribeKeepsInv ==
  ASSUME NEW K, Serves(K), IInv(K), created + 1 \notin K.own, NEW t \in Threads, Stacked(t),
         NEW q, q = created + 1, NEW p, p = Head(stack[t]).on,
         \E n \in K.native : n.fn = "onFulfilled" /\ n.on = q /\ n.src = p,
         \E n \in K.native : n.fn = "onRejected" /\ n.on = q /\ n.src = p,
         Subscribe(t)
  PROVE  IInv(K)'
<1>0. PICK a, f, g : a = stack[t][2].on /\ f = OnFulfilled(q) /\ g = OnRejected(q)
  OBVIOUS
<1>1. /\ IsMore(K) /\ ScalarsOK /\ Running(t, "subscribe")
      /\ stack \in [Threads -> Seq(FitFrame(K))] /\ exposed \cap K.own = {}
      /\ Register(p, f, g) /\ Replace(t, <<Iterator(a)>>)
      /\ UNCHANGED <<result, lock, exposed, awaits, budget>>
  BY <1>0 DEF Subscribe, Serves, IInv
<1>2. /\ created < MaxPromises /\ created' = created + 1
      /\ state' = [state EXCEPT ![created + 1] = "Pending"]
  BY <1>1 DEF Register
<1>3. /\ created \in Nat /\ q \in Promises /\ exposed \subseteq Existing
      /\ budget \in 0..MaxPromises /\ awaits \in [Promises -> Promises \cup {NoPromise}]
  BY <1>1, <1>2, Numbers DEF ScalarsOK
<1>4. /\ stack[t] # <<>> /\ a \in K.own /\ a \in Promises /\ a <= created
      /\ p \in Promises /\ p <= created
  BY <1>0, <1>1, LoopFrame
<1>5. /\ f.fn = "onFulfilled" /\ f.on = q /\ g.fn = "onRejected" /\ g.on = q
      /\ f \in AnyHandler(K) /\ g \in AnyHandler(K)
  BY <1>0, <1>3 DEF OnFulfilled, OnRejected, AnyHandler, Natives
<1>6. NativeFits(K, p, "fulfilled", f, q) /\ NativeFits(K, p, "rejected", g, q)
  BY <1>5 DEF NativeFits, Serves
<1>7. /\ FitJob(K) \subseteq FitJob(K)' /\ FitFrame(K) \subseteq FitFrame(K)'
      /\ queue' \in Seq(FitJob(K)')
      /\ UNCHANGED reactions \/ KeepsPair(K, p)
  <2>1. f.on <= created + 1 /\ f.on \notin K.own /\ f.fn # "reject" /\ f.on = g.on
        /\ f.fn \notin {"resolve", "reject"} /\ g.fn \notin {"resolve", "reject"}
    BY <1>3, <1>5
  <2>2. UNCHANGED result
    BY <1>1
  <2>. QED  BY <1>1, <1>4, <1>5, <1>6, <2>1, <2>2, RegisterFacts
<1>8. stack' \in [Threads -> Seq(FitFrame(K)')]
  <2>1. Iterator(a) \in FitFrame(K)'
    BY <1>4, <1>7, CombFrames
  <2>2. <<Iterator(a)>> \in Seq(FitFrame(K)')
    BY <2>1, ShortSeqs
  <2>. QED  BY <1>1, <1>4, <1>7, <2>2, ReplaceTyped DEF Replace
<1>9. /\ exposed' \subseteq Existing' \ K.own /\ Undefined \in Value
      /\ awaits' \in [Promises -> Promises \cup {NoPromise}] /\ budget' \in 0..MaxPromises
  BY <1>1, <1>2, <1>3, PromiseAssumption DEF Existing, Value
<1>. QED  BY <1>1, <1>2, <1>4, <1>7, <1>8, <1>9, BirthStep

---------------------------------------------------------------------------
(* What settles an aggregate when no element is missing.                    *)
LEMMA CompleteIs ==
  ASSUME NEW a, combinator[a] \in Kinds
  PROVE  \/ Complete(a) = <<>>
         \/ \E fn \in {"resolve", "reject"}, v \in Plain : Complete(a) = <<Call(fn, a, v)>>
<1>1. combinator[a] \in {"all", "race", "allSettled", "any"}
  BY CombinatorsAssumption
<1>2. CASE combinator[a] \in {"all", "allSettled"}
  BY <1>2, CombinatorsAssumption DEF Complete
<1>3. CASE combinator[a] = "any"
  BY <1>3, CombinatorsAssumption DEF Complete
<1>4. CASE combinator[a] = "race"
  BY <1>4 DEF Complete
<1>. QED  BY <1>1, <1>2, <1>3, <1>4

(* The step replaces frames of the combinators by at most a call that        *)
(* settles a.                                                              *)
Settles(fs, a) ==
  fs = <<>> \/ \E fn \in {"resolve", "reject"}, v \in Value :
                 fs = <<Call(fn, a, v)>> /\ (fn = "resolve" => v \in Plain)

(* Such frames are at most one.                                             *)
LEMMA SettlesSeq ==
  ASSUME NEW fs, NEW a, Settles(fs, a)
  PROVE  /\ \E S : fs \in Seq(S)
         /\ Len(fs) \in Nat
         /\ \A k \in 1..Len(fs) : /\ fs[k].kind \in {"resolve", "reject"} /\ fs[k].on = a
                                  /\ Plainly(fs[k]) /\ Len(fs) = 1
<1>1. CASE fs = <<>>
  <2>1. fs \in Seq({}) /\ Len(fs) = 0
    BY <1>1
  <2>. QED  BY <2>1
<1>2. ASSUME NEW fn \in {"resolve", "reject"}, NEW v, fs = <<Call(fn, a, v)>>
      PROVE  /\ \E S : fs \in Seq(S)
             /\ Len(fs) \in Nat
             /\ \A k \in 1..Len(fs) : /\ fs[k].kind \in {"resolve", "reject"} /\ fs[k].on = a
                                      /\ Plainly(fs[k]) /\ Len(fs) = 1
  <2>1. PICK f : f = Call(fn, a, v)
    OBVIOUS
  <2>2. fs = <<f>>
    BY <1>2, <2>1
  <2>3. fs \in Seq({f}) /\ Len(fs) = 1 /\ \A k \in 1..Len(fs) : fs[k] = f
    BY <2>2
  <2>4. f.kind \in {"resolve", "reject"} /\ f.on = a /\ Plainly(f)
    BY <2>1 DEF Call, Plainly
  <2>. QED  BY <2>3, <2>4
<1>. QED  BY <1>1, <1>2 DEF Settles

(* They fit the aggregate.                                                  *)
LEMMA SettlesTyped ==
  ASSUME NEW K, NEW a \in Promises, a <= created, NEW fs, Settles(fs, a)
  PROVE  fs \in Seq(FitFrame(K))
<1>1. CASE fs = <<>>
  BY <1>1
<1>2. ASSUME NEW fn \in {"resolve", "reject"}, NEW v \in Value, fn = "resolve" => v \in Plain
      PROVE  <<Call(fn, a, v)>> \in Seq(FitFrame(K))
  <2>1. Call(fn, a, v) \in FitFrame(K)
    BY <1>2, CallTyped
  <2>. QED  BY <2>1, ShortSeqs
<1>. QED  BY <1>1, <1>2 DEF Settles

(* The executor's end: exhausted, or by an exception.                       *)
LEMMA LoopEnds ==
  ASSUME NEW t, NEW a, a = stack[t][2].on, combinator[a] \in Kinds,
         NextDone(t) \/ \E e \in Reasons : NextThrows(t, e)
  PROVE  /\ InIterator(t)
         /\ \E fs : Settles(fs, a) /\ Leave(t, fs)
         /\ UNCHANGED <<created, state, result, reactions, lock, queue, exposed,
                        awaits, budget, combinator, remaining, results, element>>
<1>1. Plain \subseteq Value /\ Reasons \subseteq Value
  BY PromiseAssumption DEF Value
<1>2. Settles(Complete(a), a) /\ Settles(<<>>, a)
  BY <1>1, CompleteIs DEF Settles
<1>3. \A e \in Reasons : Settles(<<Call("reject", a, e)>>, a)
  BY <1>1 DEF Settles
<1>. QED  BY <1>2, <1>3 DEF NextDone, NextThrows

LEMMA LoopEndsInv ==
  ASSUME NEW K, Serves(K), IInv(K), NEW t \in Threads, Stacked(t),
         combinator[stack[t][2].on] \in Kinds,
         NextDone(t) \/ \E e \in Reasons : NextThrows(t, e)
  PROVE  IInv(K)'
<1>1. PICK a, fs : a = stack[t][2].on /\ Settles(fs, a) /\ Leave(t, fs)
  BY LoopEnds
<1>2. /\ InIterator(t)
      /\ UNCHANGED <<created, state, result, reactions, lock, queue, exposed, awaits, budget>>
  BY LoopEnds
<1>3. a \in Promises /\ a <= created
  BY <1>1, <1>2, LoopFrame
<1>4. fs \in Seq(FitFrame(K))
  BY <1>1, <1>3, SettlesTyped
<1>5. stack \in [Threads -> Seq(FitFrame(K))] /\ Len(stack[t]) > 1 /\ IsMore(K)
  BY <1>2 DEF IInv, InIterator, Serves
<1>6. stack' \in [Threads -> Seq(FitFrame(K))]
  BY <1>1, <1>4, <1>5, LeaveTyped DEF Leave
<1>7. exposed' \subseteq Existing \ K.own /\ budget' \in 0..MaxPromises /\ queue' \in Seq(FitJob(K))
  BY <1>2 DEF IInv, ScalarsOK
<1>. QED  BY <1>2, <1>5, <1>6, <1>7, StackStep

---------------------------------------------------------------------------
LEMMA AtLeastTwo ==
  ASSUME NEW n, n \in Nat /\ n >= 1 /\ n # 1
  PROVE  n >= 2
  OBVIOUS

(* The handler at the head of the stack, called with the outcome of the      *)
(* element, and under it the call that resolves the derived promise.        *)
LEMMA HandlerFrame ==
  ASSUME NEW K, Serves(K), IInv(K), NEW t \in Threads, Stacked(t),
         NEW kind \in {"onFulfilled", "onRejected"}, Running(t, kind),
         NEW q, q = Head(stack[t]).on, NEW L, L = Len(stack[t])
  PROVE  /\ stack[t] # <<>> /\ L \in Nat /\ L >= 2
         /\ q \in Promises /\ q <= created
         /\ FrameAt(t, L) = Head(stack[t]) /\ FrameAt(t, L - 1) = stack[t][2]
         /\ stack[t][2] = Call("resolve", q, Undefined)
         /\ \E n \in K.native :
              /\ n.fn = kind /\ n.on = q
              /\ kind = "onFulfilled" =>
                   state[n.src] = "Fulfilled" /\ result[n.src] = Head(stack[t]).value
              /\ kind = "onRejected" =>
                   state[n.src] = "Rejected" /\ result[n.src] = Head(stack[t]).value
              /\ n.src \in Promises
         /\ Head(stack[t]).value \in Value
<1>1. stack[t] # <<>> /\ stack[t] \in Seq(FitFrame(K)) /\ Head(stack[t]).kind = kind
  BY DEF Running, IInv
<1>2. L \in Nat /\ L >= 1
  BY <1>1, LenProperties
<1>3. FrameAt(t, L) = stack[t][1] /\ stack[t][1] = Head(stack[t])
  BY <1>1, <1>2 DEF FrameAt
<1>4. L >= 2
  <2>1. Handles(FrameAt(t, L))
    BY <1>1, <1>3 DEF Handles
  <2>2. ~ Handles(FrameAt(t, 1))
    <3>1. Len(stack[t]) # 0
      BY <1>2
    <3>. QED  BY <3>1 DEF Stacked
  <2>3. ASSUME L = 1  PROVE FALSE
    <3>1. FrameAt(t, L) = FrameAt(t, 1)
      BY <2>3
    <3>. QED  BY <2>1, <2>2, <3>1
  <2>4. L \in Nat /\ L >= 1 /\ L # 1
    BY <1>2, <2>3
  <2>. QED  BY <2>4, AtLeastTwo, Zenon
<1>5. PICK e : e = L - 1
  OBVIOUS
<1>6. e \in 1..(L - 1) /\ e + 1 = L /\ L + 1 - e = 2
  BY <1>2, <1>4, <1>5
<1>7. FrameAt(t, e) = stack[t][2]
  BY <1>6 DEF FrameAt
<1>8. Above(FrameAt(t, e + 1), FrameAt(t, e))
  BY <1>6 DEF Stacked
<1>9. stack[t][2] = Call("resolve", q, Undefined)
  BY <1>1, <1>3, <1>6, <1>7, <1>8 DEF Above, Handles
<1>10. Head(stack[t]) \in FitFrame(K)
  BY <1>1, HeadTailProperties
<1>11. Head(stack[t]) \in FitNative(K)
  BY <1>1, <1>10 DEF FitFrame, FitCall, FitScript, ScriptFrame
<1>12. /\ q \in Promises /\ q <= created /\ Head(stack[t]).value \in Value
       /\ \E n \in K.native :
            /\ n.fn = kind /\ n.on = q
            /\ n.how = "fulfilled" =>
                 state[n.src] = "Fulfilled" /\ result[n.src] = Head(stack[t]).value
            /\ n.how = "rejected" =>
                 state[n.src] = "Rejected" /\ result[n.src] = Head(stack[t]).value
  BY <1>1, <1>11 DEF FitNative
<1>13. PICK n \in K.native :
            /\ n.fn = kind /\ n.on = q
            /\ n.how = "fulfilled" =>
                 state[n.src] = "Fulfilled" /\ result[n.src] = Head(stack[t]).value
            /\ n.how = "rejected" =>
                 state[n.src] = "Rejected" /\ result[n.src] = Head(stack[t]).value
  BY <1>12
<1>14. /\ kind = "onFulfilled" => n.how = "fulfilled"
       /\ kind = "onRejected" => n.how = "rejected"
  BY <1>13 DEF Serves
<1>15. n.src \in Promises
  BY <1>14 DEF Serves, IsMore
<1>. QED  BY <1>1, <1>2, <1>3, <1>4, <1>5, <1>7, <1>9, <1>12, <1>13, <1>14, <1>15

(* What a handler does to the stack.                                       *)
LEMMA HandlerActs ==
  ASSUME NEW K, Serves(K), IInv(K), NEW t \in Threads, Stacked(t),
         NEW a, a = element[Head(stack[t]).on].of, combinator[a] \in Kinds,
         ElementFulfilled(t) \/ ElementRejected(t)
  PROVE  /\ Running(t, "onFulfilled") \/ Running(t, "onRejected")
         /\ \E fs : Settles(fs, a) /\ Replace(t, fs)
         /\ UNCHANGED <<created, state, result, reactions, lock, queue, exposed,
                        awaits, budget, combinator, phase, element>>
<1>1. Plain \subseteq Value
  BY PromiseAssumption DEF Value
<1>2. Settles(Complete(a), a) /\ Settles(<<>>, a)
  BY <1>1, CompleteIs DEF Settles
<1>3. CASE ElementFulfilled(t)
  <2>1. Running(t, "onFulfilled")
    BY <1>3 DEF ElementFulfilled
  <2>2. Head(stack[t]).value \in Plain
    <3>1. \E n \in K.native : /\ n.src \in Promises
             /\ state[n.src] = "Fulfilled" /\ result[n.src] = Head(stack[t]).value
      <4>1. PICK kind, q, L : kind = "onFulfilled" /\ q = Head(stack[t]).on /\ L = Len(stack[t])
        OBVIOUS
      <4>2. kind \in {"onFulfilled", "onRejected"} /\ Running(t, kind)
        BY <2>1, <4>1
      <4>3. \E n \in K.native :
              /\ n.fn = kind /\ n.on = q
              /\ kind = "onFulfilled" =>
                   state[n.src] = "Fulfilled" /\ result[n.src] = Head(stack[t]).value
              /\ kind = "onRejected" =>
                   state[n.src] = "Rejected" /\ result[n.src] = Head(stack[t]).value
              /\ n.src \in Promises
        BY <4>1, <4>2, HandlerFrame
      <4>. QED  BY <4>1, <4>3
    <3>. QED  BY <3>1 DEF IInv, FulfilledIsPlain
  <2>3. Settles(<<Call("resolve", a, Head(stack[t]).value)>>, a)
    BY <1>1, <2>2 DEF Settles
  <2>4. \E fs : Settles(fs, a) /\ Replace(t, fs)
    BY <1>2, <1>3, <2>3 DEF ElementFulfilled, Skip, Record, Decide
  <2>. QED  BY <1>3, <2>1, <2>4 DEF ElementFulfilled
<1>4. CASE ElementRejected(t)
  <2>1. Running(t, "onRejected")
    BY <1>4 DEF ElementRejected
  <2>2. Head(stack[t]).value \in Value
    BY <2>1, HandlerFrame
  <2>3. Settles(<<Call("reject", a, Head(stack[t]).value)>>, a)
    BY <2>2 DEF Settles
  <2>4. \E fs : Settles(fs, a) /\ Replace(t, fs)
    BY <1>2, <1>4, <2>3 DEF ElementRejected, Skip, Record, Decide
  <2>. QED  BY <1>4, <2>1, <2>4 DEF ElementRejected
<1>. QED  BY <1>3, <1>4

(* A handler records, decides or has nothing left to do.                    *)
LEMMA HandlerInv ==
  ASSUME NEW K, Serves(K), IInv(K), NEW t \in Threads, Stacked(t),
         NEW a \in Promises, a <= created,
         a = element[Head(stack[t]).on].of, combinator[a] \in Kinds,
         ElementFulfilled(t) \/ ElementRejected(t)
  PROVE  IInv(K)'
<1>1. PICK fs : Settles(fs, a) /\ Replace(t, fs)
  BY HandlerActs
<1>2. /\ Running(t, "onFulfilled") \/ Running(t, "onRejected")
      /\ UNCHANGED <<created, state, result, reactions, lock, queue, exposed, awaits, budget>>
  BY HandlerActs
<1>3. fs \in Seq(FitFrame(K))
  BY <1>1, SettlesTyped
<1>4. stack \in [Threads -> Seq(FitFrame(K))] /\ stack[t] # <<>> /\ IsMore(K)
  BY <1>2 DEF IInv, Running, Serves
<1>5. stack' \in [Threads -> Seq(FitFrame(K))]
  BY <1>1, <1>3, <1>4, ReplaceTyped DEF Replace
<1>6. exposed' \subseteq Existing \ K.own /\ budget' \in 0..MaxPromises /\ queue' \in Seq(FitJob(K))
  BY <1>2 DEF IInv, ScalarsOK
<1>. QED  BY <1>2, <1>4, <1>5, <1>6, StackStep

---------------------------------------------------------------------------
(* The frame holds no promise but those of X.                               *)
Apart(f, X) == \A q, i : InFrame(f, q, i) => q \in X

(* Frames of the combinators, and what settles an aggregate, hold no other  *)
(* promise.                                                                 *)
LEMMA ApartFrames ==
  ASSUME NEW X
  PROVE  /\ \A f : f.kind \in {"loop", "subscribe", "onFulfilled", "onRejected"} => Apart(f, X)
         /\ \A f : f.kind \in {"resolve", "reject"} /\ f.on \in X => Apart(f, X)
         /\ \A a \in X : Apart(Iterator(a), X)
         /\ \A a, v : Apart(Call("subscribe", a, v), X) /\ Apart(Loop(a), X)
         /\ \A a \in X : \A v : Apart(Call("resolve", a, v), X)
<1>1. \A f : f.kind \in {"loop", "subscribe", "onFulfilled", "onRejected"} => Apart(f, X)
  BY FrameHolds DEF Apart
<1>2. \A f : f.kind \in {"resolve", "reject"} /\ f.on \in X => Apart(f, X)
  BY FrameHolds DEF Apart
<1>3. \A a \in X : Apart(Iterator(a), X)
  BY ScriptHolds DEF Apart, Iterator
<1>4. \A a, v : /\ Call("subscribe", a, v).kind = "subscribe" /\ Loop(a).kind = "loop"
                /\ Call("resolve", a, v).kind = "resolve" /\ Call("resolve", a, v).on = a
  BY DEF Call, Loop
<1>. QED  BY <1>1, <1>2, <1>3, <1>4

LEMMA ApartNative ==
  ASSUME NEW f, NEW X, f.kind \in {"loop", "subscribe", "onFulfilled", "onRejected"}
  PROVE  Apart(f, X)
  BY FrameHolds DEF Apart

(* Who holds q stays the only one where the frames that change do not hold  *)
(* it.                                                                      *)
LEMMA TopSole ==
  ASSUME NEW t \in Threads, NEW b, NEW fs, TopChanged(t, b, fs), Len(stack[t]) \in Nat,
         UNCHANGED <<queue, reactions>>, NEW X,
         \A d \in (b + 1)..Len(stack[t]) : Apart(FrameAt(t, d), X),
         \A k \in 1..Len(fs) : Apart(fs[k], X),
         NEW q \in Promises, q \notin X, state'[q] = state[q], Sole(q)
  PROVE  Sole(q)'
<1>1. \A u \in Threads : \A d, i : InStack(q, u, d, i)' <=> InStack(q, u, d, i)
  <2>1. \A d \in (b + 1)..Len(stack[t]) : \A i : ~ InFrame(FrameAt(t, d), q, i)
    BY DEF Apart
  <2>2. \A k \in 1..Len(fs) : \A i : ~ InFrame(fs[k], q, i)
    BY DEF Apart
  <2>. QED  BY <2>1, <2>2, TopSame
<1>2. \A i : InQueue(q, i)' <=> InQueue(q, i)
  BY QueueSame
<1>3. \A p, i : InReactions(q, p, i)' <=> InReactions(q, p, i)
  BY ReactionsSame
<1>4. \A x, d, i : Holds(q, x, d, i)' <=> Holds(q, x, d, i)
  BY <1>1, <1>2, <1>3 DEF Holds
<1>. QED  BY <1>4, SameHolders

---------------------------------------------------------------------------
(* The frames that each action takes away and puts in their place.          *)
LEMMA CombineTop ==
  ASSUME NEW K, IInv(K), NEW t \in Threads, NEW k, Combine(t, k),
         NEW p, p = created + 1, NEW fs, NEW L, L = Len(stack[t])
  PROVE  fs = <<Iterator(p), Loop(p)>> =>
           /\ TopChanged(t, L, fs) /\ L \in Nat /\ Len(fs) = 2
           /\ fs[1] = Iterator(p) /\ fs[2] = Loop(p)
           /\ L # 0 => FrameAt(t, L).kind = "script"
<1>. SUFFICES ASSUME fs = <<Iterator(p), Loop(p)>>
              PROVE  /\ TopChanged(t, L, fs) /\ L \in Nat /\ Len(fs) = 2
                     /\ fs[1] = Iterator(p) /\ fs[2] = Loop(p)
                     /\ L # 0 => FrameAt(t, L).kind = "script"
  OBVIOUS
<1>1. stack \in [Threads -> Seq(FitFrame(K))] /\ stack' = [stack EXCEPT ![t] = fs \o @]
  BY DEF IInv, Combine
<1>2. fs \in Seq({Iterator(p), Loop(p)}) /\ Len(fs) = 2 /\ fs[1] = Iterator(p) /\ fs[2] = Loop(p)
  BY TwoSeq
<1>3. TopChanged(t, L, fs) /\ L \in Nat
  BY <1>1, <1>2, PushTop
<1>4. ASSUME L # 0  PROVE FrameAt(t, L).kind = "script"
  <2>1. stack[t] # <<>> /\ stack[t] \in Seq(FitFrame(K))
    BY <1>1, <1>4
  <2>2. FrameAt(t, L) = stack[t][1]
    BY <1>3 DEF FrameAt
  <2>3. stack[t][1] = Head(stack[t])
    BY <2>1
  <2>. QED  BY <2>1, <2>2, <2>3 DEF Combine, InScript, Running
<1>. QED  BY <1>2, <1>3, <1>4

(* Leaving the executor or its iterator takes away frames that hold no       *)
(* promise but the aggregate.                                              *)
LEMMA LeaveLoop ==
  ASSUME NEW K, Serves(K), IInv(K), NEW t \in Threads, Stacked(t), InIterator(t),
         NEW a, a = stack[t][2].on, NEW L, L = Len(stack[t]),
         NEW T, NEW fs \in Seq(T), Leave(t, fs)
  PROVE  /\ TopChanged(t, L - 2, fs)
         /\ \A d \in (L - 1)..L : Apart(FrameAt(t, d), K.own)
         /\ \A d \in (L - 1)..L : FrameAt(t, d) = Iterator(a) \/ d = L - 1
<1>1. /\ stack[t] # <<>> /\ L \in Nat /\ L >= 2 /\ a \in K.own
      /\ FrameAt(t, L) = Head(stack[t]) /\ FrameAt(t, L - 1) = stack[t][2]
      /\ Head(stack[t]) = Iterator(a)
  BY LoopFrame
<1>2. stack \in [Threads -> Seq(FitFrame(K))] /\ stack[t][2].kind = "loop"
  BY DEF IInv, InIterator
<1>3. TopChanged(t, L - 2, fs)
  BY <1>2, LeaveTop
<1>4. Apart(Iterator(a), K.own) /\ Apart(stack[t][2], K.own)
  <2>1. Apart(stack[t][2], K.own)
    BY <1>2, ApartNative
  <2>2. \A c \in K.own : Apart(Iterator(c), K.own)
    BY ApartFrames
  <2>. QED  BY <1>1, <2>1, <2>2
<1>5. \A d \in (L - 1)..L : d = L - 1 \/ d = L
  BY <1>1
<1>. QED  BY <1>1, <1>3, <1>4, <1>5

(* then() is replaced by the executor's iterator.                           *)
LEMMA SubscribeTop ==
  ASSUME NEW K, Serves(K), IInv(K), NEW t \in Threads, Stacked(t), Subscribe(t),
         NEW a, a = stack[t][2].on, NEW L, L = Len(stack[t]),
         NEW fs
  PROVE  fs = <<Iterator(a)>> =>
           /\ TopChanged(t, L - 1, fs) /\ L \in Nat /\ L >= 2 /\ Len(fs) = 1 /\ fs[1] = Iterator(a)
           /\ \A d \in L..L : Apart(FrameAt(t, d), K.own) /\ FrameAt(t, d).kind = "subscribe"
<1>. SUFFICES ASSUME fs = <<Iterator(a)>>
     PROVE /\ TopChanged(t, L - 1, fs) /\ L \in Nat /\ L >= 2 /\ Len(fs) = 1 /\ fs[1] = Iterator(a)
           /\ \A d \in L..L : Apart(FrameAt(t, d), K.own) /\ FrameAt(t, d).kind = "subscribe"
  OBVIOUS
<1>1. /\ stack \in [Threads -> Seq(FitFrame(K))] /\ Replace(t, fs)
      /\ Running(t, "subscribe")
  BY DEF IInv, Subscribe
<1>2. stack[t] # <<>> /\ L \in Nat /\ L >= 2 /\ FrameAt(t, L) = Head(stack[t])
  BY <1>1, LoopFrame
<1>3. fs \in Seq({Iterator(a)}) /\ Len(fs) = 1 /\ fs[1] = Iterator(a)
  OBVIOUS
<1>4. TopChanged(t, L - 1, fs)
  BY <1>1, <1>2, <1>3, ReplaceTop
<1>5. FrameAt(t, L).kind = "subscribe" /\ \A d \in L..L : d = L
  BY <1>1, <1>2 DEF Running
<1>6. Apart(FrameAt(t, L), K.own)
  BY <1>5, ApartNative
<1>. QED  BY <1>2, <1>3, <1>4, <1>5, <1>6

(* A handler is the top frame.                                              *)
LEMMA HandlerTop ==
  ASSUME NEW K, Serves(K), IInv(K), NEW t \in Threads, Stacked(t),
         Running(t, "onFulfilled") \/ Running(t, "onRejected"),
         NEW L, L = Len(stack[t]),
         NEW T, NEW fs \in Seq(T), Replace(t, fs)
  PROVE  /\ TopChanged(t, L - 1, fs) /\ L \in Nat /\ L >= 2
         /\ \A d \in L..L : Apart(FrameAt(t, d), K.own) /\ FrameAt(t, d) = Head(stack[t])
<1>1. stack \in [Threads -> Seq(FitFrame(K))]
  BY DEF IInv
<1>2. PICK kind \in {"onFulfilled", "onRejected"} : Running(t, kind)
  OBVIOUS
<1>3. stack[t] # <<>> /\ L \in Nat /\ L >= 2 /\ FrameAt(t, L) = Head(stack[t])
  BY <1>2, HandlerFrame
<1>4. TopChanged(t, L - 1, fs)
  BY <1>1, <1>3, ReplaceTop
<1>5. FrameAt(t, L).kind = kind /\ \A d \in L..L : d = L
  BY <1>2, <1>3 DEF Running
<1>6. Apart(FrameAt(t, L), K.own)
  BY <1>5, ApartNative
<1>. QED  BY <1>3, <1>4, <1>5, <1>6

---------------------------------------------------------------------------
(* A promise that exists after a step that makes at most one.                *)
LEMMA BornOrOld ==
  ASSUME ScalarsOK, NEW q, q \in Existing',
         created' = created \/ created' = created + 1
  PROVE  q \in Existing \/ (q = created + 1 /\ created' = created + 1)
  BY DEF Existing, ScalarsOK

(* Each action of the combinators keeps the sole settlers.                  *)
LEMMA CombineHolders ==
  ASSUME NEW K, Serves(K), HInv(K), created + 1 \in K.own,
         NEW t \in Threads, NEW k, Combine(t, k)
  PROVE  HInv(K)'
<1>1. PICK p, L : p = created + 1 /\ L = Len(stack[t])
  OBVIOUS
<1>2. PICK fs : fs = <<Iterator(p), Loop(p)>>
  OBVIOUS
<1>3. /\ IInv(K) /\ OwnersExposed(K) /\ IsMore(K) /\ p \in K.own /\ ScalarsOK
      /\ \A q \in Existing \ (exposed \cup K.own) : Sole(q)
  BY <1>1 DEF HInv, Serves, IInv
<1>4. /\ TopChanged(t, L, fs) /\ L \in Nat /\ Len(fs) = 2
      /\ fs[1] = Iterator(p) /\ fs[2] = Loop(p)
  BY <1>1, <1>2, <1>3, CombineTop
<1>5. /\ created < MaxPromises /\ created' = created + 1
      /\ state' = [state EXCEPT ![created + 1] = "Pending"]
      /\ UNCHANGED <<queue, reactions, exposed>>
  BY DEF Combine
<1>6. IInv(K)'
  BY <1>3, CombineInv
<1>7. Apart(Iterator(p), K.own) /\ Apart(Loop(p), K.own)
  BY <1>3, ApartFrames
<1>8. OwnersExposed(K)'
  <2>1. PICK X : X = exposed' \cup K.own
    OBVIOUS
  <2>2. Open(Iterator(p), X) /\ Open(Loop(p), X)
    BY <1>3, <2>1, NoOwner DEF Iterator, Loop
  <2>3. \A j \in 1..Len(fs) : Open(fs[j], X)
    BY <1>4, <2>2
  <2>4. exposed \subseteq exposed' /\ Len(stack[t]) \in Nat
    BY <1>1, <1>4, <1>5
  <2>. QED  BY <1>1, <1>3, <1>4, <2>1, <2>3, <2>4, TopOwners
<1>9. ASSUME NEW q, q \in (Existing \ (exposed \cup K.own))'  PROVE Sole(q)'
  <2>1. q \in Existing /\ q \notin exposed \cup K.own
    BY <1>1, <1>3, <1>5, <1>9, BornOrOld
  <2>2. q \in Promises /\ state'[q] = state[q] /\ Sole(q)
    BY <1>3, <1>5, <2>1, ExistingKept
  <2>3. \A j \in 1..Len(fs) : Apart(fs[j], K.own)
    BY <1>4, <1>7
  <2>4. \A d \in (L + 1)..Len(stack[t]) : Apart(FrameAt(t, d), K.own)
    BY <1>1, <1>4
  <2>5. q \notin K.own /\ Len(stack[t]) \in Nat
    BY <1>1, <1>4, <2>1
  <2>. QED  BY <1>4, <1>5, <2>2, <2>3, <2>4, <2>5, TopSole
<1>. QED  BY <1>6, <1>8, <1>9 DEF HInv

(* The executor's end.                                                      *)
LEMMA LoopEndsHolders ==
  ASSUME NEW K, Serves(K), HInv(K), NEW t \in Threads, Stacked(t),
         combinator[stack[t][2].on] \in Kinds,
         NextDone(t) \/ \E e \in Reasons : NextThrows(t, e)
  PROVE  HInv(K)'
<1>1. PICK a, L : a = stack[t][2].on /\ L = Len(stack[t])
  OBVIOUS
<1>2. PICK fs : Settles(fs, a) /\ Leave(t, fs)
  BY <1>1, LoopEnds
<1>3. /\ IInv(K) /\ OwnersExposed(K) /\ IsMore(K) /\ ScalarsOK
      /\ \A q \in Existing \ (exposed \cup K.own) : Sole(q)
  BY DEF HInv, Serves, IInv
<1>4. /\ InIterator(t)
      /\ UNCHANGED <<created, state, queue, reactions, exposed>>
  BY <1>1, LoopEnds
<1>5. IInv(K)'
  BY <1>3, LoopEndsInv
<1>6. a \in K.own /\ L \in Nat /\ L >= 2
  BY <1>1, <1>3, <1>4, LoopFrame
<1>7. PICK T : fs \in Seq(T)
  BY <1>2, SettlesSeq
<1>8. /\ TopChanged(t, L - 2, fs)
      /\ \A d \in (L - 1)..L : Apart(FrameAt(t, d), K.own)
  BY <1>1, <1>2, <1>3, <1>4, <1>7, LeaveLoop
<1>9. \A j \in 1..Len(fs) : fs[j].kind \in {"resolve", "reject"} /\ fs[j].on = a
  BY <1>2, SettlesSeq
<1>10. OwnersExposed(K)'
  <2>1. PICK X, b : X = exposed' \cup K.own /\ b = L - 2
    OBVIOUS
  <2>2. \A j \in 1..Len(fs) : Open(fs[j], X)
    BY <1>9 DEF Open
  <2>3. exposed \subseteq exposed' /\ Len(stack[t]) \in Nat
    BY <1>1, <1>4, <1>6
  <2>. QED  BY <1>3, <1>8, <2>1, <2>2, <2>3, TopOwners
<1>11. ASSUME NEW q, q \in (Existing \ (exposed \cup K.own))'  PROVE Sole(q)'
  <2>0. PICK b : b = L - 2
    OBVIOUS
  <2>1. q \in Existing /\ q \notin exposed \cup K.own
    BY <1>4, <1>11 DEF Existing
  <2>2. q \in Promises /\ state'[q] = state[q] /\ Sole(q)
    BY <1>3, <1>4, <2>1, Numbers
  <2>3. \A j \in 1..Len(fs) : Apart(fs[j], K.own)
    BY <1>6, <1>9, ApartFrames
  <2>4. \A d \in (b + 1)..Len(stack[t]) : Apart(FrameAt(t, d), K.own)
    <3>1. \A d \in (b + 1)..L : d \in (L - 1)..L
      BY <1>6, <2>0
    <3>. QED  BY <1>1, <1>8, <3>1
  <2>5. q \notin K.own /\ Len(stack[t]) \in Nat
    BY <1>1, <1>6, <2>1
  <2>. QED  BY <1>4, <1>8, <2>0, <2>2, <2>3, <2>4, <2>5, TopSole
<1>. QED  BY <1>5, <1>10, <1>11 DEF HInv

(* A handler runs; the call under it still is the only holder of the        *)
(* element.                                                                 *)
LEMMA HandlerHolders ==
  ASSUME NEW K, Serves(K), HInv(K), NEW t \in Threads, Stacked(t),
         NEW a \in Promises, a <= created, a \in K.own,
         a = element[Head(stack[t]).on].of, combinator[a] \in Kinds,
         ElementFulfilled(t) \/ ElementRejected(t)
  PROVE  HInv(K)'
<1>1. PICK L : L = Len(stack[t])
  OBVIOUS
<1>3. /\ IInv(K) /\ OwnersExposed(K) /\ IsMore(K) /\ ScalarsOK
      /\ \A q \in Existing \ (exposed \cup K.own) : Sole(q)
  BY DEF HInv, Serves, IInv
<1>2. PICK fs : Settles(fs, a) /\ Replace(t, fs)
  BY <1>3, HandlerActs
<1>4. /\ Running(t, "onFulfilled") \/ Running(t, "onRejected")
      /\ UNCHANGED <<created, state, queue, reactions, exposed>>
  BY <1>3, HandlerActs
<1>5. IInv(K)'
  BY <1>3, HandlerInv
<1>7. PICK T : fs \in Seq(T)
  BY <1>2, SettlesSeq
<1>8. /\ TopChanged(t, L - 1, fs) /\ L \in Nat /\ L >= 2
      /\ \A d \in L..L : Apart(FrameAt(t, d), K.own)
  BY <1>1, <1>2, <1>3, <1>4, <1>7, HandlerTop
<1>9. \A j \in 1..Len(fs) : fs[j].kind \in {"resolve", "reject"} /\ fs[j].on = a
  BY <1>2, SettlesSeq
<1>10. OwnersExposed(K)'
  <2>1. PICK X, b : X = exposed' \cup K.own /\ b = L - 1
    OBVIOUS
  <2>2. \A j \in 1..Len(fs) : Open(fs[j], X)
    BY <1>9 DEF Open
  <2>3. exposed \subseteq exposed' /\ Len(stack[t]) \in Nat
    BY <1>1, <1>4, <1>8
  <2>. QED  BY <1>3, <1>8, <2>1, <2>2, <2>3, TopOwners
<1>11. ASSUME NEW q, q \in (Existing \ (exposed \cup K.own))'  PROVE Sole(q)'
  <2>0. PICK b : b = L - 1
    OBVIOUS
  <2>1. q \in Existing /\ q \notin exposed \cup K.own
    BY <1>4, <1>11 DEF Existing
  <2>2. q \in Promises /\ state'[q] = state[q] /\ Sole(q)
    BY <1>3, <1>4, <2>1, Numbers
  <2>3. \A j \in 1..Len(fs) : Apart(fs[j], K.own)
    BY <1>9, ApartFrames
  <2>4. \A d \in (b + 1)..Len(stack[t]) : Apart(FrameAt(t, d), K.own)
    <3>1. \A d \in (b + 1)..L : d \in L..L
      BY <1>8, <2>0
    <3>. QED  BY <1>1, <1>8, <3>1
  <2>5. q \notin K.own /\ Len(stack[t]) \in Nat
    BY <1>1, <1>8, <2>1
  <2>. QED  BY <1>4, <1>8, <2>0, <2>2, <2>3, <2>4, <2>5, TopSole
<1>. QED  BY <1>5, <1>10, <1>11 DEF HInv

---------------------------------------------------------------------------
(* The promise that Promise.resolve makes is held by the call that resolves  *)
(* it.                                                                     *)
LEMMA BornSole ==
  ASSUME NEW K, IsMore(K), IInv(K), NEW q \in Promises, q = created + 1,
         state'[q] = "Pending", UNCHANGED <<queue, reactions>>,
         NEW t \in Threads, NEW b, NEW fs, TopChanged(t, b, fs), Len(stack[t]) \in Nat,
         NEW N, N = Len(fs), N \in Nat, N >= 1,
         fs[1].kind = "resolve", fs[1].on = q,
         \A k \in 2..N : \A i : ~ InFrame(fs[k], q, i)
  PROVE  Sole(q)'
<1>1. NoHolder(q)
  BY NoneHoldsNext
<1>2. /\ \A i : ~ InQueue(q, i)
      /\ \A y \in Promises : \A i : ~ InReactions(q, y, i)
      /\ \A u \in Threads : \A d, i : d # 0 => ~ InStack(q, u, d, i)
  BY <1>1 DEF NoHolder, Holds
<1>3. PICK e : e = b + N
  OBVIOUS
<1>4. b \in Nat /\ e # 0 /\ e = b + N + 1 - 1
  BY <1>3 DEF TopChanged
<1>5. \A i : InFrame(fs[1], q, i) <=> i = 0
  BY FrameHolds
<1>6. \A u \in Threads : \A d, i :
        InStack(q, u, d, i)' <=>
          \/ InStack(q, u, d, i) /\ ~(u = t /\ d > b)
          \/ u = t /\ \E k \in 1..N : d = b + N + 1 - k /\ InFrame(fs[k], q, i)
  BY TopPlaces
<1>7. \A u \in Threads : \A d, i : InStack(q, u, d, i) => d # 0
  BY DEF InStack
<1>8. \A u \in Threads : \A d, i : InStack(q, u, d, i)' => u = t /\ d = e /\ i = 0
  <2>. SUFFICES ASSUME NEW u \in Threads, NEW d, NEW i, InStack(q, u, d, i)'
                PROVE  u = t /\ d = e /\ i = 0
    OBVIOUS
  <2>1. ~ InStack(q, u, d, i)
    BY <1>2, <1>7
  <2>2. PICK k \in 1..N : u = t /\ d = b + N + 1 - k /\ InFrame(fs[k], q, i)
    BY <1>6, <2>1
  <2>3. k \in 2..N \/ k = 1
    OBVIOUS
  <2>4. k = 1
    BY <2>2, <2>3
  <2>. QED  BY <1>4, <1>5, <2>2, <2>4
<1>9. InStack(q, t, e, 0)'
  <2>1. 1 \in 1..N /\ InFrame(fs[1], q, 0)
    BY <1>5
  <2>. QED  BY <1>4, <1>6, <2>1
<1>10. Holds(q, t, e, 0)'
  BY <1>4, <1>9 DEF Holds
<1>11. ASSUME NEW y, NEW d, NEW j, Holds(q, y, d, j)'
       PROVE  y = t /\ d = e /\ j = 0
  <2>1. /\ \A i : ~ InQueue(q, i)'
        /\ \A p, i : InReactions(q, p, i)' <=> InReactions(q, p, i)
    BY <1>2, QueueSame, ReactionsSame
  <2>2. y \in Threads /\ InStack(q, y, d, j)'
    BY <1>2, <1>11, <2>1 DEF Holds
  <2>. QED  BY <1>8, <2>2
<1>. QED  BY <1>10, <1>11 DEF Sole, OneHolder

LEMMA NextValueHolders ==
  ASSUME NEW K, Serves(K), HInv(K), NextIsFree(K), NEW t \in Threads, Stacked(t),
         NEW v \in ElementValues, NextValue(t, v)
  PROVE  HInv(K)'
<1>1. PICK a, L, b : a = stack[t][2].on /\ L = Len(stack[t]) /\ b = L - 2
  OBVIOUS
<1>2. /\ IInv(K) /\ OwnersExposed(K) /\ IsMore(K) /\ ScalarsOK
      /\ \A q \in Existing \ (exposed \cup K.own) : Sole(q)
  BY DEF HInv, Serves, IInv
<1>3. InIterator(t) /\ UNCHANGED <<queue, reactions, exposed>>
  BY DEF NextValue
<1>4. IInv(K)'
  BY <1>2, NextValueInv
<1>5. a \in K.own /\ L \in Nat /\ L >= 2 /\ b \in Nat
  BY <1>1, <1>2, <1>3, LoopFrame
<1>6. PICK X : X = exposed' \cup K.own
  OBVIOUS
<1>7. ASSUME NEW fs, NEW T, fs \in Seq(T), Leave(t, fs)
      PROVE  /\ TopChanged(t, b, fs)
             /\ \A d \in (b + 1)..Len(stack[t]) : Apart(FrameAt(t, d), K.own)
             /\ Len(stack[t]) \in Nat
  <2>1. /\ TopChanged(t, L - 2, fs)
        /\ \A d \in (L - 1)..L : Apart(FrameAt(t, d), K.own)
    BY <1>1, <1>2, <1>3, <1>7, LeaveLoop
  <2>2. \A d \in (b + 1)..L : d \in (L - 1)..L
    BY <1>1, <1>5
  <2>. QED  BY <1>1, <1>5, <2>1, <2>2
<1>8. CASE /\ v \in Promises /\ Leave(t, <<Call("subscribe", v, Undefined), Loop(a)>>)
           /\ UNCHANGED <<created, state>>
  <2>1. PICK f, g : f = Call("subscribe", v, Undefined) /\ g = Loop(a)
    OBVIOUS
  <2>2. PICK fs : fs = <<f, g>>
    OBVIOUS
  <2>3. fs \in Seq({f, g}) /\ Len(fs) = 2 /\ fs[1] = f /\ fs[2] = g /\ Leave(t, fs)
    BY <1>8, <2>1, <2>2, TwoSeq
  <2>4. /\ TopChanged(t, b, fs) /\ Len(stack[t]) \in Nat
        /\ \A d \in (b + 1)..Len(stack[t]) : Apart(FrameAt(t, d), K.own)
    BY <1>7, <2>3
  <2>5. \A k \in 1..Len(fs) : Apart(fs[k], K.own) /\ Open(fs[k], X)
    <3>1. f.kind = "subscribe" /\ g.kind = "loop"
      BY <2>1 DEF Call, Loop
    <3>2. \A k \in 1..Len(fs) : fs[k].kind \in {"loop", "subscribe"}
      BY <2>3, <3>1
    <3>. QED  BY <3>2, ApartNative DEF Open
  <2>6. OwnersExposed(K)'
    <3>1. exposed \subseteq exposed'
      BY <1>3
    <3>. QED  BY <1>2, <1>6, <2>4, <2>5, <3>1, TopOwners
  <2>7. ASSUME NEW q, q \in (Existing \ (exposed \cup K.own))'  PROVE Sole(q)'
    <3>1. q \in Existing /\ q \notin exposed \cup K.own
      BY <1>3, <1>8, <2>7 DEF Existing
    <3>2. q \in Promises /\ state'[q] = state[q] /\ Sole(q) /\ q \notin K.own
      BY <1>2, <1>8, <3>1, Numbers
    <3>. QED  BY <1>3, <2>4, <2>5, <3>2, TopSole
  <2>. QED  BY <1>4, <2>6, <2>7 DEF HInv
<1>9. CASE /\ v \notin Promises /\ created < MaxPromises
           /\ created' = created + 1
           /\ state' = [state EXCEPT ![created + 1] = "Pending"]
           /\ Leave(t, <<Call("resolve", created + 1, v),
                         Call("subscribe", created + 1, Undefined), Loop(a)>>)
  <2>0. PICK p : p = created + 1
    OBVIOUS
  <2>1. PICK f, g, h : f = Call("resolve", p, v) /\ g = Call("subscribe", p, Undefined) /\ h = Loop(a)
    OBVIOUS
  <2>2. PICK fs : fs = <<f, g, h>>
    OBVIOUS
  <2>3. /\ fs \in Seq({f, g, h}) /\ Len(fs) = 3
        /\ fs[1] = f /\ fs[2] = g /\ fs[3] = h /\ Leave(t, fs)
    BY <1>9, <2>0, <2>1, <2>2, ThreeSeq
  <2>4. /\ TopChanged(t, b, fs) /\ Len(stack[t]) \in Nat
        /\ \A d \in (b + 1)..Len(stack[t]) : Apart(FrameAt(t, d), K.own)
    BY <1>7, <2>3
  <2>5. f.kind = "resolve" /\ f.on = p /\ g.kind = "subscribe" /\ h.kind = "loop"
    BY <2>1 DEF Call, Loop
  <2>6. \A k \in 1..Len(fs) : Open(fs[k], X)
    BY <2>3, <2>5 DEF Open
  <2>7. OwnersExposed(K)'
    <3>1. exposed \subseteq exposed'
      BY <1>3
    <3>. QED  BY <1>2, <1>6, <2>4, <2>6, <3>1, TopOwners
  <2>8. p \in Promises
    BY <1>2, <1>9, <2>0, Numbers
  <2>9. ASSUME NEW q, q \in (Existing \ (exposed \cup K.own))'  PROVE Sole(q)'
    <3>1. q \in Existing \/ q = p
      BY <1>2, <1>9, <2>0, <2>9, BornOrOld
    <3>2. CASE q = p
      <4>1. state'[q] = "Pending"
        BY <1>2, <1>9, <2>0, <2>8, <3>2 DEF ScalarsOK
      <4>2. \A k \in 2..3 : \A i : ~ InFrame(fs[k], q, i)
        <5>1. \A k \in 2..3 : fs[k].kind \in {"loop", "subscribe"}
          BY <2>3, <2>5
        <5>. QED  BY <5>1, FrameHolds
      <4>3. PICK N : N = 3 /\ N = Len(fs) /\ N \in Nat /\ N >= 1
        BY <2>3
      <4>. QED  BY <1>2, <1>3, <2>0, <2>3, <2>4, <2>5, <2>8, <3>2, <4>1, <4>2, <4>3, BornSole
    <3>3. CASE q # p
      <4>1. PICK Y : Y = K.own \cup {p}
        OBVIOUS
      <4>2. q \in Existing /\ q \notin exposed \cup K.own /\ q \notin Y
        BY <1>3, <2>9, <3>1, <3>3, <4>1
      <4>3. q \in Promises /\ state'[q] = state[q] /\ Sole(q)
        BY <1>2, <1>9, <4>2, ExistingKept
      <4>4. \A k \in 1..Len(fs) : Apart(fs[k], Y)
        <5>1. Apart(f, Y) /\ Apart(g, Y) /\ Apart(h, Y)
          <6>1. Apart(g, Y) /\ Apart(h, Y)
            BY <2>5, ApartNative
          <6>2. f.kind \in {"resolve", "reject"} /\ f.on \in Y
            BY <2>5, <4>1
          <6>3. \A e : e.kind \in {"resolve", "reject"} /\ e.on \in Y => Apart(e, Y)
            BY ApartFrames
          <6>. QED  BY <6>1, <6>2, <6>3
        <5>. QED  BY <2>3, <5>1
      <4>5. \A d \in (b + 1)..Len(stack[t]) : Apart(FrameAt(t, d), Y)
        BY <2>4, <4>1 DEF Apart
      <4>. QED  BY <1>3, <2>4, <4>2, <4>3, <4>4, <4>5, TopSole
    <3>. QED  BY <3>2, <3>3
  <2>. QED  BY <1>4, <2>7, <2>9 DEF HInv
<1>. QED  BY <1>1, <1>8, <1>9 DEF NextValue

(* The promise of the element's then() is held by the reaction or the job.  *)
LEMMA SubscribeHolders ==
  ASSUME NEW K, Serves(K), HInv(K), created + 1 \notin K.own, NEW t \in Threads, Stacked(t),
         NEW s, s = created + 1, NEW p, p = Head(stack[t]).on,
         \E n \in K.native : n.fn = "onFulfilled" /\ n.on = s /\ n.src = p,
         \E n \in K.native : n.fn = "onRejected" /\ n.on = s /\ n.src = p,
         Subscribe(t)
  PROVE  HInv(K)'
<1>1. PICK a, L, b, f, g : /\ a = stack[t][2].on /\ L = Len(stack[t]) /\ b = L - 1
                           /\ f = OnFulfilled(s) /\ g = OnRejected(s)
  OBVIOUS
<1>2. /\ IInv(K) /\ OwnersExposed(K) /\ IsMore(K) /\ ScalarsOK
      /\ \A q \in Existing \ (exposed \cup K.own) : Sole(q)
  BY DEF HInv, Serves, IInv
<1>3. Running(t, "subscribe") /\ UNCHANGED exposed /\ Register(p, f, g)
  BY <1>1 DEF Subscribe
<1>4. IInv(K)'
  BY <1>2, SubscribeKeepsInv
<1>5. a \in K.own /\ p \in Promises
  BY <1>1, <1>2, <1>3, LoopFrame
<1>6. PICK fs : fs = <<Iterator(a)>>
  OBVIOUS
<1>7. /\ TopChanged(t, b, fs) /\ L \in Nat /\ L >= 2 /\ Len(fs) = 1 /\ fs[1] = Iterator(a)
      /\ \A d \in L..L : Apart(FrameAt(t, d), K.own)
  BY <1>1, <1>2, <1>6, SubscribeTop
<1>8. /\ Len(stack[t]) \in Nat
      /\ \A d \in (b + 1)..Len(stack[t]) : Apart(FrameAt(t, d), K.own)
      /\ \A k \in 1..Len(fs) : Apart(fs[k], K.own)
  <2>1. \A d \in (b + 1)..L : d \in L..L
    BY <1>1, <1>7
  <2>2. Apart(Iterator(a), K.own)
    BY <1>5, ApartFrames
  <2>. QED  BY <1>1, <1>7, <2>1, <2>2
<1>9. OwnersExposed(K)'
  <2>1. PICK X : X = exposed' \cup K.own
    OBVIOUS
  <2>2. \A k \in 1..Len(fs) : Open(fs[k], X)
    BY <1>5, <1>7, <2>1, NoOwner DEF Iterator
  <2>3. exposed \subseteq exposed'
    BY <1>3
  <2>. QED  BY <1>2, <1>7, <1>8, <2>1, <2>2, <2>3, TopOwners
<1>10. /\ created < MaxPromises /\ created' = created + 1
       /\ state' = [state EXCEPT ![created + 1] = "Pending"] /\ s \in Promises
  BY <1>2, <1>3, Numbers DEF Register
<1>11. ASSUME NEW q, q \in (Existing \ (exposed \cup K.own))'  PROVE Sole(q)'
  <2>1. q \in Existing \/ q = s
    BY <1>2, <1>10, <1>11, BornOrOld
  <2>2. q \in Promises /\ q \notin K.own /\ q \notin exposed
    BY <1>2, <1>3, <1>10, <1>11, <2>1, Numbers
  <2>3. \A u \in Threads : \A d, i : InStack(q, u, d, i)' <=> InStack(q, u, d, i)
    <3>1. \A d \in (b + 1)..Len(stack[t]) : \A i : ~ InFrame(FrameAt(t, d), q, i)
      BY <1>8, <2>2 DEF Apart
    <3>2. \A k \in 1..Len(fs) : \A i : ~ InFrame(fs[k], q, i)
      BY <1>8, <2>2 DEF Apart
    <3>. QED  BY <1>7, <1>8, <3>1, <3>2, TopSame
  <2>4. f.on = s /\ g.on = s
    BY <1>1 DEF OnFulfilled, OnRejected
  <2>5. PICK x \in Promises \cup {NoPromise}, n \in Nat :
        /\ \A i : InQueue(q, i)' <=>
             \/ InQueue(q, i)
             \/ x = NoPromise /\ i = n /\ q \in {created + 1, f.on}
        /\ \A y \in Promises : \A i : InReactions(q, y, i)' <=>
             \/ InReactions(q, y, i)
             \/ y = x /\ i = n /\ q \in {created + 1, f.on}
        /\ ~ Holds(q, x, 0, n)
    <3>1. f.on = g.on /\ (f.on = q /\ q # created + 1 => f = ResolveFn(q))
      BY <2>4
    <3>. QED  BY <1>2, <1>3, <1>5, <2>2, <3>1, RegisterPlaces
  <2>6. CASE q # s
    <3>1. state'[q] = state[q] /\ Sole(q)
      BY <1>2, <1>10, <2>1, <2>2, <2>6, ExistingKept
    <3>2. \A y, d, i : Holds(q, y, d, i)' <=> Holds(q, y, d, i)
      BY <2>3, <2>4, <2>5, <2>6 DEF Holds
    <3>. QED  BY <2>2, <3>1, <3>2, SameHolders
  <2>7. CASE q = s
    <3>1. NoHolder(q)
      BY <1>2, <2>2, <2>7, NoneHoldsNext
    <3>2. \A u \in Threads : \A d, i : InStack(q, u, d, i)' => ~(d # 0)
      BY <2>3, <3>1 DEF NoHolder, Holds
    <3>3. state'[q] = "Pending"
      BY <1>2, <1>10, <2>7 DEF ScalarsOK
    <3>4. q = created + 1
      BY <2>7
    <3>. QED  BY <1>2, <2>2, <2>5, <3>2, <3>3, <3>4, DerivedSole
  <2>. QED  BY <2>6, <2>7
<1>. QED  BY <1>4, <1>9, <1>11 DEF HInv

---------------------------------------------------------------------------
(* The frames of the executors and what they need.                          *)
ExecInv == (\A t \in Threads : Stacked(t)) /\ OneLoop /\ SubscribeInv

(* A step that keeps the executors where they are, and their elements.       *)
LEMMA KeepsExec ==
  ASSUME NEW t \in Threads, Keeps(t), ExecInv, UNCHANGED element,
         \A a \in Promises : Len(results'[a]) = Len(results[a])
  PROVE  ExecInv'
<1>1. \A u \in Threads : Stacked(u)'
  BY OtherStacked DEF Keeps, ExecInv
<1>2. OneLoop'
  BY DEF Keeps, ExecInv, OneLoop
<1>3. ASSUME NEW a \in Promises, NEW u \in Threads, NEW d, SubscribeAt(a, u, d)'
      PROVE  (Len(results[a]) # 0 /\ Awaited(a, Len(results[a])))'
  <2>1. SubscribeAt(a, u, d)
    BY <1>3 DEF Keeps
  <2>2. Len(results[a]) # 0 /\ Awaited(a, Len(results[a]))
    <3>1. SubscribeInv
      BY DEF ExecInv
    <3>. QED  BY <2>1, <3>1 DEF SubscribeInv
  <2>3. Len(results'[a]) = Len(results[a])
    OBVIOUS
  <2>5. \A i : Awaited(a, i) <=> \A q \in Promises : element[q] # NoElement => element[q].of # a \/ element[q].index # i
    BY DEF Awaited, IsElement
  <2>6. Awaited(a, Len(results[a]))' <=>
          \A q \in Promises : element'[q] # NoElement =>
            element'[q].of # a \/ element'[q].index # Len(results'[a])
    BY DEF Awaited, IsElement
  <2>. QED  BY <2>2, <2>3, <2>5, <2>6
<1>4. SubscribeInv'
  BY <1>3 DEF SubscribeInv
<1>. QED  BY <1>1, <1>2, <1>4 DEF ExecInv

(* The executors' frames after a step that changes the top of a stack, and   *)
(* the calls of then(): none comes but where one of fs is.                  *)
LoopsAfter(t, b, fs, N) ==
  \A x : \A u \in Threads : \A d :
    LoopAt(x, u, d)' <=>
      \/ LoopAt(x, u, d) /\ (u # t \/ d <= b)
      \/ u = t /\ \E k \in 1..N : d = b + N + 1 - k /\ fs[k].kind = "loop" /\ fs[k].on = x

SubscribesAfter(t, b, fs, N) ==
  \A x : \A u \in Threads : \A d :
    SubscribeAt(x, u, d)' =>
      \/ SubscribeAt(x, u, d) /\ (u # t \/ d + 1 <= b)
      \/ u = t /\ \E k \in 1..N : d + 1 = b + N + 1 - k /\ fs[k].kind = "subscribe"

LEMMA TopLoops ==
  ASSUME NEW t \in Threads, NEW b, NEW fs, TopChanged(t, b, fs), Len(stack[t]) \in Nat,
         NEW N, N = Len(fs)
  PROVE  LoopsAfter(t, b, fs, N)
<1>1. /\ \A u \in Threads : \A d : d \in 1..Len(stack'[u]) =>
              \/ (u # t \/ d <= b) /\ d \in 1..Len(stack[u]) /\ FrameAt(u, d)' = FrameAt(u, d)
              \/ u = t /\ d > b /\ \E k \in 1..N : d = b + N + 1 - k /\ FrameAt(u, d)' = fs[k]
      /\ \A u \in Threads : \A d : d \in 1..Len(stack[u]) /\ (u # t \/ d <= b) =>
              d \in 1..Len(stack'[u]) /\ FrameAt(u, d)' = FrameAt(u, d)
      /\ \A k \in 1..N : \A d : d = b + N + 1 - k =>
              d \in 1..Len(stack'[t]) /\ FrameAt(t, d)' = fs[k]
  BY TopFrames
<1>. SUFFICES ASSUME NEW x, NEW u \in Threads, NEW d
              PROVE  LoopAt(x, u, d)' <=>
                       \/ LoopAt(x, u, d) /\ (u # t \/ d <= b)
                       \/ u = t /\ \E k \in 1..N : d = b + N + 1 - k /\ fs[k].kind = "loop" /\ fs[k].on = x
  BY DEF LoopsAfter
<1>2. LoopAt(x, u, d)' <=> /\ d \in 1..Len(stack'[u])
                           /\ (FrameAt(u, d)').kind = "loop" /\ (FrameAt(u, d)').on = x
  BY DEF LoopAt
<1>3. ASSUME LoopAt(x, u, d)'
      PROVE  \/ LoopAt(x, u, d) /\ (u # t \/ d <= b)
             \/ u = t /\ \E k \in 1..N : d = b + N + 1 - k /\ fs[k].kind = "loop" /\ fs[k].on = x
  <2>1. d \in 1..Len(stack'[u]) /\ (FrameAt(u, d)').kind = "loop" /\ (FrameAt(u, d)').on = x
    BY <1>2, <1>3
  <2>2. CASE (u # t \/ d <= b) /\ d \in 1..Len(stack[u]) /\ FrameAt(u, d)' = FrameAt(u, d)
    BY <2>1, <2>2 DEF LoopAt
  <2>3. CASE u = t /\ \E k \in 1..N : d = b + N + 1 - k /\ FrameAt(u, d)' = fs[k]
    BY <2>1, <2>3
  <2>. QED  BY <1>1, <2>1, <2>2, <2>3
<1>4. ASSUME LoopAt(x, u, d), u # t \/ d <= b  PROVE LoopAt(x, u, d)'
  BY <1>1, <1>2, <1>4 DEF LoopAt
<1>5. ASSUME NEW k \in 1..N, u = t, d = b + N + 1 - k, fs[k].kind = "loop", fs[k].on = x
      PROVE  LoopAt(x, u, d)'
  BY <1>1, <1>2, <1>5
<1>. QED  BY <1>3, <1>4, <1>5

LEMMA TopSubscribes ==
  ASSUME NEW t \in Threads, NEW b, NEW fs, TopChanged(t, b, fs), Len(stack[t]) \in Nat,
         NEW N, N = Len(fs)
  PROVE  SubscribesAfter(t, b, fs, N)
<1>. SUFFICES ASSUME NEW x, NEW u \in Threads, NEW d, SubscribeAt(x, u, d)'
     PROVE  \/ SubscribeAt(x, u, d) /\ (u # t \/ d + 1 <= b)
            \/ u = t /\ \E k \in 1..N : d + 1 = b + N + 1 - k /\ fs[k].kind = "subscribe"
  BY DEF SubscribesAfter
<1>1. /\ LoopAt(x, u, d)' /\ d + 1 \in 1..Len(stack'[u]) /\ d \in 1..Len(stack'[u])
      /\ (FrameAt(u, d + 1)').kind = "subscribe"
  BY DEF SubscribeAt, LoopAt
<1>2. PICK e : e = d + 1
  OBVIOUS
<1>3. \/ (u # t \/ e <= b) /\ e \in 1..Len(stack[u]) /\ FrameAt(u, e)' = FrameAt(u, e)
      \/ u = t /\ e > b /\ \E k \in 1..N : e = b + N + 1 - k /\ FrameAt(u, e)' = fs[k]
  BY <1>1, <1>2, TopFrames
<1>4. CASE (u # t \/ e <= b) /\ e \in 1..Len(stack[u]) /\ FrameAt(u, e)' = FrameAt(u, e)
  <2>1. u # t \/ d <= b
    BY <1>1, <1>2, <1>4 DEF TopChanged
  <2>2. LoopAt(x, u, d)
    <3>1. u = t => ~ \E k \in 1..N : d = b + N + 1 - k
      BY <1>1, <2>1 DEF TopChanged
    <3>2. LoopsAfter(t, b, fs, N)
      BY TopLoops
    <3>. QED  BY <1>1, <3>1, <3>2 DEF LoopsAfter
  <2>3. SubscribeAt(x, u, d)
    BY <1>1, <1>2, <1>4, <2>2 DEF SubscribeAt
  <2>. QED  BY <1>2, <1>4, <2>3
<1>5. CASE u = t /\ \E k \in 1..N : e = b + N + 1 - k /\ FrameAt(u, e)' = fs[k]
  BY <1>1, <1>2, <1>5
<1>. QED  BY <1>3, <1>4, <1>5

(* An executor was called by a script or by the embedder.                   *)
LEMMA UnderLoop ==
  ASSUME NEW t \in Threads, Stacked(t), NEW b \in Nat, b # 0, b + 2 = Len(stack[t]),
         FrameAt(t, b + 1).kind = "loop"
  PROVE  FrameAt(t, b).kind # "loop" /\ ~ Handles(FrameAt(t, b))
<1>1. b \in 1..(Len(stack[t]) - 1)
  OBVIOUS
<1>2. Above(FrameAt(t, b + 1), FrameAt(t, b))
  BY <1>1 DEF Stacked
<1>3. FrameAt(t, b + 1) # Iterator(FrameAt(t, b).on)
  BY DEF Iterator, Script
<1>. QED  BY <1>2, <1>3 DEF Above

---------------------------------------------------------------------------
LEMMA CombineExec ==
  ASSUME NEW K, Serves(K), IInv(K), ExecInv, NEW t \in Threads, NEW k, Combine(t, k)
  PROVE  ExecInv'
<1>1. PICK p, L : p = created + 1 /\ L = Len(stack[t])
  OBVIOUS
<1>2. PICK fs : fs = <<Iterator(p), Loop(p)>>
  OBVIOUS
<1>3. /\ TopChanged(t, L, fs) /\ L \in Nat /\ Len(fs) = 2
      /\ fs[1] = Iterator(p) /\ fs[2] = Loop(p)
      /\ L # 0 => FrameAt(t, L).kind = "script"
  BY <1>1, <1>2, CombineTop
<1>4. /\ fs[1].kind = "script" /\ fs[2].kind = "loop" /\ fs[2].on = p
      /\ UNCHANGED <<results, element>>
  BY <1>3 DEF Iterator, Script, Loop, Call, Combine
<1>n. PICK N : N = Len(fs)
  OBVIOUS
<1>5. N = 2
  BY <1>3, <1>n
<1>6. Stacked(t)'
  <2>1. L # 0 => Above(fs[N], FrameAt(t, L))
    BY <1>3, <1>4, <1>5 DEF Above, Handles
  <2>2. \A j \in 1..(N - 1) : Above(fs[j], fs[j + 1])
    <3>1. Above(fs[1], fs[2])
      BY <1>3, <1>4 DEF Above, Handles
    <3>2. \A j \in 1..(N - 1) : j = 1 /\ j + 1 = 2
      BY <1>5
    <3>. QED  BY <3>1, <3>2
  <2>3. /\ N # 0 => fs[1].kind # "loop"
        /\ N = 0 /\ L # 0 => FrameAt(t, L).kind # "loop"
        /\ N # 0 /\ L = 0 => fs[N].kind # "subscribe" /\ ~ Handles(fs[N])
        /\ N # 0 /\ L # 0 => Above(fs[N], FrameAt(t, L))
    BY <1>4, <1>5, <2>1 DEF Handles
  <2>4. Stacked(t) /\ Len(stack[t]) \in Nat
    BY <1>1, <1>3 DEF ExecInv
  <2>. QED  BY <1>3, <1>n, <2>2, <2>3, <2>4, TopStacked
<1>7. \A u \in Threads : Stacked(u)'
  BY <1>3, <1>6, OtherStacked DEF ExecInv, TopChanged
<1>8. \A x : \A u \in Threads : \A d :
        LoopAt(x, u, d)' <=> \/ LoopAt(x, u, d) /\ (u # t \/ d <= L)
                             \/ u = t /\ d = L + 1 /\ x = p
  <2>1. Len(stack[t]) \in Nat
    BY <1>1, <1>3
  <2>2. LoopsAfter(t, L, fs, N)
    BY <1>3, <1>n, <2>1, TopLoops
  <2>3. \A j \in 1..N : j = 1 \/ j = 2
    BY <1>5
  <2>4. \A x, d : (\E j \in 1..N : d = L + N + 1 - j /\ fs[j].kind = "loop" /\ fs[j].on = x)
                    <=> d = L + 1 /\ x = p
    <3>1. 2 \in 1..N /\ L + N + 1 - 2 = L + 1
      BY <1>3, <1>5
    <3>. QED  BY <1>4, <2>3, <3>1
  <2>. QED  BY <2>2, <2>4 DEF LoopsAfter
<1>9. \A u \in Threads : \A d : ~ LoopAt(p, u, d)
  <2>. SUFFICES ASSUME NEW u \in Threads, NEW d, LoopAt(p, u, d)  PROVE FALSE
    OBVIOUS
  <2>1. d \in 1..Len(stack[u]) /\ FrameAt(u, d).kind = "loop" /\ FrameAt(u, d).on = p
    BY DEF LoopAt
  <2>2. stack[u] \in Seq(FitFrame(K)) /\ ScalarsOK
    BY DEF IInv
  <2>3. FrameAt(u, d) \in FitFrame(K)
    <3>1. PICK j : j = Len(stack[u]) + 1 - d
      OBVIOUS
    <3>2. j \in 1..Len(stack[u])
      BY <2>1, <2>2, <3>1, LenProperties
    <3>3. stack[u][j] \in FitFrame(K)
      BY <2>2, <3>2, ElementOfSeq
    <3>. QED  BY <3>1, <3>3 DEF FrameAt
  <2>4. FrameAt(u, d) \in FitNative(K)
    BY <2>1, <2>3 DEF FitFrame, FitCall, FitScript, ScriptFrame
  <2>. QED  BY <1>1, <2>1, <2>2, <2>4, Numbers DEF FitNative
<1>10. OneLoop'
  BY <1>8, <1>9 DEF OneLoop, ExecInv
<1>11. ASSUME NEW x \in Promises, NEW u \in Threads, NEW d, SubscribeAt(x, u, d)'
       PROVE  SubscribeAt(x, u, d)
  <2>0. Len(stack[t]) \in Nat
    BY <1>1, <1>3
  <2>1. SubscribesAfter(t, L, fs, N)
    BY <2>0, <1>3, <1>n, TopSubscribes
  <2>2. \A j \in 1..N : fs[j].kind # "subscribe"
    BY <1>4, <1>5
  <2>. QED  BY <1>11, <2>1, <2>2 DEF SubscribesAfter
<1>12. SubscribeInv'
  BY <1>4, <1>11 DEF SubscribeInv, ExecInv, Awaited, IsElement
<1>. QED  BY <1>7, <1>10, <1>12 DEF ExecInv

---------------------------------------------------------------------------
(* The executor goes on with an element: a value that is no promise is       *)
(* resolved before.                                                        *)
Resumes(fs, N, a) ==
  /\ N \in {2, 3} /\ fs[N] = Loop(a) /\ fs[N - 1].kind = "subscribe"
  /\ N = 3 => fs[1].kind = "resolve"

LEMMA ResumesExec ==
  ASSUME ExecInv, SlotsInv, ElementsInv, NEW t \in Threads, NEW a \in Promises,
         NEW L \in Nat, NEW b \in Nat, NEW N, NEW fs, b = L - 2, N = Len(fs), L = Len(stack[t]),
         TopChanged(t, b, fs), Resumes(fs, N, a),
         LoopAt(a, t, L - 1), ~ LoopAt(a, t, L), FrameAt(t, L).kind # "loop",
         UNCHANGED element, results' = [results EXCEPT ![a] = Append(@, Hole)]
  PROVE  ExecInv'
<1>1. L >= 2 /\ b + 1 = L - 1 /\ b + 2 = L /\ Len(stack[t]) \in Nat
  BY DEF TopChanged
<1>2. /\ N \in {2, 3} /\ N # 0 /\ N - 1 # 0
      /\ fs[N].kind = "loop" /\ fs[N].on = a /\ fs[N - 1].kind = "subscribe"
      /\ \A k \in 1..N : k # N => fs[k].kind # "loop"
      /\ \A k \in 1..N : k # N - 1 => fs[k].kind # "subscribe"
      /\ N = 3 => fs[1].kind = "resolve" /\ fs[2].kind = "subscribe"
  <2>1. CASE N = 2
    BY <2>1 DEF Resumes, Loop, Call
  <2>2. CASE N = 3
    BY <2>2 DEF Resumes, Loop, Call
  <2>. QED  BY <2>1, <2>2 DEF Resumes
<1>3. Stacked(t)'
  <2>1. Stacked(t)
    BY DEF ExecInv
  <2>2. \A k \in 1..(N - 1) : Above(fs[k], fs[k + 1])
    <3>1. Above(fs[N - 1], fs[N])
      BY <1>2 DEF Above, Handles
    <3>2. N = 3 => Above(fs[1], fs[2])
      BY <1>2 DEF Above, Handles
    <3>3. CASE N = 2
      <4>1. \A k \in 1..(N - 1) : k = 1
        BY <3>3
      <4>. QED  BY <3>1, <3>3, <4>1
    <3>4. CASE N = 3
      <4>1. \A k \in 1..(N - 1) : k = 1 \/ k = 2
        BY <3>4
      <4>. QED  BY <3>1, <3>2, <3>4, <4>1
    <3>. QED  BY <1>2, <3>3, <3>4
  <2>3. N # 0 => fs[1].kind # "loop"
    BY <1>2
  <2>4. N # 0 /\ b # 0 => Above(fs[N], FrameAt(t, b))
    <3>. SUFFICES ASSUME b # 0  PROVE Above(fs[N], FrameAt(t, b))
      OBVIOUS
    <3>1. FrameAt(t, b + 1).kind = "loop"
      BY <1>1 DEF LoopAt
    <3>2. b + 2 = Len(stack[t])
      BY <1>1
    <3>3. FrameAt(t, b).kind # "loop" /\ ~ Handles(FrameAt(t, b))
      BY <2>1, <3>1, <3>2, UnderLoop
    <3>. QED  BY <1>2, <3>3 DEF Above, Handles
  <2>5. /\ N = 0 /\ b # 0 => FrameAt(t, b).kind # "loop"
        /\ N # 0 /\ b = 0 => fs[N].kind # "subscribe" /\ ~ Handles(fs[N])
    BY <1>2 DEF Handles
  <2>. QED  BY <1>1, <2>1, <2>2, <2>3, <2>4, <2>5, TopStacked
<1>4. \A u \in Threads : Stacked(u)'
  BY <1>3, OtherStacked DEF ExecInv, TopChanged
<1>5. LoopsAfter(t, b, fs, N) /\ SubscribesAfter(t, b, fs, N)
  <2>1. LoopsAfter(t, b, fs, N)
    BY <1>1, TopLoops
  <2>. QED  BY <1>1, <2>1, TopSubscribes
<1>6. \A x : \A u \in Threads : \A d : LoopAt(x, u, d)' <=> LoopAt(x, u, d)
  <2>. SUFFICES ASSUME NEW x, NEW u \in Threads, NEW d
                PROVE  LoopAt(x, u, d)' <=> LoopAt(x, u, d)
    OBVIOUS
  <2>1. (\E k \in 1..N : d = b + N + 1 - k /\ fs[k].kind = "loop" /\ fs[k].on = x)
           <=> d = L - 1 /\ x = a
    <3>1. N \in 1..N /\ b + N + 1 - N = L - 1
      BY <1>1, <1>2
    <3>. QED  BY <1>2, <3>1
  <2>2. LoopAt(x, u, d)' <=> \/ LoopAt(x, u, d) /\ (u # t \/ d <= b)
                             \/ u = t /\ d = L - 1 /\ x = a
    BY <1>5, <2>1 DEF LoopsAfter
  <2>3. LoopAt(x, u, d) /\ ~(u # t \/ d <= b) => u = t /\ d = L - 1 /\ x = a
    <3>. SUFFICES ASSUME LoopAt(x, t, d), u = t, ~(d <= b)  PROVE d = L - 1 /\ x = a
      OBVIOUS
    <3>1. d \in 1..L /\ FrameAt(t, d).kind = "loop" /\ FrameAt(t, d).on = x
      BY DEF LoopAt
    <3>2. d = L - 1 \/ d = L
      BY <1>1, <3>1
    <3>3. d # L
      BY <3>1
    <3>4. FrameAt(t, L - 1).on = a
      BY DEF LoopAt
    <3>. QED  BY <3>1, <3>2, <3>3, <3>4
  <2>. QED  BY <2>2, <2>3
<1>7. OneLoop'
  BY <1>6 DEF OneLoop, ExecInv
<1>8. ASSUME NEW x \in Promises, NEW u \in Threads, NEW d, SubscribeAt(x, u, d)'
      PROVE  (Len(results[x]) # 0 /\ Awaited(x, Len(results[x])))'
  <2>1. \/ SubscribeAt(x, u, d) /\ (u # t \/ d + 1 <= b)
        \/ u = t /\ d = L - 1
    <3>1. \/ SubscribeAt(x, u, d) /\ (u # t \/ d + 1 <= b)
          \/ u = t /\ \E k \in 1..N : d + 1 = b + N + 1 - k /\ fs[k].kind = "subscribe"
      BY <1>5, <1>8 DEF SubscribesAfter
    <3>2. ASSUME NEW k \in 1..N, d + 1 = b + N + 1 - k, fs[k].kind = "subscribe"
          PROVE  d = L - 1
      <4>1. k = N - 1 /\ d \in 1..Len(stack'[u])
        BY <1>2, <1>8, <3>2 DEF SubscribeAt, LoopAt
      <4>2. d + 1 = b + 2
        BY <1>2, <3>2, <4>1
      <4>. QED  BY <1>1, <4>1, <4>2
    <3>. QED  BY <3>1, <3>2
  <2>2. results \in [Promises -> Seq({Hole} \cup [status : {"fulfilled", "rejected"}, value : Value])]
    BY DEF SlotsInv
  <2>3. CASE SubscribeAt(x, u, d) /\ (u # t \/ d + 1 <= b)
    <3>1. Len(results[x]) # 0 /\ Awaited(x, Len(results[x]))
      BY <2>3 DEF ExecInv, SubscribeInv
    <3>2. x # a
      <4>. SUFFICES ASSUME x = a  PROVE FALSE
        OBVIOUS
      <4>1. LoopAt(a, u, d) /\ d \in 1..Len(stack[u])
        BY <2>3 DEF SubscribeAt, LoopAt
      <4>2. u = t /\ d = L - 1
        BY <4>1 DEF ExecInv, OneLoop
      <4>. QED  BY <1>1, <2>3, <4>1, <4>2
    <3>3. results'[x] = results[x]
      BY <2>2, <3>2
    <3>. QED  BY <3>1, <3>3 DEF Awaited, IsElement
  <2>4. CASE u = t /\ d = L - 1
    <3>1. LoopAt(x, u, d)
      BY <1>6, <1>8 DEF SubscribeAt
    <3>2. x = a
      BY <2>4, <3>1 DEF LoopAt
    <3>3. results'[a] = Append(results[a], Hole) /\ Len(results'[a]) = Len(results[a]) + 1
          /\ Len(results[a]) \in Nat
      BY <2>2
    <3>4. \A q \in Promises : IsElement(q) /\ element[q].of = a => element[q].index \in 1..Len(results[a])
      BY DEF ElementsInv
    <3>5. \A q \in Promises : IsElement(q) => element[q].of # a \/ element[q].index # Len(results'[a])
      BY <3>3, <3>4
    <3>. QED  BY <3>2, <3>3, <3>5 DEF Awaited, IsElement
  <2>. QED  BY <2>1, <2>3, <2>4
<1>9. SubscribeInv'
  BY <1>8 DEF SubscribeInv
<1>. QED  BY <1>4, <1>7, <1>9 DEF ExecInv

(* The iterator yields a value: its slot is new, so no element has it.      *)
LEMMA NextValueExec ==
  ASSUME NEW K, Serves(K), IInv(K), ExecInv, SlotsInv, ElementsInv, NEW t \in Threads,
         NEW v \in ElementValues, NextValue(t, v)
  PROVE  ExecInv'
<1>1. PICK a, L, b : a = stack[t][2].on /\ L = Len(stack[t]) /\ b = L - 2
  OBVIOUS
<1>2. Stacked(t) /\ InIterator(t)
  BY DEF NextValue, ExecInv
<1>3. /\ a \in Promises /\ L \in Nat /\ L >= 2 /\ b \in Nat
      /\ LoopAt(a, t, L - 1) /\ FrameAt(t, L) = Iterator(a)
  BY <1>1, <1>2, LoopFrame
<1>4. FrameAt(t, L).kind # "loop" /\ ~ LoopAt(a, t, L)
  BY <1>3 DEF LoopAt, Iterator, Script
<1>5. UNCHANGED element /\ results' = [results EXCEPT ![a] = Append(@, Hole)]
  BY <1>1 DEF NextValue
<1>6. ASSUME NEW fs, NEW T, fs \in Seq(T), Leave(t, fs), Resumes(fs, Len(fs), a)
      PROVE  ExecInv'
  <2>1. TopChanged(t, L - 2, fs)
    BY <1>1, <1>2, <1>6, LeaveLoop
  <2>2. PICK N : N = Len(fs)
    OBVIOUS
  <2>. QED  BY <1>1, <1>3, <1>4, <1>5, <1>6, <2>1, <2>2, ResumesExec
<1>7. CASE Leave(t, <<Call("subscribe", v, Undefined), Loop(a)>>)
  <2>1. PICK f, g : f = Call("subscribe", v, Undefined) /\ g = Loop(a)
    OBVIOUS
  <2>2. PICK fs : fs = <<f, g>>
    OBVIOUS
  <2>3. fs \in Seq({f, g}) /\ Len(fs) = 2 /\ fs[1] = f /\ fs[2] = g /\ Leave(t, fs)
    BY <1>7, <2>1, <2>2, TwoSeq
  <2>4. Resumes(fs, Len(fs), a)
    BY <2>1, <2>3 DEF Resumes, Call
  <2>. QED  BY <1>6, <2>3, <2>4
<1>8. CASE Leave(t, <<Call("resolve", created + 1, v),
                      Call("subscribe", created + 1, Undefined), Loop(a)>>)
  <2>1. PICK f, g, h : /\ f = Call("resolve", created + 1, v)
                       /\ g = Call("subscribe", created + 1, Undefined) /\ h = Loop(a)
    OBVIOUS
  <2>2. PICK fs : fs = <<f, g, h>>
    OBVIOUS
  <2>3. /\ fs \in Seq({f, g, h}) /\ Len(fs) = 3
        /\ fs[1] = f /\ fs[2] = g /\ fs[3] = h /\ Leave(t, fs)
    BY <1>8, <2>1, <2>2, ThreeSeq
  <2>4. Resumes(fs, Len(fs), a)
    BY <2>1, <2>3 DEF Resumes, Call
  <2>. QED  BY <1>6, <2>3, <2>4
<1>. QED  BY <1>1, <1>7, <1>8 DEF NextValue

---------------------------------------------------------------------------
(* The element takes the slot that was made for it.                         *)
LEMMA SubscribeExec ==
  ASSUME NEW K, Serves(K), IInv(K), ExecInv, NEW t \in Threads, Subscribe(t)
  PROVE  ExecInv'
<1>1. PICK a, L, b, p : /\ a = stack[t][2].on /\ L = Len(stack[t]) /\ b = L - 1
                        /\ p = Head(stack[t]).on
  OBVIOUS
<1>2. Stacked(t) /\ Running(t, "subscribe") /\ UNCHANGED results
  BY DEF Subscribe, ExecInv
<1>3. PICK fs : fs = <<Iterator(a)>>
  OBVIOUS
<1>4. /\ TopChanged(t, b, fs) /\ L \in Nat /\ L >= 2 /\ Len(fs) = 1 /\ fs[1] = Iterator(a)
      /\ FrameAt(t, L).kind = "subscribe"
  <2>1. /\ TopChanged(t, L - 1, fs) /\ L \in Nat /\ L >= 2 /\ Len(fs) = 1 /\ fs[1] = Iterator(a)
        /\ \A d \in L..L : FrameAt(t, d).kind = "subscribe"
    BY <1>1, <1>2, <1>3, SubscribeTop
  <2>2. L \in L..L
    BY <2>1
  <2>. QED  BY <1>1, <2>1, <2>2
<1>5. /\ a \in Promises /\ LoopAt(a, t, b)
  BY <1>1, <1>2, LoopFrame
<1>6. /\ element' = [element EXCEPT ![created + 1] =
           [of |-> a, index |-> Len(results[a]), src |-> p]]
  BY <1>1 DEF Subscribe
<1>n. PICK N : N = Len(fs)
  OBVIOUS
<1>7. /\ N = 1 /\ b \in Nat /\ b # 0 /\ b + 1 = L /\ Len(stack[t]) \in Nat
      /\ fs[N] = Iterator(a) /\ fs[N].kind = "script"
  BY <1>1, <1>4, <1>n DEF Iterator, Script
<1>8. Stacked(t)'
  <2>1. Above(fs[N], FrameAt(t, b))
    BY <1>5, <1>7 DEF Above, LoopAt, Handles
  <2>2. /\ N # 0 => fs[1].kind # "loop"
        /\ N = 0 /\ b # 0 => FrameAt(t, b).kind # "loop"
        /\ N # 0 /\ b = 0 => fs[N].kind # "subscribe" /\ ~ Handles(fs[N])
        /\ N # 0 /\ b # 0 => Above(fs[N], FrameAt(t, b))
    BY <1>7, <2>1
  <2>3. \A k \in 1..(N - 1) : Above(fs[k], fs[k + 1])
    BY <1>7
  <2>. QED  BY <1>2, <1>4, <1>7, <1>n, <2>2, <2>3, TopStacked
<1>9. \A u \in Threads : Stacked(u)'
  BY <1>4, <1>8, OtherStacked DEF ExecInv, TopChanged
<1>10. LoopsAfter(t, b, fs, N) /\ SubscribesAfter(t, b, fs, N)
  <2>1. LoopsAfter(t, b, fs, N)
    BY <1>4, <1>7, <1>n, TopLoops
  <2>2. SubscribesAfter(t, b, fs, N)
    BY <1>4, <1>7, <1>n, TopSubscribes
  <2>. QED  BY <2>1, <2>2
<1>11. \A k \in 1..N : fs[k].kind = "script"
  BY <1>7
<1>12. \A x : \A u \in Threads : \A d : LoopAt(x, u, d)' => LoopAt(x, u, d)
  BY <1>10, <1>11 DEF LoopsAfter
<1>13. OneLoop'
  BY <1>12 DEF OneLoop, ExecInv
<1>14. ASSUME NEW x \in Promises, NEW u \in Threads, NEW d, SubscribeAt(x, u, d)'
       PROVE  (Len(results[x]) # 0 /\ Awaited(x, Len(results[x])))'
  <2>1. SubscribeAt(x, u, d) /\ (u # t \/ d + 1 <= b)
    BY <1>10, <1>11, <1>14 DEF SubscribesAfter
  <2>2. Len(results[x]) # 0 /\ Awaited(x, Len(results[x]))
    BY <2>1 DEF ExecInv, SubscribeInv
  <2>3. x # a
    <3>. SUFFICES ASSUME x = a  PROVE FALSE
      OBVIOUS
    <3>1. LoopAt(a, u, d) /\ d \in 1..Len(stack[u])
      BY <2>1 DEF SubscribeAt, LoopAt
    <3>2. u = t /\ d = b
      BY <1>5, <3>1 DEF ExecInv, OneLoop
    <3>. QED  BY <1>7, <2>1, <3>1, <3>2
  <2>4. \A q \in Promises : \/ element'[q] = element[q]
                            \/ element'[q].of = a
    BY <1>6
  <2>5. \A i : Awaited(x, i) <=> \A q \in Promises : element[q] # NoElement => element[q].of # x \/ element[q].index # i
    BY DEF Awaited, IsElement
  <2>6. Awaited(x, Len(results[x]))' <=>
          \A q \in Promises : element'[q] # NoElement =>
            element'[q].of # x \/ element'[q].index # Len(results'[x])
    BY DEF Awaited, IsElement
  <2>. QED  BY <1>2, <2>2, <2>3, <2>4, <2>5, <2>6
<1>15. SubscribeInv'
  BY <1>14 DEF SubscribeInv
<1>. QED  BY <1>9, <1>13, <1>15 DEF ExecInv

(* The executor's frame goes.                                               *)
LEMMA LoopEndsExec ==
  ASSUME NEW K, Serves(K), IInv(K), ExecInv, NEW t \in Threads,
         combinator[stack[t][2].on] \in Kinds,
         NextDone(t) \/ \E e \in Reasons : NextThrows(t, e)
  PROVE  ExecInv'
<1>1. PICK a, L, b : a = stack[t][2].on /\ L = Len(stack[t]) /\ b = L - 2
  OBVIOUS
<1>2. PICK fs : Settles(fs, a) /\ Leave(t, fs)
  BY <1>1, LoopEnds
<1>3. Stacked(t) /\ InIterator(t) /\ UNCHANGED <<results, element>>
  BY LoopEnds DEF ExecInv
<1>4. /\ a \in Promises /\ L \in Nat /\ L >= 2 /\ LoopAt(a, t, L - 1)
  BY <1>1, <1>3, LoopFrame
<1>5. PICK T : fs \in Seq(T)
  BY <1>2, SettlesSeq
<1>6. TopChanged(t, L - 2, fs)
  BY <1>1, <1>3, <1>2, <1>5, LeaveLoop
<1>n. PICK N : N = Len(fs)
  OBVIOUS
<1>7. /\ TopChanged(t, b, fs) /\ b \in Nat /\ b + 2 = Len(stack[t]) /\ b + 1 = L - 1
      /\ Len(stack[t]) \in Nat
  BY <1>1, <1>4, <1>6
<1>8. /\ N \in Nat
      /\ \A k \in 1..N : fs[k].kind \in {"resolve", "reject"} /\ N = 1
  BY <1>2, <1>n, SettlesSeq
<1>9. Stacked(t)'
  <2>1. b # 0 => FrameAt(t, b).kind # "loop" /\ ~ Handles(FrameAt(t, b))
    <3>1. FrameAt(t, b + 1).kind = "loop"
      BY <1>4, <1>7 DEF LoopAt
    <3>. QED  BY <1>3, <1>7, <3>1, UnderLoop
  <2>2. N # 0 => 1 \in 1..N /\ N = 1 /\ fs[1].kind \in {"resolve", "reject"}
    <3>1. N # 0 => 1 \in 1..N
      BY <1>8
    <3>. QED  BY <1>8, <3>1
  <2>3. N # 0 /\ b # 0 => Above(fs[N], FrameAt(t, b))
    BY <2>1, <2>2 DEF Above, Handles
  <2>4. /\ N # 0 => fs[1].kind # "loop"
        /\ N = 0 /\ b # 0 => FrameAt(t, b).kind # "loop"
        /\ N # 0 /\ b = 0 => fs[N].kind # "subscribe" /\ ~ Handles(fs[N])
        /\ N # 0 /\ b # 0 => Above(fs[N], FrameAt(t, b))
    BY <2>1, <2>2, <2>3 DEF Handles
  <2>5. \A k \in 1..(N - 1) : Above(fs[k], fs[k + 1])
    BY <1>8, <2>2
  <2>. QED  BY <1>3, <1>7, <1>n, <2>4, <2>5, TopStacked
<1>10. \A u \in Threads : Stacked(u)'
  BY <1>7, <1>9, OtherStacked DEF ExecInv, TopChanged
<1>11. LoopsAfter(t, b, fs, N) /\ SubscribesAfter(t, b, fs, N)
  <2>1. LoopsAfter(t, b, fs, N)
    BY <1>7, <1>n, TopLoops
  <2>2. SubscribesAfter(t, b, fs, N)
    BY <1>7, <1>n, TopSubscribes
  <2>. QED  BY <2>1, <2>2
<1>12. \A k \in 1..N : fs[k].kind \notin {"loop", "subscribe"}
  BY <1>8
<1>13. \A x : \A u \in Threads : \A d : LoopAt(x, u, d)' => LoopAt(x, u, d)
  BY <1>11, <1>12 DEF LoopsAfter
<1>14. \A x : \A u \in Threads : \A d : SubscribeAt(x, u, d)' => SubscribeAt(x, u, d)
  BY <1>11, <1>12 DEF SubscribesAfter
<1>15. OneLoop'
  BY <1>13 DEF OneLoop, ExecInv
<1>16. SubscribeInv'
  BY <1>3, <1>14 DEF SubscribeInv, ExecInv, Awaited, IsElement
<1>. QED  BY <1>10, <1>15, <1>16 DEF ExecInv

(* The handlers and all the steps of Promise leave the executors alone.      *)
LEMMA HandlerExec ==
  ASSUME NEW K, Serves(K), IInv(K), ExecInv, NEW t \in Threads,
         NEW a, a = element[Head(stack[t]).on].of, combinator[a] \in Kinds,
         ElementFulfilled(t) \/ ElementRejected(t),
         \A x \in Promises : Len(results'[x]) = Len(results[x])
  PROVE  ExecInv'
<1>1. Stacked(t)
  BY DEF ExecInv
<1>2. PICK fs : Settles(fs, a) /\ Replace(t, fs)
  BY <1>1, HandlerActs
<1>3. /\ Running(t, "onFulfilled") \/ Running(t, "onRejected")
      /\ UNCHANGED element
  BY <1>1, HandlerActs
<1>4. PICK T : fs \in Seq(T)
  BY <1>2, SettlesSeq
<1>5. Fine(fs)
  <2>1. \A k \in 1..Len(fs) : fs[k].kind \in {"resolve", "reject"}
    BY <1>2, SettlesSeq
  <2>. QED  BY <2>1 DEF Fine, Handles
<1>6. stack \in [Threads -> Seq(FitFrame(K))] /\ stack[t] # <<>>
  BY <1>3 DEF IInv, Running
<1>7. Head(stack[t]).kind # "subscribe" /\ ~ InIterator(t)
  BY <1>3 DEF InIterator, Running
<1>8. Keeps(t)
  BY <1>1, <1>2, <1>4, <1>5, <1>6, <1>7, FineReplace
<1>. QED  BY <1>3, <1>8, KeepsExec

LEMMA PromiseExec ==
  ASSUME NEW K, Serves(K), IInv(K), ExecInv, NEW t \in Threads,
         \/ Api(t) \/ Native(t) \/ ProcessMicrotasks(t)
         \/ ~ InIterator(t) /\ EndScript(t),
         UNCHANGED <<element, results>>
  PROVE  ExecInv'
<1>1. Keeps(t)
  BY PromiseKeeps DEF ExecInv
<1>2. \A x \in Promises : Len(results'[x]) = Len(results[x])
  OBVIOUS
<1>. QED  BY <1>1, <1>2, KeepsExec

---------------------------------------------------------------------------
PromiseStep(t) ==
  \/ Api(t) \/ Native(t) \/ ProcessMicrotasks(t)
  \/ ~ InIterator(t) /\ EndScript(t)

(* No step of Promise forgets a promise or gives room back.                 *)
LEMMA PromiseGrows ==
  ASSUME ScalarsOK, NEW t \in Threads, PromiseStep(t)
  PROVE  Existing \subseteq Existing' /\ budget' <= budget /\ budget' \in Int
<1>1. /\ created \in Nat /\ budget \in Nat /\ budget <= budget
      /\ \A v : Cost(v) \in {0, 1}
  BY Numbers DEF ScalarsOK, Cost
<1>2. created' = created \/ created' = created + 1
  BY DEF PromiseStep, Api, NewPromise, CallResolve, CallReject, CallThen, Register, Native,
         Resolve, Reject, Enqueue, RunReaction, RunThen, EndBatch, ProcessMicrotasks, EndScript,
         ReturnIgnored, ReturnValue, ReturnFinally, ReturnFinallyPromise, Throw
<1>3. budget' = budget \/ budget' = budget - 1 \/ budget' = budget - 2
        \/ \E v : budget' = budget - Cost(v)
  BY DEF PromiseStep, Api, NewPromise, CallResolve, CallReject, CallThen, Native,
         Resolve, Reject, Enqueue, RunReaction, RunThen, EndBatch, ProcessMicrotasks, EndScript,
         ReturnIgnored, ReturnValue, ReturnFinally, ReturnFinallyPromise, Throw
<1>. QED  BY <1>1, <1>2, <1>3 DEF Existing

(* The empty slots of a list that grows by one, or has one filled.           *)
LEMMA HolesFinite ==
  ASSUME NEW S, NEW s \in Seq(S)
  PROVE  IsFiniteSet(Holes(s)) /\ Holes(s) \subseteq 1..Len(s) /\ Cardinality(Holes(s)) \in Nat
<1>1. IsFiniteSet(1..Len(s))
  BY FS_Interval
<1>2. Holes(s) \in SUBSET (1..Len(s))
  BY DEF Holes
<1>. QED  BY <1>1, <1>2, FS_Subset, FS_CardinalityType

LEMMA HoleAdded ==
  ASSUME NEW S, NEW s \in Seq(S), NEW x \in S, x = Hole
  PROVE  Cardinality(Holes(Append(s, x))) = Cardinality(Holes(s)) + 1
<1>1. PICK z : z = Append(s, x)
  OBVIOUS
<1>2. /\ Len(z) = Len(s) + 1 /\ z[Len(s) + 1] = x /\ Len(s) \in Nat
      /\ \A i \in 1..Len(s) : z[i] = s[i]
  BY <1>1, AppendProperties
<1>3. Holes(z) = Holes(s) \cup {Len(s) + 1}
  BY <1>2 DEF Holes
<1>4. Len(s) + 1 \notin Holes(s)
  BY <1>2 DEF Holes
<1>. QED  BY <1>1, <1>3, <1>4, HolesFinite, FS_AddElement

LEMMA HoleFilled ==
  ASSUME NEW S, NEW s \in Seq(S), NEW i \in 1..Len(s), s[i] = Hole, NEW x, x # Hole
  PROVE  Cardinality(Holes([s EXCEPT ![i] = x])) = Cardinality(Holes(s)) - 1
<1>1. PICK z : z = [s EXCEPT ![i] = x]
  OBVIOUS
<1>2. Len(z) = Len(s) /\ z[i] = x /\ \A j \in 1..Len(s) : j # i => z[j] = s[j]
  BY <1>1
<1>3. Holes(z) = Holes(s) \ {i}
  BY <1>2 DEF Holes
<1>4. i \in Holes(s)
  BY DEF Holes
<1>. QED  BY <1>1, <1>3, <1>4, HolesFinite, FS_RemoveElement

---------------------------------------------------------------------------
Entries == {Hole} \cup [status : {"fulfilled", "rejected"}, value : Value]

(* No step of Promise touches slots or elements.                            *)
LEMMA PromiseSlots ==
  ASSUME ScalarsOK, SlotsInv, ElementsInv, NEW t \in Threads, PromiseStep(t),
         CombUnchanged
  PROVE  SlotsInv' /\ ElementsInv'
<1>1. Existing \subseteq Existing' /\ budget' <= budget /\ budget' \in Int
  BY PromiseGrows
<1>2. UNCHANGED <<combinator, phase, remaining, decided, results, element>>
  BY DEF CombUnchanged
<1>3. budget \in Nat /\ MaxPromises \in Nat /\ \A a \in Promises : Len(results[a]) \in Nat
  BY PromiseAssumption DEF ScalarsOK, SlotsInv
<1>4. \A a \in Promises : Len(results'[a]) + budget' <= MaxPromises
  BY <1>1, <1>2, <1>3 DEF SlotsInv
<1>5. SlotsInv'
  <2>1. Aggregates' \subseteq Existing'
    BY <1>1, <1>2 DEF SlotsInv, Aggregates
  <2>2. \A a \in Promises : remaining'[a] = Cardinality(Holes(results'[a]))
    BY <1>2 DEF SlotsInv
  <2>. QED  BY <1>2, <1>4, <2>1, <2>2 DEF SlotsInv, Holes
<1>6. ElementsInv'
  BY <1>1, <1>2 DEF ElementsInv, IsElement, Aggregates, Awaited
<1>. QED  BY <1>5, <1>6

(* An aggregate begins without slots.                                       *)
LEMMA CombineSlots ==
  ASSUME ScalarsOK, SlotsInv, ElementsInv, NEW t \in Threads, NEW k \in Kinds, Combine(t, k)
  PROVE  SlotsInv' /\ ElementsInv'
<1>1. PICK p : p = created + 1
  OBVIOUS
<1>2. /\ created' = p /\ budget >= 1 /\ budget' = budget - 1 /\ budget \in Nat /\ created \in Nat
      /\ combinator' = [combinator EXCEPT ![p] = k]
      /\ phase' = [phase EXCEPT ![p] = "loop"]
      /\ UNCHANGED <<remaining, decided, results, element>>
      /\ p \in Promises /\ p \notin Existing /\ Existing' = Existing \cup {p}
  BY <1>1, Numbers DEF Combine, ScalarsOK, Existing
<1>3. MaxPromises \in Nat /\ \A a \in Promises : Len(results[a]) \in Nat
  BY PromiseAssumption DEF SlotsInv
<1>4. \A q \in Promises : q # p => combinator'[q] = combinator[q]
  BY <1>2 DEF SlotsInv
<1>5. Aggregates' \subseteq Aggregates \cup {p} /\ Aggregates \subseteq Aggregates'
  <2>1. combinator[p] = "none"
    BY <1>2 DEF SlotsInv, Aggregates
  <2>. QED  BY <1>4, <2>1 DEF Aggregates
<1>6. SlotsInv'
  <2>1. combinator' \in [Promises -> Kinds \cup {"none"}]
    BY <1>2 DEF SlotsInv
  <2>2. phase' \in [Promises -> {"none", "loop", "done", "threw"}]
    BY <1>2 DEF SlotsInv
  <2>3. /\ decided' \in [Promises -> BOOLEAN] /\ remaining' \in [Promises -> Nat]
        /\ results' \in [Promises -> Seq({Hole} \cup [status : {"fulfilled", "rejected"}, value : Value])]
    BY <1>2 DEF SlotsInv
  <2>4. \A a \in Promises : /\ remaining'[a] = Cardinality(Holes(results'[a]))
                            /\ Len(results'[a]) + budget' <= MaxPromises
    BY <1>2, <1>3 DEF SlotsInv
  <2>5. Aggregates' \subseteq Existing'
    BY <1>2, <1>5 DEF SlotsInv
  <2>. QED  BY <2>1, <2>2, <2>3, <2>4, <2>5 DEF SlotsInv, Holes
<1>7. ElementsInv'
  <2>1. \A q \in Promises : IsElement(q) => q # p
    BY <1>2 DEF ElementsInv
  <2>2. \A q : IsElement(q)' <=> IsElement(q)
    BY <1>2 DEF IsElement
  <2>3. \A a, i : Awaited(a, i)' <=> Awaited(a, i)
    BY <1>2, <2>2 DEF Awaited
  <2>. QED  BY <1>2, <1>5, <2>1, <2>2, <2>3 DEF ElementsInv
<1>. QED  BY <1>6, <1>7

(* The executor's end leaves the slots as they are.                         *)
LEMMA LoopEndsSlots ==
  ASSUME ScalarsOK, SlotsInv, ElementsInv, NEW t \in Threads,
         combinator[stack[t][2].on] \in Kinds,
         NextDone(t) \/ \E e \in Reasons : NextThrows(t, e)
  PROVE  SlotsInv' /\ ElementsInv'
<1>1. PICK a : a = stack[t][2].on
  OBVIOUS
<1>2. UNCHANGED <<created, budget, combinator, remaining, results, element>>
  BY <1>1, LoopEnds
<1>3. phase' = [phase EXCEPT ![a] = "done"] \/ phase' = [phase EXCEPT ![a] = "threw"]
  BY <1>1 DEF NextDone, NextThrows
<1>4. \/ UNCHANGED decided
      \/ decided' = [decided EXCEPT ![a] = @ \/ (combinator[a] = "any" /\ results[a] # <<>>)]
  BY <1>1 DEF NextDone, NextThrows
<1>5. phase' \in [Promises -> {"none", "loop", "done", "threw"}]
  BY <1>3 DEF SlotsInv
<1>6. decided' \in [Promises -> BOOLEAN]
  BY <1>4 DEF SlotsInv
<1>7. SlotsInv'
  BY <1>2, <1>5, <1>6 DEF SlotsInv, Aggregates, Holes, Existing
<1>8. ElementsInv'
  BY <1>2 DEF ElementsInv, IsElement, Aggregates, Awaited, Existing
<1>. QED  BY <1>7, <1>8

---------------------------------------------------------------------------
(* An empty slot is made and counted.                                       *)
LEMMA NextValueSlots ==
  ASSUME ScalarsOK, SlotsInv, ElementsInv, NEW t \in Threads,
         NEW a \in Promises, a = stack[t][2].on, NEW v \in ElementValues, NextValue(t, v)
  PROVE  SlotsInv' /\ ElementsInv'
<1>1. /\ budget >= ElementCost(v) /\ budget' = budget - ElementCost(v)
      /\ results' = [results EXCEPT ![a] = Append(@, Hole)]
      /\ remaining' = [remaining EXCEPT ![a] = @ + 1]
      /\ UNCHANGED <<combinator, phase, decided, element>>
      /\ created' = created \/ created' = created + 1
  BY DEF NextValue
<1>2. Existing \subseteq Existing'
  BY <1>1, Numbers DEF Existing
<1>3. /\ budget' \in Int /\ budget' <= budget - 1 /\ budget \in Nat /\ MaxPromises \in Nat
  BY <1>1, CostOf, PromiseAssumption DEF ScalarsOK
<1>4. Hole \in Entries /\ \A x \in Promises : results[x] \in Seq(Entries) /\ Len(results[x]) \in Nat
  BY DEF SlotsInv, Entries
<1>5. PICK s : s = results[a]
  OBVIOUS
<1>6. /\ results'[a] = Append(s, Hole) /\ \A x \in Promises : x # a => results'[x] = results[x]
      /\ remaining'[a] = remaining[a] + 1 /\ \A x \in Promises : x # a => remaining'[x] = remaining[x]
  BY <1>1, <1>5 DEF SlotsInv
<1>7. /\ Append(s, Hole) \in Seq(Entries) /\ Len(Append(s, Hole)) = Len(s) + 1
      /\ Append(s, Hole)[Len(s) + 1] = Hole
      /\ \A i \in 1..Len(s) : Append(s, Hole)[i] = s[i]
      /\ Cardinality(Holes(Append(s, Hole))) = Cardinality(Holes(s)) + 1
      /\ Len(s) \in Nat
  BY <1>4, <1>5, AppendProperties, HoleAdded
<1>8. SlotsInv'
  <2>1. results' \in [Promises -> Seq(Entries)] /\ remaining' \in [Promises -> Nat]
    <3>1. \A x \in Promises : results'[x] \in Seq(Entries)
      BY <1>4, <1>6, <1>7
    <3>3. \A x \in Promises : remaining[x] \in Nat
      BY DEF SlotsInv
    <3>4. \A x \in Promises : remaining'[x] \in Nat
      BY <1>6, <3>3
    <3>2. /\ results' = [x \in Promises |-> results'[x]]
          /\ remaining' = [x \in Promises |-> remaining'[x]]
      BY <1>1 DEF SlotsInv
    <3>. QED  BY <3>1, <3>2, <3>4
  <2>2. \A x \in Promises : remaining'[x] = Cardinality(Holes(results'[x]))
    BY <1>5, <1>6, <1>7 DEF SlotsInv
  <2>3. \A x \in Promises : Len(results'[x]) + budget' <= MaxPromises
    <3>1. \A x \in Promises : Len(results'[x]) <= Len(results[x]) + 1
      BY <1>4, <1>5, <1>6, <1>7
    <3>2. \A x \in Promises : Len(results'[x]) \in Nat
      BY <1>4, <1>6, <1>7
    <3>3. \A x \in Promises : Len(results[x]) + budget <= MaxPromises
      BY DEF SlotsInv
    <3>. QED  BY <1>3, <1>4, <3>1, <3>2, <3>3
  <2>4. Aggregates' \subseteq Existing'
    BY <1>1, <1>2 DEF SlotsInv, Aggregates
  <2>. QED  BY <1>1, <2>1, <2>2, <2>3, <2>4 DEF SlotsInv, Holes, Entries
<1>9. ElementsInv'
  <2>1. /\ \A q : IsElement(q)' <=> IsElement(q)
        /\ \A x, i : Awaited(x, i)' <=> Awaited(x, i)
    BY <1>1 DEF IsElement, Awaited
  <2>2. \A x \in Promises : \A i \in 1..Len(results[x]) : i \in 1..Len(results'[x])
    BY <1>5, <1>6, <1>7
  <2>3. \A x \in Promises : \A i \in 1..Len(results'[x]) : Awaited(x, i) => results'[x][i] = Hole
    <3>1. \A x \in Promises : x # a => \A i \in 1..Len(results'[x]) : Awaited(x, i) => results'[x][i] = Hole
      BY <1>6 DEF ElementsInv
    <3>2. \A i \in 1..Len(results'[a]) : Awaited(a, i) => results'[a][i] = Hole
      <4>1. \A i \in 1..Len(results'[a]) : i \in 1..Len(s) \/ i = Len(s) + 1
        BY <1>6, <1>7
      <4>2. \A i \in 1..Len(s) : Awaited(a, i) => s[i] = Hole
        BY <1>5 DEF ElementsInv
      <4>. QED  BY <1>6, <1>7, <4>1, <4>2
    <3>. QED  BY <3>1, <3>2
  <2>4. \A q \in Promises : IsElement(q) =>
           /\ q \in Existing' /\ q \notin Aggregates' /\ element[q].of \in Aggregates'
           /\ element[q].index \in 1..Len(results'[element[q].of])
    <3>1. Aggregates' = Aggregates /\ Aggregates \subseteq Promises
      BY <1>1 DEF Aggregates
    <3>. QED  BY <1>2, <2>2, <3>1 DEF ElementsInv
  <2>. QED  BY <1>1, <2>1, <2>3, <2>4 DEF ElementsInv
<1>. QED  BY <1>8, <1>9

(* The element that is made has the slot that no other one has.             *)
LEMMA SubscribeSlots ==
  ASSUME ScalarsOK, SlotsInv, ElementsInv, NEW t \in Threads, Subscribe(t),
         NEW a \in Aggregates, a = stack[t][2].on, NEW p \in Promises, p = Head(stack[t]).on,
         Len(results[a]) # 0, Awaited(a, Len(results[a])), NEW s, s = created + 1
  PROVE  /\ SlotsInv' /\ ElementsInv'
         /\ s \in Promises /\ s \notin Existing /\ Existing' = Existing \cup {s}
         /\ element'[s] # NoElement /\ element'[s].src = p /\ ~ IsElement(s)
         /\ \A q \in Promises : q # s => element'[q] = element[q]
         /\ Slot(s)' = Hole
<1>1. PICK e : e = [of |-> a, index |-> Len(results[a]), src |-> p]
  OBVIOUS
<1>2. /\ created' = s /\ created < MaxPromises /\ element' = [element EXCEPT ![s] = e]
      /\ UNCHANGED <<budget, combinator, phase, remaining, decided, results>>
  BY <1>1 DEF Subscribe, Register
<1>3. /\ s \in Promises /\ s \notin Existing /\ Existing' = Existing \cup {s} /\ created \in Nat
  BY <1>2, Numbers DEF Existing
<1>4. a \in Promises /\ NoPromise \notin Promises
  BY Numbers DEF Aggregates
<1>5. /\ Len(results[a]) \in 1..MaxPromises
  <2>1. Len(results[a]) \in Nat
    BY <1>4 DEF SlotsInv
  <2>2. Len(results[a]) + budget <= MaxPromises
    BY <1>4 DEF SlotsInv
  <2>3. budget \in Nat
    BY DEF ScalarsOK
  <2>. QED  BY <2>1, <2>2, <2>3, PromiseAssumption
<1>6. /\ e \in [of : Promises, index : 1..MaxPromises, src : Promises] /\ e # NoElement
      /\ e.of = a /\ e.index = Len(results[a]) /\ e.src = p
  BY <1>1, <1>4, <1>5 DEF NoElement
<1>7. element'[s] = e /\ \A q \in Promises : q # s => element'[q] = element[q]
  BY <1>2, <1>3 DEF ElementsInv
<1>8. ~ IsElement(s) /\ \A q \in Promises : IsElement(q) => q # s
  BY <1>3 DEF ElementsInv
<1>9. SlotsInv'
  <2>1. Aggregates' \subseteq Existing'
    BY <1>2, <1>3 DEF SlotsInv, Aggregates
  <2>2. \A x \in Promises : /\ remaining'[x] = Cardinality(Holes(results'[x]))
                            /\ Len(results'[x]) + budget' <= MaxPromises
    BY <1>2 DEF SlotsInv
  <2>. QED  BY <1>2, <2>1, <2>2 DEF SlotsInv, Holes
<1>10. /\ \A q \in Promises : q # s => (IsElement(q)' <=> IsElement(q))
       /\ IsElement(s)'
  BY <1>6, <1>7 DEF IsElement
<1>11. ElementsInv'
  <2>1. element' \in [Promises -> {NoElement} \cup [of : Promises, index : 1..MaxPromises, src : Promises]]
    BY <1>2, <1>6 DEF ElementsInv
  <2>2. Aggregates' = Aggregates
    BY <1>2 DEF Aggregates
  <2>3. ASSUME NEW q \in Promises, IsElement(q)'
        PROVE  /\ q \in Existing' /\ q \notin Aggregates' /\ element'[q].of \in Aggregates'
               /\ element'[q].index \in 1..Len(results'[element'[q].of])
    <3>1. CASE q # s
      BY <1>2, <1>3, <1>7, <1>10, <2>2, <2>3, <3>1 DEF ElementsInv
    <3>2. CASE q = s
      <4>1. s \notin Aggregates
        BY <1>3 DEF SlotsInv
      <4>2. Len(results[a]) \in 1..Len(results[a])
        BY <1>5
      <4>. QED  BY <1>2, <1>3, <1>6, <1>7, <2>2, <3>2, <4>1, <4>2
    <3>. QED  BY <3>1, <3>2
  <2>4. ASSUME NEW q \in Promises, IsElement(q), q # s
        PROVE  element[q].of # a \/ element[q].index # Len(results[a])
    BY <2>4 DEF Awaited
  <2>5. ASSUME NEW q \in Promises, NEW r \in Promises, IsElement(q)', IsElement(r)',
               element'[q].of = element'[r].of, element'[q].index = element'[r].index
        PROVE  q = r
    <3>1. CASE q # s /\ r # s
      BY <1>7, <1>10, <2>5, <3>1 DEF ElementsInv
    <3>2. CASE q = s \/ r = s
      BY <1>6, <1>7, <1>10, <2>4, <2>5, <3>2
    <3>. QED  BY <3>1, <3>2
  <2>6. ASSUME NEW x \in Promises, NEW i \in 1..Len(results[x]), Awaited(x, i)'
        PROVE  results[x][i] = Hole
    <3>1. \A q \in Promises : IsElement(q)' => element'[q].of # x \/ element'[q].index # i
      BY <2>6 DEF Awaited
    <3>2. \A q \in Promises : IsElement(q) => element[q].of # x \/ element[q].index # i
      BY <1>7, <1>8, <1>10, <3>1
    <3>. QED  BY <3>2 DEF ElementsInv, Awaited
  <2>. QED  BY <1>2, <2>1, <2>3, <2>5, <2>6 DEF ElementsInv
<1>12. Slot(s)' = Hole
  <2>1. results[a][Len(results[a])] = Hole
    BY <1>4, <1>5 DEF ElementsInv
  <2>. QED  BY <1>2, <1>6, <1>7, <2>1 DEF Slot
<1>. QED  BY <1>3, <1>6, <1>7, <1>8, <1>9, <1>11, <1>12

(* The slot that is filled was empty, so it is counted off for the first    *)
(* time.                                                                    *)
LEMMA HandlerSlots ==
  ASSUME ScalarsOK, SlotsInv, ElementsInv, NEW t \in Threads,
         ElementFulfilled(t) \/ ElementRejected(t),
         NEW q \in Promises, q = Head(stack[t]).on, IsElement(q), Slot(q) = Hole,
         Head(stack[t]).value \in Value,
         UNCHANGED <<created, budget, combinator, phase, element>>
  PROVE  /\ SlotsInv' /\ ElementsInv'
         /\ \A x \in Promises : Len(results'[x]) = Len(results[x])
         /\ \A r \in Promises : IsElement(r) /\ Slot(r)' # Hole => Slot(r) # Hole \/ r = q
<1>1. PICK a, i, v : a = element[q].of /\ i = element[q].index /\ v = Head(stack[t]).value
  OBVIOUS
<1>2. /\ a \in Aggregates /\ a \in Promises /\ i \in 1..Len(results[a]) /\ results[a][i] = Hole
  BY <1>1 DEF ElementsInv, Aggregates, Slot
<1>3. decided' \in [Promises -> BOOLEAN]
  <2>1. \/ UNCHANGED decided
        \/ decided' = [decided EXCEPT ![a] = TRUE]
        \/ decided' = [decided EXCEPT ![a] = @ \/ (combinator[a] = "any" /\ remaining[a] - 1 = 0)]
    BY <1>1 DEF ElementFulfilled, ElementRejected, Skip, Record, Decide
  <2>. QED  BY <2>1 DEF SlotsInv
<1>4. \/ UNCHANGED <<results, remaining>>
      \/ \E x \in [status : {"fulfilled", "rejected"}, value : Value] :
            /\ results' = [results EXCEPT ![a][i] = x]
            /\ remaining' = [remaining EXCEPT ![a] = @ - 1]
  <2>1. \A status \in {"fulfilled", "rejected"} :
           Entry(status, v) \in [status : {"fulfilled", "rejected"}, value : Value]
    BY <1>1 DEF Entry
  <2>2. \/ UNCHANGED <<results, remaining>>
        \/ \E status \in {"fulfilled", "rejected"} :
              /\ results' = [results EXCEPT ![a][i] = Entry(status, v)]
              /\ remaining' = [remaining EXCEPT ![a] = remaining[a] - 1]
    BY <1>1 DEF ElementFulfilled, ElementRejected, Skip, Record, Decide
  <2>. QED  BY <2>1, <2>2
<1>5. /\ Aggregates' = Aggregates /\ Existing' = Existing
      /\ \A r : IsElement(r)' <=> IsElement(r)
      /\ \A x, j : Awaited(x, j)' <=> Awaited(x, j)
  BY DEF Aggregates, Existing, IsElement, Awaited
<1>6. CASE UNCHANGED <<results, remaining>>
  <2>1. SlotsInv'
    BY <1>3, <1>5, <1>6 DEF SlotsInv, Holes
  <2>2. ElementsInv'
    BY <1>5, <1>6 DEF ElementsInv
  <2>. QED  BY <1>6, <2>1, <2>2 DEF Slot
<1>7. ASSUME NEW x \in [status : {"fulfilled", "rejected"}, value : Value],
             results' = [results EXCEPT ![a][i] = x],
             remaining' = [remaining EXCEPT ![a] = @ - 1]
      PROVE  /\ SlotsInv' /\ ElementsInv'
             /\ \A y \in Promises : Len(results'[y]) = Len(results[y])
             /\ \A r \in Promises : IsElement(r) /\ Slot(r)' # Hole => Slot(r) # Hole \/ r = q
  <2>1. PICK s, z : s = results[a] /\ z = [s EXCEPT ![i] = x]
    OBVIOUS
  <2>2. x # Hole /\ x \in Entries /\ s \in Seq(Entries) /\ i \in 1..Len(s) /\ s[i] = Hole
    BY <1>2, <2>1 DEF Hole, SlotsInv, Entries
  <2>3. /\ z \in Seq(Entries) /\ Len(z) = Len(s) /\ z[i] = x
        /\ \A j \in 1..Len(s) : j # i => z[j] = s[j]
        /\ Cardinality(Holes(z)) = Cardinality(Holes(s)) - 1 /\ Cardinality(Holes(z)) \in Nat
    <3>1. /\ z \in Seq(Entries) /\ Len(z) = Len(s) /\ z[i] = x
          /\ \A j \in 1..Len(s) : j # i => z[j] = s[j]
      BY <2>1, <2>2
    <3>2. Cardinality(Holes([s EXCEPT ![i] = x])) = Cardinality(Holes(s)) - 1
      BY <2>2, HoleFilled
    <3>. QED  BY <2>1, <3>1, <3>2, HolesFinite
  <2>4. /\ results'[a] = z /\ \A y \in Promises : y # a => results'[y] = results[y]
        /\ remaining'[a] = remaining[a] - 1 /\ \A y \in Promises : y # a => remaining'[y] = remaining[y]
        /\ DOMAIN results' = Promises /\ results' = [y \in Promises |-> results'[y]]
        /\ remaining' = [y \in Promises |-> remaining'[y]]
    BY <1>2, <1>7, <2>1 DEF SlotsInv
  <2>5. \A y \in Promises : Len(results'[y]) = Len(results[y])
    BY <2>1, <2>3, <2>4
  <2>6. \A y \in Promises : remaining'[y] = Cardinality(Holes(results'[y]))
    <3>1. \A y \in Promises : remaining[y] = Cardinality(Holes(results[y]))
      BY DEF SlotsInv
    <3>. QED  BY <1>2, <2>1, <2>3, <2>4, <3>1
  <2>7. \A y \in Promises : results'[y] \in Seq(Entries) /\ remaining'[y] \in Nat
    <3>1. \A y \in Promises : results[y] \in Seq(Entries)
      BY DEF SlotsInv, Entries
    <3>2. \A y \in Promises : results'[y] \in Seq(Entries)
      BY <2>3, <2>4, <3>1
    <3>. QED  BY <2>6, <3>2, HolesFinite
  <2>8. results' \in [Promises -> Seq(Entries)] /\ remaining' \in [Promises -> Nat]
    BY <2>4, <2>7
  <2>9. SlotsInv'
    BY <1>3, <1>5, <2>5, <2>6, <2>8 DEF SlotsInv, Holes, Entries
  <2>10. ASSUME NEW y \in Promises, NEW j \in 1..Len(results[y]), ~(y = a /\ j = i)
         PROVE  results'[y][j] = results[y][j]
    <3>1. CASE y # a
      BY <2>4, <3>1
    <3>2. CASE y = a
      BY <2>1, <2>3, <2>4, <2>10, <3>2
    <3>. QED  BY <3>1, <3>2
  <2>11. ElementsInv'
    <3>1. \A y \in Promises : \A j \in 1..Len(results'[y]) : Awaited(y, j) => results'[y][j] = Hole
      <4>1. ~ Awaited(a, i)
        BY <1>1 DEF Awaited
      <4>. QED  BY <2>5, <2>10, <4>1 DEF ElementsInv
    <3>2. \A r \in Promises : IsElement(r) =>
             /\ r \in Existing /\ r \notin Aggregates /\ element[r].of \in Aggregates
             /\ element[r].index \in 1..Len(results'[element[r].of])
      <4>1. Aggregates \subseteq Promises
        BY DEF Aggregates
      <4>. QED  BY <2>5, <4>1 DEF ElementsInv
    <3>. QED  BY <1>5, <3>1, <3>2 DEF ElementsInv
  <2>12. ASSUME NEW r \in Promises, IsElement(r), Slot(r)' # Hole, r # q  PROVE Slot(r) # Hole
    <3>1. ~(element[r].of = a /\ element[r].index = i)
      BY <1>1, <2>12 DEF ElementsInv
    <3>2. /\ element[r].of \in Promises /\ element[r].index \in 1..Len(results[element[r].of])
      BY <2>12 DEF ElementsInv, Aggregates
    <3>3. results'[element[r].of][element[r].index] = results[element[r].of][element[r].index]
      BY <2>10, <3>1, <3>2
    <3>. QED  BY <2>12, <3>3 DEF Slot
  <2>. QED  BY <2>5, <2>9, <2>11, <2>12
<1>. QED  BY <1>4, <1>6, <1>7

---------------------------------------------------------------------------
(* Where a place on a stack that is no reaction's job is the only one that   *)
(* holds q, nothing will call the handlers of q.                            *)
LEMMA SoleBare ==
  \A K, q : \A t \in Threads : \A d, i :
    /\ Serves(K) /\ IInv(K) /\ (\A u \in Threads : Stacked(u)) /\ q \in Promises /\ Sole(q)
    /\ InStack(q, t, d, i)
    /\ FrameAt(t, d).kind \in {"enqueue", "batch"} =>
         ~ Derives(FrameAt(t, d).jobs[Len(FrameAt(t, d).jobs) + 1 - i], q)
    /\ ~ (d + 1 \in 1..Len(stack[t]) /\ Handles(FrameAt(t, d + 1)) /\ FrameAt(t, d + 1).on = q)
    => Bare(q)
<1>. SUFFICES ASSUME NEW K, NEW q, NEW t \in Threads, NEW d, NEW i,
                     Serves(K), IInv(K), \A u \in Threads : Stacked(u), q \in Promises, Sole(q),
                     InStack(q, t, d, i),
                     FrameAt(t, d).kind \in {"enqueue", "batch"} =>
                       ~ Derives(FrameAt(t, d).jobs[Len(FrameAt(t, d).jobs) + 1 - i], q),
                     ~ (/\ d + 1 \in 1..Len(stack[t])
                        /\ Handles(FrameAt(t, d + 1)) /\ FrameAt(t, d + 1).on = q)
              PROVE  Bare(q)
  OBVIOUS
<1>1. d \in 1..Len(stack[t]) /\ d # 0
  <2>1. d \in 1..Len(stack[t])
    BY DEF InStack
  <2>. QED  BY <2>1
<1>2. Holds(q, t, d, i)
  BY <1>1 DEF Holds
<1>3. \A y, e, j : Holds(q, y, e, j) => y = t /\ e = d /\ j = i
  BY <1>2 DEF Sole, OneHolder, NoHolder
<1>4. /\ reactions \in [Promises -> Seq(FitReaction(K))] /\ queue \in Seq(FitJob(K))
      /\ stack \in [Threads -> Seq(FitFrame(K))] /\ NoPromise \notin Promises
  BY Numbers DEF IInv
<1>5. ASSUME NEW p \in Promises, NEW j \in 1..Len(reactions[p])  PROVE reactions[p][j].to # q
  <2>. SUFFICES ASSUME reactions[p][j].to = q  PROVE FALSE
    OBVIOUS
  <2>1. Holds(q, p, 0, j)
    BY DEF Holds, InReactions, ForReaction
  <2>. QED  BY <1>1, <1>3, <2>1
<1>6. ASSUME NEW j \in 1..Len(queue)  PROVE ~ Derives(queue[j], q)
  <2>. SUFFICES ASSUME Derives(queue[j], q)  PROVE FALSE
    OBVIOUS
  <2>1. Holds(q, NoPromise, 0, j)
    BY DEF Holds, InQueue, ForJob, Derives
  <2>. QED  BY <1>1, <1>3, <2>1
<1>7. ASSUME NEW u \in Threads, NEW k \in 1..Len(stack[u]), NEW L, L = Len(stack[u]),
             NEW e, e = L + 1 - k, NEW f, f = stack[u][k]
      PROVE  L \in Nat /\ e \in 1..L /\ e # 0 /\ FrameAt(u, e) = f /\ f \in FitFrame(K)
  <2>1. L \in Nat /\ k \in 1..L /\ stack[u] \in Seq(FitFrame(K))
    BY <1>4, <1>7, LenProperties
  <2>2. e \in 1..L /\ e # 0 /\ L + 1 - e = k
    BY <1>7, <2>1
  <2>3. f \in FitFrame(K)
    BY <1>7, <2>1, ElementOfSeq
  <2>. QED  BY <1>7, <2>1, <2>2, <2>3 DEF FrameAt
<1>8. ASSUME NEW u \in Threads, NEW k \in 1..Len(stack[u]), Handles(stack[u][k]), stack[u][k].on = q
      PROVE  FALSE
  <2>1. PICK L, e, f : L = Len(stack[u]) /\ e = L + 1 - k /\ f = stack[u][k]
    OBVIOUS
  <2>2. L \in Nat /\ e \in 1..L /\ FrameAt(u, e) = f
    BY <1>7, <2>1
  <2>3. Stacked(u)
    OBVIOUS
  <2>4. e # 1
    <3>1. ~ Handles(FrameAt(u, 1))
      BY <2>1, <2>2, <2>3 DEF Stacked
    <3>. QED  BY <1>8, <2>1, <2>2, <3>1
  <2>5. PICK c : c = e - 1
    OBVIOUS
  <2>6. c \in 1..(L - 1) /\ c + 1 = e /\ c \in 1..L /\ c # 0
    BY <2>2, <2>4, <2>5
  <2>7. Above(FrameAt(u, c + 1), FrameAt(u, c))
    BY <2>1, <2>3, <2>6 DEF Stacked
  <2>8. FrameAt(u, c) = Call("resolve", q, Undefined)
    BY <1>8, <2>1, <2>2, <2>6, <2>7 DEF Above
  <2>9. InFrame(FrameAt(u, c), q, 0)
    BY <2>8, CallHolds
  <2>10. Holds(q, u, c, 0)
    BY <2>1, <2>6, <2>9 DEF Holds, InStack
  <2>11. u = t /\ c = d
    BY <1>3, <2>10
  <2>. QED  BY <1>8, <2>1, <2>2, <2>6, <2>11
<1>9. ASSUME NEW u \in Threads, NEW k \in 1..Len(stack[u]), NEW f, f = stack[u][k],
             f.kind \in {"enqueue", "batch"}, NEW j \in 1..Len(f.jobs), Derives(f.jobs[j], q)
      PROVE  FALSE
  <2>1. PICK L, e, m, n : L = Len(stack[u]) /\ e = L + 1 - k /\ n = Len(f.jobs) /\ m = n + 1 - j
    OBVIOUS
  <2>2. L \in Nat /\ e \in 1..L /\ e # 0 /\ FrameAt(u, e) = f /\ f \in FitFrame(K)
    BY <1>7, <1>9, <2>1
  <2>3. f.jobs \in Seq(FitJob(K))
    <3>1. f \notin FitCall(K) /\ f \notin FitScript(K)
      BY <1>9 DEF FitCall, FitScript, ScriptFrame
    <3>2. f \notin FitNative(K)
      BY <1>9 DEF FitNative, Natives, Serves
    <3>. QED  BY <2>2, <3>1, <3>2 DEF FitFrame
  <2>4. n \in Nat /\ m \in 1..n /\ n + 1 - m = j
    <3>1. Len(f.jobs) \in Nat
      BY <2>3, LenProperties
    <3>2. n = Len(f.jobs) /\ m = n + 1 - j /\ j \in 1..Len(f.jobs)
      BY <1>9, <2>1
    <3>. QED  BY <3>1, <3>2
  <2>5. InFrame(f, q, m)
    BY <1>9, <2>1, <2>4 DEF InFrame, ForJob, Derives
  <2>6. Holds(q, u, e, m)
    BY <2>1, <2>2, <2>5 DEF Holds, InStack
  <2>7. u = t /\ e = d /\ m = i
    BY <1>3, <2>6
  <2>8. ~ Derives(f.jobs[n + 1 - m], q)
    BY <1>9, <2>1, <2>2, <2>7
  <2>. QED  BY <1>9, <2>4, <2>8
<1>. QED  BY <1>5, <1>6, <1>8, <1>9 DEF Bare

LEMMA SoleBareNext ==
  (\A K, q : \A t \in Threads : \A d, i :
    /\ Serves(K) /\ IInv(K) /\ (\A u \in Threads : Stacked(u)) /\ q \in Promises /\ Sole(q)
    /\ InStack(q, t, d, i)
    /\ FrameAt(t, d).kind \in {"enqueue", "batch"} =>
         ~ Derives(FrameAt(t, d).jobs[Len(FrameAt(t, d).jobs) + 1 - i], q)
    /\ ~ (d + 1 \in 1..Len(stack[t]) /\ Handles(FrameAt(t, d + 1)) /\ FrameAt(t, d + 1).on = q)
    => Bare(q))'
  BY SoleBare, PTL

---------------------------------------------------------------------------
(* The job that exposes a promise to a foreign thenable is the only one.     *)
LEMMA RunThenBare ==
  ASSUME NEW K, Serves(K), HInv(K), \A u \in Threads : Stacked(u), NEW t \in Threads, RunThen(t),
         NEW q, q \in exposed', q \notin exposed, q \notin K.own
  PROVE  Bare(q)
<1>1. PICK L, js, n, job : /\ L = Len(stack[t]) /\ js = Head(stack[t]).jobs
                           /\ n = Len(js) /\ job = Head(js)
  OBVIOUS
<1>2. /\ IInv(K) /\ IsMore(K) /\ ScalarsOK
      /\ \A p \in Existing \ (exposed \cup K.own) : Sole(p)
  BY DEF HInv, Serves, IInv
<1>3. /\ Running(t, "batch") /\ js # <<>> /\ job.kind = "then" /\ q = job.to
  BY <1>1 DEF RunThen
<1>4. stack[t] # <<>> /\ Head(stack[t]).kind = "batch"
  BY <1>3 DEF Running
<1>5. Head(stack[t]).jobs \in Seq(FitJob(K))
  BY <1>2, <1>3, <1>4, HeadFrame
<1>6. js \in Seq(FitJob(K)) /\ n \in Nat /\ n >= 1 /\ js[1] = job /\ job \in FitJob(K)
  <2>1. js \in Seq(FitJob(K))
    BY <1>1, <1>5
  <2>2. n \in Nat /\ n >= 1 /\ js[1] = job
    BY <1>1, <1>3, <2>1
  <2>3. 1 \in 1..Len(js)
    BY <1>1, <2>2
  <2>4. js[1] \in FitJob(K)
    BY <2>1, <2>3, ElementOfSeq
  <2>. QED  BY <2>1, <2>2, <2>4
<1>7. q \in Promises /\ q <= created
  BY <1>3, <1>6 DEF FitJob, AnyJob, HandlerFits
<1>8. q \in Existing
  BY <1>2, <1>7, Numbers DEF Existing, Promises
<1>9. Sole(q)
  BY <1>2, <1>8
<1>10. L \in Nat /\ L >= 1 /\ FrameAt(t, L) = Head(stack[t])
  <2>1. stack[t] \in Seq(FitFrame(K))
    BY <1>2 DEF IInv
  <2>2. L \in Nat /\ L >= 1 /\ stack[t][1] = Head(stack[t])
    BY <1>1, <1>4, <2>1
  <2>3. L + 1 - L = 1
    BY <2>2
  <2>. QED  BY <1>1, <2>2, <2>3 DEF FrameAt
<1>11. InStack(q, t, L, n)
  <2>1. ForJob(job, q)
    BY <1>3 DEF ForJob
  <2>2. n \in 1..n /\ n + 1 - n = 1 /\ L \in 1..L
    BY <1>6, <1>10
  <2>3. InFrame(FrameAt(t, L), q, n)
    BY <1>1, <1>4, <1>6, <1>10, <2>1, <2>2 DEF InFrame
  <2>. QED  BY <1>1, <2>2, <2>3 DEF InStack
<1>12. ~ Derives(FrameAt(t, L).jobs[Len(FrameAt(t, L).jobs) + 1 - n], q)
  <2>1. Len(FrameAt(t, L).jobs) + 1 - n = 1 /\ FrameAt(t, L).jobs = js
    BY <1>1, <1>6, <1>10
  <2>. QED  BY <1>3, <1>6, <2>1 DEF Derives
<1>13. ~ (L + 1 \in 1..Len(stack[t]))
  BY <1>1, <1>10
<1>. QED  BY <1>2, <1>7, <1>9, <1>11, <1>12, <1>13, SoleBare

(* What is added to K concerns no promise that exists yet.                   *)
LEMMA WidenHolders ==
  ASSUME NEW K, IsMore(K), HInv(K), NEW L, IsMore(L),
         K.native \subseteq L.native, K.own \subseteq L.own,
         \A n \in L.native : n \in K.native \/ n.on \notin Existing,
         \A a \in L.own : a \in K.own \/ a \notin Existing
  PROVE  HInv(L)
<1>1. IInv(L)
  BY WidenInv DEF HInv
<1>2. OwnersExposed(L)
  BY DEF HInv, OwnersExposed, Open
<1>3. \A q \in Existing \ (exposed \cup L.own) : Sole(q)
  BY DEF HInv
<1>. QED  BY <1>1, <1>2, <1>3 DEF HInv

(* When a handler of q has run, the call under it is all that holds q.       *)
LEMMA HandlerBare ==
  ASSUME NEW K, Serves(K), IInv(K), ExecInv, NEW t \in Threads, NEW a,
         a = element[Head(stack[t]).on].of, combinator[a] \in Kinds,
         ElementFulfilled(t) \/ ElementRejected(t),
         NEW q, q = Head(stack[t]).on, Sole(q)', IInv(K)', ExecInv'
  PROVE  Bare(q)'
<1>1. \A u \in Threads : Stacked(u) /\ Stacked(u)'
  BY DEF ExecInv
<1>2. PICK fs : Settles(fs, a) /\ Replace(t, fs)
  BY <1>1, HandlerActs
<1>3. Running(t, "onFulfilled") \/ Running(t, "onRejected")
  BY <1>1, HandlerActs
<1>4. PICK T : fs \in Seq(T)
  BY <1>2, SettlesSeq
<1>5. PICK L, d : L = Len(stack[t]) /\ d = L - 1
  OBVIOUS
<1>6. TopChanged(t, L - 1, fs) /\ L \in Nat /\ L >= 2
  BY <1>1, <1>2, <1>3, <1>4, <1>5, HandlerTop
<1>7. q \in Promises /\ FrameAt(t, d) = Call("resolve", q, Undefined)
  <2>1. PICK kind \in {"onFulfilled", "onRejected"} : Running(t, kind)
    BY <1>3
  <2>2. q \in Promises /\ FrameAt(t, L - 1) = stack[t][2] /\ stack[t][2] = Call("resolve", q, Undefined)
    BY <1>1, <1>5, <2>1, HandlerFrame
  <2>. QED  BY <1>5, <2>2
<1>8. /\ TopChanged(t, d, fs) /\ d \in Nat /\ d # 0 /\ Len(stack[t]) \in Nat
  <2>1. d = L - 1 /\ L \in Nat /\ L >= 2
    BY <1>5, <1>6
  <2>2. TopChanged(t, d, fs)
    BY <1>6, <2>1
  <2>3. Len(stack[t]) \in Nat
    BY <1>5, <1>6
  <2>. QED  BY <2>1, <2>2, <2>3
<1>n. PICK N : N = Len(fs)
  OBVIOUS
<1>9. d \in 1..d /\ d \in 1..Len(stack'[t]) /\ FrameAt(t, d)' = Call("resolve", q, Undefined)
  <2>1. d \in 1..d
    BY <1>8
  <2>2. d \in 1..Len(stack'[t])
    BY <1>8 DEF TopChanged
  <2>3. FrameAt(t, d)' = FrameAt(t, d)
    BY <1>8, <2>1 DEF TopChanged
  <2>. QED  BY <1>7, <2>1, <2>2, <2>3
<1>10. InStack(q, t, d, 0)'
  <2>1. \A f : f = Call("resolve", q, Undefined) => InFrame(f, q, 0)
    BY CallHolds
  <2>2. InStack(q, t, d, 0)' <=> d \in 1..Len(stack'[t]) /\ InFrame(FrameAt(t, d)', q, 0)
    BY DEF InStack, InFrame, ForFrame, ForJob
  <2>. QED  BY <1>9, <2>1, <2>2
<1>11. ~((FrameAt(t, d)').kind \in {"enqueue", "batch"})
  BY <1>9 DEF Call
<1>12. ~ (/\ d + 1 \in 1..Len(stack'[t])
          /\ Handles(FrameAt(t, d + 1)') /\ (FrameAt(t, d + 1)').on = q)
  <2>. SUFFICES ASSUME NEW e, e = d + 1, e \in 1..Len(stack'[t])
                PROVE  ~ Handles(FrameAt(t, e)')
    OBVIOUS
  <2>1. \/ (e <= d)
        \/ \E k \in 1..N : e = d + N + 1 - k /\ FrameAt(t, e)' = fs[k]
    <3>1. TopChanged(t, d, fs) /\ Len(stack[t]) \in Nat
      BY <1>8
    <3>2. \A u \in Threads : \A c : c \in 1..Len(stack'[u]) =>
              \/ (u # t \/ c <= d) /\ c \in 1..Len(stack[u]) /\ FrameAt(u, c)' = FrameAt(u, c)
              \/ u = t /\ c > d /\ \E k \in 1..N : c = d + N + 1 - k /\ FrameAt(u, c)' = fs[k]
      BY <1>n, <3>1, TopFrames
    <3>. QED  BY <3>2
  <2>2. ~ (e <= d)
    BY <1>8
  <2>3. \A k \in 1..N : fs[k].kind \in {"resolve", "reject"}
    BY <1>2, <1>n, SettlesSeq
  <2>. QED  BY <2>1, <2>2, <2>3 DEF Handles
<1>13. Serves(K)' /\ (\A u \in Threads : Stacked(u))' /\ (q \in Promises)'
  BY <1>1, <1>7 DEF Serves, IsMore
<1>. QED  BY <1>10, <1>11, <1>12, <1>13, SoleBareNext

---------------------------------------------------------------------------
(* An element that a script can settle, or whose handler has run, has none   *)
(* any more: the invariant holds without them.                              *)
Handled ==
  \A K, q : q \in Promises /\ IsElement(q) /\ (q \in exposed \/ Slot(q) # Hole)
              /\ K = Without(Combined, q) => IInv(K)

CombInv ==
  /\ \A K : K = Combined => HInv(K)
  /\ ExecInv
  /\ SlotsInv
  /\ ElementsInv
  /\ Handled

(* What the invariant says, for K.                                          *)
LEMMA CombFacts ==
  ASSUME CombInv, NEW K, K = Combined
  PROVE  /\ HInv(K) /\ IInv(K) /\ Serves(K) /\ IsMore(K) /\ NextIsFree(K) /\ ScalarsOK
         /\ K.own = Aggregates
         /\ \A a \in Aggregates : a \in Promises /\ combinator[a] \in Kinds
<1>1. HInv(K) /\ IInv(K) /\ ScalarsOK
  BY DEF CombInv, HInv, IInv
<1>2. Serves(K) /\ IsMore(K)
  BY CombinedServes DEF CombInv, Serves
<1>3. NextIsFree(K)
  BY <1>1, CombinedFree DEF CombInv
<1>4. \A a \in Aggregates : a \in Promises /\ combinator[a] \in Kinds
  BY DEF CombInv, SlotsInv, Aggregates
<1>. QED  BY <1>1, <1>2, <1>3, <1>4 DEF Combined

(* The handler at the head of a stack is that of an element whose slot is    *)
(* empty and that no script can settle.                                    *)
LEMMA HandlerFree ==
  ASSUME CombInv, NEW t \in Threads, Running(t, "onFulfilled") \/ Running(t, "onRejected"),
         NEW q, q = Head(stack[t]).on
  PROVE  /\ q \in Promises /\ q <= created /\ IsElement(q) /\ q \notin exposed /\ Slot(q) = Hole
         /\ q \notin Aggregates
         /\ element[q].of \in Aggregates /\ element[q].of \in Promises
         /\ element[q].of <= created /\ combinator[element[q].of] \in Kinds
         /\ Head(stack[t]).value \in Value
<1>1. PICK kind \in {"onFulfilled", "onRejected"} : Running(t, kind)
  OBVIOUS
<1>0. PICK N : N = Len(stack[t])
  OBVIOUS
<1>2. PICK K : K = Combined
  OBVIOUS
<1>3. /\ IInv(K) /\ Serves(K) /\ ScalarsOK /\ Stacked(t)
      /\ \A a \in Aggregates : a \in Promises /\ combinator[a] \in Kinds
  BY <1>2, CombFacts DEF CombInv, ExecInv
<1>4. /\ q \in Promises /\ q <= created /\ Head(stack[t]).value \in Value
      /\ \E n \in K.native : n.fn = kind /\ n.on = q
  BY <1>0, <1>1, <1>3, HandlerFrame
<1>5. IsElement(q)
  BY <1>1, <1>2, <1>4 DEF Combined
<1>6. /\ element[q].of \in Aggregates /\ element[q].of \in Promises /\ q \notin Aggregates
      /\ element[q].of <= created
  <2>1. element[q].of \in Aggregates /\ q \notin Aggregates /\ Aggregates \subseteq Existing
    BY <1>4, <1>5 DEF CombInv, ElementsInv, SlotsInv
  <2>. QED  BY <1>3, <2>1, Numbers
<1>7. ASSUME q \in exposed \/ Slot(q) # Hole  PROVE FALSE
  <2>1. PICK L : L = Without(K, q)
    OBVIOUS
  <2>2. IInv(L)
    BY <1>2, <1>4, <1>5, <1>7, <2>1 DEF CombInv, Handled
  <2>3. Serves(L)
    BY <1>3, <2>1, WithoutServes
  <2>4. \E n \in L.native : n.fn = kind /\ n.on = q
    BY <1>0, <1>1, <1>3, <2>2, <2>3, HandlerFrame
  <2>. QED  BY <1>1, <2>1, <2>3, <2>4 DEF Without, Serves
<1>. QED  BY <1>3, <1>4, <1>5, <1>6, <1>7

(* Steps that make no aggregate and no element change nothing of K.         *)
LEMMA CombinedSame ==
  ASSUME UNCHANGED <<combinator, element>>
  PROVE  /\ Combined' = Combined
         /\ \A K, q : Without(K, q)' = Without(K, q)
         /\ \A q : IsElement(q)' <=> IsElement(q)
<1>1. \A q : IsElement(q)' <=> IsElement(q)
  BY DEF IsElement
<1>2. Aggregates' = Aggregates
  BY DEF Aggregates
<1>. QED  BY <1>1, <1>2 DEF Combined, Without, IsElement

---------------------------------------------------------------------------
(* The steps of Promise.                                                   *)
LEMMA PromiseComb ==
  ASSUME CombInv, NEW t \in Threads, PromiseStep(t), CombUnchanged
  PROVE  CombInv'
<1>1. PICK K : K = Combined
  OBVIOUS
<1>2. /\ HInv(K) /\ IInv(K) /\ Serves(K) /\ IsMore(K) /\ NextIsFree(K) /\ ScalarsOK
      /\ ExecInv /\ SlotsInv /\ ElementsInv /\ K.own = Aggregates
  BY <1>1, CombFacts DEF CombInv
<1>3. UNCHANGED <<combinator, element, results>>
  BY DEF CombUnchanged
<1>4. /\ Combined' = K /\ \A L, q : Without(L, q)' = Without(L, q)
      /\ \A q : IsElement(q)' <=> IsElement(q)
  BY <1>1, <1>3, CombinedSame
<1>5. [Next]_vars
  BY DEF PromiseStep, Next
<1>6. HInv(K)'
  BY <1>2, <1>5, NextHolders
<1>7. ExecInv'
  BY <1>2, <1>3, PromiseExec DEF PromiseStep
<1>8. SlotsInv' /\ ElementsInv'
  BY <1>2, PromiseSlots
<1>9. ASSUME NEW q \in Promises, IsElement(q), q \in exposed' \/ Slot(q) # Hole,
             NEW L, L = Without(K, q)
      PROVE  IInv(L)'
  <2>1. Serves(L) /\ IsMore(L) /\ NextIsFree(L)
    <3>1. Serves(L)
      BY <1>2, <1>9, WithoutServes
    <3>2. NextIsFree(L)
      BY <1>2, <1>9 DEF NextIsFree, Reserved, Without
    <3>. QED  BY <3>1, <3>2 DEF Serves
  <2>2. IInv(L)
    <3>1. CASE q \in exposed \/ Slot(q) # Hole
      BY <1>1, <1>9, <3>1 DEF CombInv, Handled
    <3>2. CASE q \in exposed' /\ q \notin exposed
      <4>1. q \in Existing /\ q \notin K.own
        BY <1>2, <1>9 DEF ElementsInv
      <4>2. q # created + 1
        BY <1>2, <4>1, Numbers DEF Existing, ScalarsOK
      <4>3. RunThen(t)
        BY <3>2, <4>2 DEF PromiseStep, Api, NewPromise, CallResolve, CallReject, CallThen, Native,
           Resolve, Reject, Enqueue, RunReaction, EndBatch, ProcessMicrotasks, EndScript,
           ReturnIgnored, ReturnValue, ReturnFinally, ReturnFinallyPromise, Throw
      <4>4. Bare(q)
        BY <1>2, <3>2, <4>1, <4>3, RunThenBare DEF ExecInv
      <4>. QED  BY <1>2, <1>9, <4>4, NarrowInv
    <3>. QED  BY <1>9, <3>1, <3>2
  <2>. QED  BY <1>5, <2>1, <2>2, NextInv
<1>10. Handled'
  <2>1. \A q : Slot(q)' = Slot(q)
    BY <1>3 DEF Slot
  <2>. QED  BY <1>4, <1>9, <2>1 DEF Handled
<1>11. (\A L : L = Combined => HInv(L))'
  BY <1>4, <1>6
<1>. QED  BY <1>7, <1>8, <1>10, <1>11 DEF CombInv

---------------------------------------------------------------------------
(* Combined, written out, for this state and the next.                      *)
LEMMA CombinedIs ==
  \A K : K = Combined =>
    /\ K.own = Aggregates
    /\ \A n : n \in K.native <=>
         /\ n \in [fn : {"loop", "subscribe", "onFulfilled", "onRejected"}, on : Promises,
                   src : Promises \cup {NoPromise}, how : {"never", "fulfilled", "rejected"}]
         /\ \/ n.fn = "loop" /\ n.how = "never" /\ n.on \in Aggregates
            \/ n.fn = "subscribe" /\ n.how = "never"
            \/ /\ n.fn = "onFulfilled" /\ n.how = "fulfilled"
               /\ IsElement(n.on) /\ n.src = element[n.on].src
            \/ /\ n.fn = "onRejected" /\ n.how = "rejected"
               /\ IsElement(n.on) /\ n.src = element[n.on].src
  BY DEF Combined

LEMMA CombinedIsNext ==
  (\A K : K = Combined =>
    /\ K.own = Aggregates
    /\ \A n : n \in K.native <=>
         /\ n \in [fn : {"loop", "subscribe", "onFulfilled", "onRejected"}, on : Promises,
                   src : Promises \cup {NoPromise}, how : {"never", "fulfilled", "rejected"}]
         /\ \/ n.fn = "loop" /\ n.how = "never" /\ n.on \in Aggregates
            \/ n.fn = "subscribe" /\ n.how = "never"
            \/ /\ n.fn = "onFulfilled" /\ n.how = "fulfilled"
               /\ IsElement(n.on) /\ n.src = element[n.on].src
            \/ /\ n.fn = "onRejected" /\ n.how = "rejected"
               /\ IsElement(n.on) /\ n.src = element[n.on].src)'
  BY CombinedIs, PTL

(* A step that makes s an aggregate or an element adds no more than that.    *)
LEMMA CombinedGrows ==
  ASSUME NEW K, K = Combined, NEW L, L = Combined', ElementsInv', NEW s,
         Aggregates \subseteq Aggregates', Aggregates' \subseteq Aggregates \cup {s},
         ~ IsElement(s), \A q \in Promises : q # s => element'[q] = element[q]
  PROVE  /\ Serves(L) /\ IsMore(L) /\ K.native \subseteq L.native /\ K.own \subseteq L.own
         /\ L.own = Aggregates'
         /\ \A n \in L.native : n \in K.native \/ n.on = s
         /\ \A a \in L.own : a \in K.own \/ a = s
<1>1. \A q \in Promises : q # s => (IsElement(q)' <=> IsElement(q))
  BY DEF IsElement
<1>2. /\ K.own = Aggregates
      /\ \A n : n \in K.native <=>
         /\ n \in [fn : {"loop", "subscribe", "onFulfilled", "onRejected"}, on : Promises,
                   src : Promises \cup {NoPromise}, how : {"never", "fulfilled", "rejected"}]
         /\ \/ n.fn = "loop" /\ n.how = "never" /\ n.on \in Aggregates
            \/ n.fn = "subscribe" /\ n.how = "never"
            \/ /\ n.fn = "onFulfilled" /\ n.how = "fulfilled"
               /\ IsElement(n.on) /\ n.src = element[n.on].src
            \/ /\ n.fn = "onRejected" /\ n.how = "rejected"
               /\ IsElement(n.on) /\ n.src = element[n.on].src
  BY CombinedIs
<1>3. /\ L.own = Aggregates'
      /\ \A n : n \in L.native <=>
         /\ n \in [fn : {"loop", "subscribe", "onFulfilled", "onRejected"}, on : Promises,
                   src : Promises \cup {NoPromise}, how : {"never", "fulfilled", "rejected"}]
         /\ \/ n.fn = "loop" /\ n.how = "never" /\ n.on \in Aggregates'
            \/ n.fn = "subscribe" /\ n.how = "never"
            \/ /\ n.fn = "onFulfilled" /\ n.how = "fulfilled"
               /\ IsElement(n.on)' /\ n.src = element'[n.on].src
            \/ /\ n.fn = "onRejected" /\ n.how = "rejected"
               /\ IsElement(n.on)' /\ n.src = element'[n.on].src
  BY CombinedIsNext
<1>4. Serves(L)
  <2>1. Serves(L)'
    BY CombinedServesNext
  <2>. QED  BY <2>1 DEF Serves, IsMore
<1>5. K.native \subseteq L.native /\ K.own \subseteq L.own
  BY <1>1, <1>2, <1>3
<1>6. \A n \in L.native : n \in K.native \/ n.on = s
  BY <1>1, <1>2, <1>3
<1>7. \A a \in L.own : a \in K.own \/ a = s
  BY <1>2, <1>3
<1>. QED  BY <1>3, <1>4, <1>5, <1>6, <1>7 DEF Serves

(* The same without the handlers of an element that was one before.          *)
LEMMA WithoutGrows ==
  ASSUME NEW K, NEW L, NEW s, NEW q, q # s,
         K.native \subseteq L.native, K.own \subseteq L.own,
         \A n \in L.native : n \in K.native \/ n.on = s,
         \A a \in L.own : a \in K.own \/ a = s,
         IsMore(K), IsMore(L), s \notin Existing, IInv(Without(K, q))
  PROVE  IInv(Without(L, q))
<1>1. PICK A, B : A = Without(K, q) /\ B = Without(L, q)
  OBVIOUS
<1>2. IsMore(A) /\ IsMore(B)
  BY <1>1 DEF IsMore, Without
<1>3. /\ A.native \subseteq B.native /\ A.own \subseteq B.own
      /\ \A n \in B.native : n \in A.native \/ n.on \notin Existing
      /\ \A a \in B.own : a \in A.own \/ a \notin Existing
  BY <1>1 DEF Without
<1>. QED  BY <1>1, <1>2, <1>3, WidenInv

(* Each action of the combinators keeps the invariant.                      *)
LEMMA CombineComb ==
  ASSUME CombInv, NEW t \in Threads, NEW k \in Kinds, Combine(t, k)
  PROVE  CombInv'
<1>1. PICK K, L, s : K = Combined /\ L = Combined' /\ s = created + 1
  OBVIOUS
<1>2. /\ HInv(K) /\ IInv(K) /\ Serves(K) /\ IsMore(K) /\ ScalarsOK
      /\ ExecInv /\ SlotsInv /\ ElementsInv /\ K.own = Aggregates
  BY <1>1, CombFacts DEF CombInv
<1>3. SlotsInv' /\ ElementsInv'
  BY <1>2, CombineSlots
<1>4. ExecInv'
  BY <1>2, CombineExec
<1>5. /\ UNCHANGED <<results, element, exposed>> /\ combinator' = [combinator EXCEPT ![s] = k]
      /\ created < MaxPromises
  BY <1>1 DEF Combine
<1>6. s \in Promises /\ s \notin Existing
  BY <1>1, <1>2, <1>5, Numbers DEF Existing
<1>7. /\ ~ IsElement(s) /\ s \notin Aggregates
      /\ Aggregates \subseteq Aggregates' /\ Aggregates' \subseteq Aggregates \cup {s}
      /\ s \in Aggregates'
  <2>1. ~ IsElement(s) /\ s \notin Aggregates
    BY <1>2, <1>6 DEF ElementsInv, SlotsInv
  <2>2. k # "none"
    BY CombinatorsAssumption
  <2>3. /\ combinator'[s] = k /\ \A q \in Promises : q # s => combinator'[q] = combinator[q]
    BY <1>2, <1>5, <1>6 DEF SlotsInv
  <2>. QED  BY <1>6, <2>1, <2>2, <2>3 DEF Aggregates
<1>8. /\ Serves(L) /\ IsMore(L) /\ K.native \subseteq L.native /\ K.own \subseteq L.own
      /\ L.own = Aggregates'
      /\ \A n \in L.native : n \in K.native \/ n.on = s
      /\ \A a \in L.own : a \in K.own \/ a = s
  BY <1>1, <1>3, <1>5, <1>7, CombinedGrows
<1>9. HInv(L)
  BY <1>2, <1>6, <1>8, WidenHolders
<1>10. HInv(L)'
  BY <1>1, <1>7, <1>8, <1>9, CombineHolders
<1>11. ASSUME NEW q \in Promises, IsElement(q), q \in exposed \/ Slot(q) # Hole,
              NEW M, M = Without(L, q)
       PROVE  IInv(M)'
  <2>1. IInv(Without(K, q))
    BY <1>1, <1>11 DEF CombInv, Handled
  <2>2. IInv(M)
    BY <1>2, <1>6, <1>7, <1>8, <1>11, <2>1, WithoutGrows
  <2>3. Serves(M)
    BY <1>8, <1>11, WithoutServes
  <2>4. s \in M.own
    BY <1>7, <1>8, <1>11 DEF Without
  <2>. QED  BY <1>1, <2>2, <2>3, <2>4, CombineInv
<1>12. Handled'
  <2>1. \A q : /\ Slot(q)' = Slot(q) /\ (IsElement(q)' <=> IsElement(q))
               /\ \A M : Without(M, q)' = Without(M, q)
    BY <1>5 DEF Slot, IsElement, Without
  <2>. QED  BY <1>1, <1>5, <1>11, <2>1 DEF Handled
<1>. QED  BY <1>1, <1>3, <1>4, <1>10, <1>12 DEF CombInv

---------------------------------------------------------------------------
LEMMA NextValueComb ==
  ASSUME CombInv, NEW t \in Threads, NEW v \in ElementValues, NextValue(t, v)
  PROVE  CombInv'
<1>1. PICK K, a, N : K = Combined /\ a = stack[t][2].on /\ N = Len(stack[t])
  OBVIOUS
<1>2. /\ HInv(K) /\ IInv(K) /\ Serves(K) /\ NextIsFree(K) /\ ScalarsOK
      /\ ExecInv /\ SlotsInv /\ ElementsInv /\ Stacked(t)
  BY <1>1, CombFacts DEF CombInv, ExecInv
<1>3. UNCHANGED <<combinator, element, exposed>> /\ InIterator(t)
      /\ results' = [results EXCEPT ![a] = Append(@, Hole)]
  BY <1>1 DEF NextValue
<1>4. a \in Promises
  BY <1>1, <1>2, <1>3, LoopFrame
<1>5. SlotsInv' /\ ElementsInv'
  BY <1>1, <1>2, <1>4, NextValueSlots
<1>6. ExecInv'
  BY <1>2, NextValueExec
<1>7. HInv(K)'
  BY <1>2, NextValueHolders
<1>8. /\ Combined' = K /\ \A L, q : Without(L, q)' = Without(L, q)
      /\ \A q : IsElement(q)' <=> IsElement(q)
  BY <1>1, <1>3, CombinedSame
<1>9. ASSUME NEW q \in Promises, IsElement(q)  PROVE Slot(q)' = Slot(q)
  <2>1. element[q].of \in Promises /\ element[q].index \in 1..Len(results[element[q].of])
    BY <1>2, <1>9 DEF ElementsInv, Aggregates
  <2>2. results \in [Promises -> Seq({Hole} \cup [status : {"fulfilled", "rejected"}, value : Value])]
    BY <1>2 DEF SlotsInv
  <2>3. \A i \in 1..Len(results[a]) : results'[a][i] = results[a][i]
    BY <1>3, <1>4, <2>2
  <2>4. \A x \in Promises : x # a => results'[x] = results[x]
    BY <1>3, <2>2
  <2>. QED  BY <1>3, <2>1, <2>3, <2>4 DEF Slot
<1>10. ASSUME NEW q \in Promises, IsElement(q), q \in exposed \/ Slot(q) # Hole,
              NEW L, L = Without(K, q)
       PROVE  IInv(L)'
  <2>1. IInv(L)
    BY <1>1, <1>10 DEF CombInv, Handled
  <2>2. Serves(L) /\ NextIsFree(L)
    <3>1. Serves(L)
      BY <1>2, <1>10, WithoutServes
    <3>. QED  BY <1>2, <1>10, <3>1 DEF NextIsFree, Reserved, Without
  <2>. QED  BY <1>2, <2>1, <2>2, NextValueInv
<1>11. Handled'
  BY <1>3, <1>8, <1>9, <1>10 DEF Handled
<1>12. (\A L : L = Combined => HInv(L))'
  BY <1>7, <1>8
<1>. QED  BY <1>5, <1>6, <1>11, <1>12 DEF CombInv

LEMMA LoopEndsComb ==
  ASSUME CombInv, NEW t \in Threads, NextDone(t) \/ \E e \in Reasons : NextThrows(t, e)
  PROVE  CombInv'
<1>1. PICK K, a, N : K = Combined /\ a = stack[t][2].on /\ N = Len(stack[t])
  OBVIOUS
<1>2. /\ HInv(K) /\ IInv(K) /\ Serves(K) /\ ScalarsOK
      /\ ExecInv /\ SlotsInv /\ ElementsInv /\ Stacked(t) /\ K.own = Aggregates
      /\ \A x \in Aggregates : combinator[x] \in Kinds
  BY <1>1, CombFacts DEF CombInv, ExecInv
<1>3. InIterator(t)
  BY DEF NextDone, NextThrows
<1>4. combinator[stack[t][2].on] \in Kinds
  <2>1. a \in K.own
    BY <1>1, <1>2, <1>3, LoopFrame
  <2>. QED  BY <1>1, <1>2, <2>1
<1>5. UNCHANGED <<combinator, element, exposed, results>>
  BY <1>4, LoopEnds
<1>6. SlotsInv' /\ ElementsInv'
  BY <1>2, <1>4, LoopEndsSlots
<1>7. ExecInv'
  BY <1>2, <1>4, LoopEndsExec
<1>8. HInv(K)'
  BY <1>2, <1>4, LoopEndsHolders
<1>9. /\ Combined' = K /\ \A L, q : Without(L, q)' = Without(L, q)
      /\ \A q : IsElement(q)' <=> IsElement(q)
      /\ \A q : Slot(q)' = Slot(q)
  BY <1>1, <1>5, CombinedSame DEF Slot
<1>10. ASSUME NEW q \in Promises, IsElement(q), q \in exposed \/ Slot(q) # Hole,
              NEW L, L = Without(K, q)
       PROVE  IInv(L)'
  <2>1. IInv(L)
    BY <1>1, <1>10 DEF CombInv, Handled
  <2>2. Serves(L)
    BY <1>2, <1>10, WithoutServes
  <2>. QED  BY <1>2, <1>4, <2>1, <2>2, LoopEndsInv
<1>11. Handled'
  BY <1>5, <1>9, <1>10 DEF Handled
<1>12. (\A L : L = Combined => HInv(L))'
  BY <1>8, <1>9
<1>. QED  BY <1>6, <1>7, <1>11, <1>12 DEF CombInv

(* The element whose handler runs has none from now on.                     *)
LEMMA HandlerComb ==
  ASSUME CombInv, NEW t \in Threads, ElementFulfilled(t) \/ ElementRejected(t)
  PROVE  CombInv'
<1>1. PICK K, q, a : K = Combined /\ q = Head(stack[t]).on /\ a = element[q].of
  OBVIOUS
<1>2. /\ HInv(K) /\ IInv(K) /\ Serves(K) /\ ScalarsOK
      /\ ExecInv /\ SlotsInv /\ ElementsInv /\ Stacked(t) /\ K.own = Aggregates
  BY <1>1, CombFacts DEF CombInv, ExecInv
<1>3. /\ Running(t, "onFulfilled") \/ Running(t, "onRejected")
      /\ UNCHANGED <<created, state, budget, combinator, phase, element, exposed>>
  BY DEF ElementFulfilled, ElementRejected
<1>4. /\ q \in Promises /\ q <= created /\ IsElement(q) /\ q \notin exposed /\ Slot(q) = Hole
      /\ q \notin Aggregates
      /\ a \in Aggregates /\ a \in Promises /\ a <= created /\ combinator[a] \in Kinds
      /\ Head(stack[t]).value \in Value
  BY <1>1, <1>3, HandlerFree
<1>5. /\ a \in K.own /\ a = element[Head(stack[t]).on].of
  BY <1>1, <1>2, <1>4
<1>6. /\ SlotsInv' /\ ElementsInv'
      /\ \A x \in Promises : Len(results'[x]) = Len(results[x])
      /\ \A r \in Promises : IsElement(r) /\ Slot(r)' # Hole => Slot(r) # Hole \/ r = q
  BY <1>1, <1>2, <1>3, <1>4, HandlerSlots
<1>7. ExecInv'
  BY <1>2, <1>4, <1>5, <1>6, HandlerExec
<1>8. HInv(K)'
  BY <1>2, <1>4, <1>5, HandlerHolders
<1>9. /\ Combined' = K /\ \A L, r : Without(L, r)' = Without(L, r)
      /\ \A r : IsElement(r)' <=> IsElement(r)
  BY <1>1, <1>3, CombinedSame
<1>10. Bare(q)'
  <2>1. q \in Existing' /\ q \notin exposed' \cup K.own
    BY <1>2, <1>3, <1>4, Numbers DEF Existing, Promises
  <2>2. IInv(K)' /\ Sole(q)'
    BY <1>8, <2>1 DEF HInv
  <2>. QED  BY <1>1, <1>2, <1>4, <1>5, <1>7, <2>2, HandlerBare
<1>11. ASSUME NEW r \in Promises, IsElement(r), r \in exposed \/ Slot(r)' # Hole,
              NEW L, L = Without(K, r)
       PROVE  IInv(L)'
  <2>1. CASE r = q
    <3>1. IInv(K)' /\ Serves(K)'
      BY <1>2, <1>8 DEF HInv, Serves, IsMore
    <3>2. IInv(Without(K, q))'
      BY <1>10, <3>1, NarrowedInv
    <3>. QED  BY <1>9, <1>11, <2>1, <3>2
  <2>2. CASE r # q
    <3>1. IInv(L)
      BY <1>1, <1>6, <1>11, <2>2 DEF CombInv, Handled
    <3>2. Serves(L)
      BY <1>2, <1>11, WithoutServes
    <3>. QED  BY <1>2, <1>4, <1>5, <3>1, <3>2, HandlerInv
  <2>. QED  BY <2>1, <2>2
<1>12. Handled'
  BY <1>3, <1>9, <1>11 DEF Handled
<1>13. (\A L : L = Combined => HInv(L))'
  BY <1>8, <1>9
<1>. QED  BY <1>6, <1>7, <1>12, <1>13 DEF CombInv

(* The new element is not exposed and its slot is empty.                    *)
LEMMA SubscribeComb ==
  ASSUME CombInv, NEW t \in Threads, Subscribe(t)
  PROVE  CombInv'
<1>1. PICK K, L, s, a, p, N : /\ K = Combined /\ L = Combined' /\ s = created + 1
                              /\ a = stack[t][2].on /\ p = Head(stack[t]).on
                              /\ N = Len(stack[t])
  OBVIOUS
<1>2. /\ HInv(K) /\ IInv(K) /\ Serves(K) /\ IsMore(K) /\ ScalarsOK
      /\ ExecInv /\ SlotsInv /\ ElementsInv /\ K.own = Aggregates /\ Stacked(t)
  BY <1>1, CombFacts DEF CombInv, ExecInv
<1>3. /\ UNCHANGED <<results, exposed, combinator>> /\ Running(t, "subscribe")
  BY DEF Subscribe
<1>4. /\ a \in Aggregates /\ p \in Promises /\ a \in Promises /\ SubscribeAt(a, t, N - 1)
  BY <1>1, <1>2, <1>3, LoopFrame
<1>5. Len(results[a]) # 0 /\ Awaited(a, Len(results[a]))
  BY <1>2, <1>4 DEF ExecInv, SubscribeInv
<1>6. /\ SlotsInv' /\ ElementsInv'
      /\ s \in Promises /\ s \notin Existing
      /\ element'[s] # NoElement /\ element'[s].src = p /\ ~ IsElement(s)
      /\ \A q \in Promises : q # s => element'[q] = element[q]
      /\ Slot(s)' = Hole
  BY <1>1, <1>2, <1>4, <1>5, SubscribeSlots
<1>7. ExecInv'
  BY <1>2, SubscribeExec
<1>8. Aggregates' = Aggregates /\ s \notin Aggregates
  BY <1>2, <1>3, <1>6 DEF Aggregates, SlotsInv
<1>9. /\ Serves(L) /\ IsMore(L) /\ K.native \subseteq L.native /\ K.own \subseteq L.own
      /\ L.own = Aggregates'
      /\ \A n \in L.native : n \in K.native \/ n.on = s
      /\ \A x \in L.own : x \in K.own \/ x = s
  BY <1>1, <1>6, <1>8, CombinedGrows
<1>10. HInv(L)
  BY <1>2, <1>6, <1>9, WidenHolders
<1>11. /\ \E n \in L.native : n.fn = "onFulfilled" /\ n.on = s /\ n.src = p
       /\ \E n \in L.native : n.fn = "onRejected" /\ n.on = s /\ n.src = p
  <2>1. PICK f, g : /\ f = [fn |-> "onFulfilled", on |-> s, src |-> p, how |-> "fulfilled"]
                    /\ g = [fn |-> "onRejected", on |-> s, src |-> p, how |-> "rejected"]
    OBVIOUS
  <2>2. IsElement(s)'
    BY <1>6 DEF IsElement
  <2>3. f \in L.native /\ g \in L.native
    BY <1>1, <1>4, <1>6, <2>1, <2>2, CombinedIsNext
  <2>. QED  BY <2>1, <2>3
<1>12. created + 1 \notin L.own
  BY <1>1, <1>8, <1>9
<1>13. HInv(L)'
  BY <1>1, <1>2, <1>9, <1>10, <1>11, <1>12, SubscribeHolders
<1>14. ASSUME NEW q \in Promises, IsElement(q)', q \in exposed' \/ Slot(q)' # Hole
       PROVE  IsElement(q) /\ (q \in exposed \/ Slot(q) # Hole) /\ q # s
  <2>1. q # s
    <3>1. s \notin exposed'
      BY <1>2, <1>3, <1>6 DEF ScalarsOK
    <3>. QED  BY <1>6, <1>14, <3>1
  <2>2. element'[q] = element[q]
    BY <1>6, <2>1
  <2>. QED  BY <1>3, <1>14, <2>1, <2>2 DEF IsElement, Slot
<1>15. ASSUME NEW q \in Promises, IsElement(q)', q \in exposed' \/ Slot(q)' # Hole,
              NEW M, M = Without(L, q)
       PROVE  IInv(M)'
  <2>1. IsElement(q) /\ (q \in exposed \/ Slot(q) # Hole) /\ q # s
    BY <1>14, <1>15
  <2>2. IInv(Without(K, q))
    BY <1>1, <2>1 DEF CombInv, Handled
  <2>3. IInv(M)
    BY <1>2, <1>6, <1>9, <1>15, <2>1, <2>2, WithoutGrows
  <2>4. Serves(M)
    BY <1>9, <1>15, WithoutServes
  <2>5. /\ \E n \in M.native : n.fn = "onFulfilled" /\ n.on = s /\ n.src = p
        /\ \E n \in M.native : n.fn = "onRejected" /\ n.on = s /\ n.src = p
        /\ created + 1 \notin M.own
    BY <1>11, <1>12, <1>15, <2>1 DEF Without
  <2>. QED  BY <1>1, <1>2, <2>3, <2>4, <2>5, SubscribeKeepsInv
<1>16. Handled'
  <2>1. \A M, q : Without(M, q)' = Without(M, q)
    BY DEF Without
  <2>. QED  BY <1>1, <1>15, <2>1 DEF Handled
<1>. QED  BY <1>1, <1>6, <1>7, <1>13, <1>16 DEF CombInv

---------------------------------------------------------------------------
(* The invariant holds at first, through every step, and implies the        *)
(* shapes.                                                                  *)
LEMMA InitComb ==
  ASSUME CombInit  PROVE CombInv
<1>1. /\ Init
      /\ combinator = [p \in Promises |-> "none"]
      /\ phase = [p \in Promises |-> "none"]
      /\ remaining = [p \in Promises |-> 0]
      /\ decided = [p \in Promises |-> FALSE]
      /\ results = [p \in Promises |-> <<>>]
      /\ element = [p \in Promises |-> NoElement]
  BY DEF CombInit
<1>2. \A K : K = Combined => HInv(K)
  BY <1>1, InitHolders
<1>3. \A t \in Threads : Len(stack[t]) = 0 /\ stack[t] = <<>>
  BY <1>1 DEF Init
<1>4. ExecInv
  BY <1>3 DEF ExecInv, Stacked, OneLoop, SubscribeInv, SubscribeAt, LoopAt
<1>5. Aggregates = {} /\ \A q \in Promises : ~ IsElement(q)
  BY <1>1 DEF Aggregates, IsElement
<1>6. /\ \A a \in Promises : results[a] = <<>> /\ remaining[a] = 0 /\ Len(results[a]) = 0
      /\ budget = MaxPromises /\ MaxPromises \in Nat
  BY <1>1, PromiseAssumption DEF Init
<1>7. SlotsInv
  <2>1. Holes(<<>>) = {}
    BY DEF Holes
  <2>2. Cardinality({}) = 0
    BY FS_EmptySet
  <2>3. ASSUME NEW a \in Promises
        PROVE  /\ remaining[a] = Cardinality(Holes(results[a]))
               /\ Len(results[a]) + budget <= MaxPromises
    <3>1. Holes(results[a]) = {}
      BY <1>6, <2>1
    <3>2. remaining[a] = 0 /\ Len(results[a]) = 0
      BY <1>6
    <3>3. PICK L : L = Len(results[a])
      OBVIOUS
    <3>4. L + budget <= MaxPromises
      BY <1>6, <3>2, <3>3
    <3>5. Cardinality(Holes(results[a])) = 0
      BY <3>1, <2>2
    <3>. QED  BY <3>2, <3>3, <3>4, <3>5
  <2>4. results \in [Promises -> Seq({Hole} \cup [status : {"fulfilled", "rejected"}, value : Value])]
    BY <1>1
  <2>. QED  BY <1>1, <1>5, <2>3, <2>4 DEF SlotsInv
<1>8. ElementsInv
  BY <1>1, <1>5, <1>6 DEF ElementsInv
<1>9. Handled
  BY <1>5 DEF Handled
<1>. QED  BY <1>2, <1>4, <1>7, <1>8, <1>9 DEF CombInv

LEMMA StutterComb ==
  ASSUME CombInv, UNCHANGED <<vars, combinator, phase, remaining, decided, results, element>>
  PROVE  CombInv'
<1>1. PICK K : K = Combined
  OBVIOUS
<1>2. /\ HInv(K) /\ IsMore(K) /\ NextIsFree(K) /\ Serves(K)
      /\ ExecInv /\ SlotsInv /\ ElementsInv
  BY <1>1, CombFacts DEF CombInv
<1>3. /\ UNCHANGED <<combinator, element, results, phase, remaining, decided>>
      /\ UNCHANGED <<stack, created, exposed, budget>>
  BY DEF vars
<1>4. /\ Combined' = K /\ \A L, q : Without(L, q)' = Without(L, q)
      /\ \A q : IsElement(q)' <=> IsElement(q)
      /\ \A q : Slot(q)' = Slot(q)
  BY <1>1, <1>3, CombinedSame DEF Slot
<1>5. HInv(K)'
  BY <1>2, NextHolders
<1>6. ExecInv'
  <2>1. \A t \in Threads : Stacked(t)'
    BY <1>2, <1>3, OtherStacked DEF ExecInv
  <2>2. OneLoop'
    <3>1. \A x, u, d : LoopAt(x, u, d)' <=> LoopAt(x, u, d)
      BY <1>3 DEF LoopAt, FrameAt
    <3>. QED  BY <1>2, <3>1 DEF ExecInv, OneLoop
  <2>3. SubscribeInv'
    BY <1>2, <1>3 DEF ExecInv, SubscribeInv, SubscribeAt, LoopAt, FrameAt, Awaited, IsElement
  <2>. QED  BY <2>1, <2>2, <2>3 DEF ExecInv
<1>7. SlotsInv'
  BY <1>2, <1>3 DEF SlotsInv, Aggregates, Holes, Existing
<1>8. ElementsInv'
  BY <1>2, <1>3 DEF ElementsInv, IsElement, Aggregates, Awaited, Existing
<1>9. ASSUME NEW q \in Promises, IsElement(q), q \in exposed \/ Slot(q) # Hole,
             NEW L, L = Without(K, q)
      PROVE  IInv(L)'
  <2>1. IInv(L)
    BY <1>1, <1>9 DEF CombInv, Handled
  <2>2. IsMore(L)
    BY <1>2, <1>9, WithoutServes DEF Serves
  <2>3. NextIsFree(L)
    BY <1>2, <1>9 DEF NextIsFree, Reserved, Without
  <2>. QED  BY <2>1, <2>2, <2>3, NextInv
<1>10. Handled'
  BY <1>3, <1>4, <1>9 DEF Handled
<1>. QED  BY <1>4, <1>5, <1>6, <1>7, <1>8, <1>10 DEF CombInv

LEMMA NextComb ==
  ASSUME CombInv, [CombNext]_allVars  PROVE CombInv'
<1>1. CASE UNCHANGED allVars
  BY <1>1, StutterComb DEF allVars, combVars
<1>2. ASSUME NEW t \in Threads, CombApi(t)  PROVE CombInv'
  <2>1. CASE \E k \in Kinds : Combine(t, k)
    BY <2>1, CombineComb
  <2>2. CASE Api(t) /\ CombUnchanged
    BY <2>2, PromiseComb DEF PromiseStep
  <2>. QED  BY <1>2, <2>1, <2>2 DEF CombApi
<1>3. ASSUME NEW t \in Threads, CombNative(t)  PROVE CombInv'
  <2>1. CASE Subscribe(t)
    BY <2>1, SubscribeComb
  <2>2. CASE ElementFulfilled(t) \/ ElementRejected(t)
    BY <2>2, HandlerComb
  <2>3. CASE Native(t) /\ CombUnchanged
    BY <2>3, PromiseComb DEF PromiseStep
  <2>. QED  BY <1>3, <2>1, <2>2, <2>3 DEF CombNative
<1>4. ASSUME NEW t \in Threads, CombEndScript(t)  PROVE CombInv'
  <2>1. CASE \E v \in ElementValues : NextValue(t, v)
    BY <2>1, NextValueComb
  <2>2. CASE NextDone(t) \/ \E e \in Reasons : NextThrows(t, e)
    BY <2>2, LoopEndsComb
  <2>3. CASE ~ InIterator(t) /\ EndScript(t) /\ CombUnchanged
    BY <2>3, PromiseComb DEF PromiseStep
  <2>. QED  BY <1>4, <2>1, <2>2, <2>3 DEF CombEndScript
<1>5. ASSUME NEW t \in Threads, CombProcessMicrotasks(t)  PROVE CombInv'
  BY <1>5, PromiseComb DEF CombProcessMicrotasks, PromiseStep
<1>. QED  BY <1>1, <1>2, <1>3, <1>4, <1>5 DEF CombNext

LEMMA CombTyped ==
  ASSUME CombInv  PROVE CombTypeOK
<1>1. SlotsInv /\ ElementsInv
  BY DEF CombInv
<1>2. ASSUME NEW a \in Promises
      PROVE  /\ \A i \in 1..Len(results[a]) :
                  results[a][i] \in {Hole} \cup [status : {"fulfilled", "rejected"}, value : Value]
             /\ remaining[a] \in 0..Len(results[a])
  <2>1. PICK s : s = results[a]
    OBVIOUS
  <2>2. s \in Seq({Hole} \cup [status : {"fulfilled", "rejected"}, value : Value])
    BY <1>1, <2>1 DEF SlotsInv
  <2>3. /\ Len(s) \in Nat /\ Holes(s) \subseteq 1..Len(s)
        /\ \A i \in 1..Len(s) : s[i] \in {Hole} \cup [status : {"fulfilled", "rejected"}, value : Value]
    <3>1. Len(s) \in Nat
      BY <2>2
    <3>2. Holes(s) \subseteq 1..Len(s)
      BY DEF Holes
    <3>3. ASSUME NEW i \in 1..Len(s)
          PROVE  s[i] \in {Hole} \cup [status : {"fulfilled", "rejected"}, value : Value]
      BY <2>2, ElementOfSeq
    <3>. QED  BY <3>1, <3>2, <3>3
  <2>4. PICK L \in Nat : L = Len(s)
    BY <2>3
  <2>5. Cardinality(Holes(s)) <= Len(s) /\ Cardinality(Holes(s)) \in Nat
    <3>1. Cardinality(1..L) = L /\ IsFiniteSet(1..L)
      BY FS_Interval
    <3>2. Holes(s) \in SUBSET (1..L)
      BY <2>3, <2>4
    <3>3. Cardinality(Holes(s)) <= Cardinality(1..L)
      BY <3>1, <3>2, FS_Subset
    <3>4. Cardinality(Holes(s)) \in Nat
      BY <2>2, HolesFinite
    <3>. QED  BY <2>4, <3>1, <3>3, <3>4
  <2>6. remaining[a] = Cardinality(Holes(s))
    BY <1>1, <2>1 DEF SlotsInv
  <2>. QED  BY <2>1, <2>3, <2>5, <2>6
<1>. QED  BY <1>1, <1>2 DEF CombTypeOK, SlotsInv, ElementsInv

(* The combinators' state keeps its shape for any number of promises, any     *)
(* scripts and iterators and any number of threads that run a handler at a   *)
(* time: promise_static.cpp never counts an element off twice, so            *)
(* *remainingCount, a size_t, never goes below zero.                       *)
THEOREM CombTypeCorrect == CombSpec => []CombTypeOK
<1>1. CombInit => CombInv
  BY InitComb
<1>2. CombInv /\ [CombNext]_allVars => CombInv'
  BY NextComb
<1>3. CombInv => CombTypeOK
  BY CombTyped
<1>. QED  BY <1>1, <1>2, <1>3, PTL DEF CombSpec
=============================================================================
