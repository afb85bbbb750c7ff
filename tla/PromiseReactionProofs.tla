----------------------- MODULE PromiseReactionProofs -----------------------
(***************************************************************************)
(* Proofs about the reactions of Promise: who may settle a derived promise *)
(* (on any number of threads), and in which order reactions run (on one).  *)
(***************************************************************************)
EXTENDS PromiseProofs, FiniteSetTheorems
---------------------------------------------------------------------------
(* The frames put on a stack, written out.                                  *)
LEMMA ConcatTwo ==
  ASSUME NEW f, NEW g
  PROVE  <<f>> \o <<g>> = <<f, g>>
<1>. DEFINE S == {f, g}
<1>1. <<f>> \in Seq(S) /\ <<g>> \in Seq(S) /\ <<f, g>> \in Seq(S)
  OBVIOUS
<1>2. PICK a, b, c, d : a = <<f>> /\ b = <<g>> /\ c = a \o b /\ d = <<f, g>>
  OBVIOUS
<1>3. /\ Len(c) = 2 /\ c[1] = f /\ c[2] = g /\ c \in Seq(S)
  <2>1. Len(a) = 1 /\ Len(b) = 1 /\ a[1] = f /\ b[1] = g /\ a \in Seq(S) /\ b \in Seq(S)
    BY <1>1, <1>2
  <2>2. /\ c \in Seq(S) /\ Len(c) = 2
        /\ \A i \in 1..2 : c[i] = IF i <= 1 THEN a[i] ELSE b[i-1]
    <3>. HIDE DEF S
    <3>. QED BY <1>2, <2>1, ConcatProperties
  <2>. QED  BY <2>1, <2>2
<1>4. Len(d) = 2 /\ d[1] = f /\ d[2] = g /\ d \in Seq(S)
  BY <1>1, <1>2
<1>5. c = d
  <2>1. \A i \in 1..Len(c) : c[i] = d[i]
    BY <1>3, <1>4
  <2>. HIDE DEF S
  <2>. QED BY <1>3, <1>4, <2>1, SeqEqual
<1>. QED  BY <1>2, <1>5
(* The same for three frames.                                               *)
LEMMA ConcatThree ==
  ASSUME NEW f, NEW g, NEW h
  PROVE  <<f, g>> \o <<h>> = <<f, g, h>>
<1>. DEFINE S == {f, g, h}
<1>1. <<f, g>> \in Seq(S) /\ <<h>> \in Seq(S) /\ <<f, g, h>> \in Seq(S)
  OBVIOUS
<1>2. PICK a, b, c, d : a = <<f, g>> /\ b = <<h>> /\ c = a \o b /\ d = <<f, g, h>>
  OBVIOUS
<1>3. /\ Len(c) = 3 /\ c[1] = f /\ c[2] = g /\ c[3] = h /\ c \in Seq(S)
  <2>1. /\ Len(a) = 2 /\ Len(b) = 1 /\ a[1] = f /\ a[2] = g /\ b[1] = h
        /\ a \in Seq(S) /\ b \in Seq(S)
    BY <1>1, <1>2
  <2>2. /\ c \in Seq(S) /\ Len(c) = 3
        /\ \A i \in 1..3 : c[i] = IF i <= 2 THEN a[i] ELSE b[i-2]
    <3>. HIDE DEF S
    <3>. QED BY <1>2, <2>1, ConcatProperties
  <2>. QED  BY <2>1, <2>2
<1>4. Len(d) = 3 /\ d[1] = f /\ d[2] = g /\ d[3] = h /\ d \in Seq(S)
  BY <1>1, <1>2
<1>5. c = d
  <2>1. \A i \in 1..Len(c) : c[i] = d[i]
    BY <1>3, <1>4
  <2>. HIDE DEF S
  <2>. QED BY <1>3, <1>4, <2>1, SeqEqual
<1>. QED  BY <1>2, <1>5

---------------------------------------------------------------------------
(* Who holds the right to settle a promise.                                *)

(* A frame keeps its place while others come and go above it, so the frames *)
(* are counted from the bottom of the stack here; and as a batch is run from *)
(* its front, its jobs are counted from the end.                           *)
FrameAt(t, d) == stack[t][Len(stack[t]) + 1 - d]

InFrame(f, q, i) ==
  \/ i = 0 /\ ForFrame(f, q)
  \/ /\ f.kind \in {"enqueue", "batch"}
     /\ i \in 1..Len(f.jobs) /\ ForJob(f.jobs[Len(f.jobs) + 1 - i], q)

InQueue(q, i)        == i \in 1..Len(queue) /\ ForJob(queue[i], q)
InReactions(q, p, i) == i \in 1..Len(reactions[p]) /\ ForReaction(reactions[p][i], q)
InStack(q, t, d, i)  == d \in 1..Len(stack[t]) /\ InFrame(FrameAt(t, d), q, i)

(* The place <<x, d, i>> holds q: the i-th job of the queue, the i-th       *)
(* reaction of the promise x, the d-th frame of the thread x or, if i is    *)
(* not zero, its i-th job.                                                 *)
Holds(q, x, d, i) ==
  \/ d = 0 /\ x = NoPromise /\ InQueue(q, i)
  \/ d = 0 /\ x \in Promises /\ InReactions(q, x, i)
  \/ d # 0 /\ x \in Threads /\ InStack(q, x, d, i)

NoHolder(q) == \A x, d, i : ~ Holds(q, x, d, i)
OneHolder(q) ==
  \E x, d, i : /\ Holds(q, x, d, i)
               /\ \A y, e, j : Holds(q, y, e, j) => y = x /\ e = d /\ j = i
Sole(q) == IF state[q] = "Pending" THEN OneHolder(q) ELSE NoHolder(q)

(* The step leaves the places that hold q as they are, or only moves one.   *)
LEMMA SameHolders ==
  ASSUME NEW q \in Promises, Sole(q), state'[q] = state[q],
         \A x, d, i : Holds(q, x, d, i)' <=> Holds(q, x, d, i)
  PROVE  Sole(q)'
  BY DEF Sole, OneHolder, NoHolder

(* The step takes one place away from q and gives it another.               *)
LEMMA MovedHolder ==
  ASSUME NEW q \in Promises, Sole(q), state'[q] = state[q],
         NEW a, NEW b, NEW c, Holds(q, a, b, c),
         NEW x, NEW d, NEW i, Holds(q, x, d, i)',
         \A y, e, j : Holds(q, y, e, j)' =>
           \/ y = x /\ e = d /\ j = i
           \/ Holds(q, y, e, j) /\ ~(y = a /\ e = b /\ j = c)
  PROVE  Sole(q)'
  BY DEF Sole, OneHolder, NoHolder

---------------------------------------------------------------------------
(* What each part of a step does to the places.                            *)

(* A job is queued: one place more, behind the others.                      *)
LEMMA QueueAppend ==
  ASSUME NEW S, queue \in Seq(S), NEW job, queue' = Append(queue, job), NEW q \in Promises
  PROVE  \A i : InQueue(q, i)' <=> \/ InQueue(q, i)
                                   \/ i = Len(queue) + 1 /\ ForJob(job, q)
<1>1. Len(queue) \in Nat /\ Len(queue') = Len(queue) + 1
  BY LenProperties
<1>2. /\ \A i \in 1..Len(queue) : queue'[i] = queue[i]
      /\ queue'[Len(queue) + 1] = job
  BY <1>1
<1>3. \A i : InQueue(q, i)' <=> i \in 1..Len(queue') /\ ForJob(queue'[i], q)
  BY DEF InQueue, ForJob
<1>. QED  BY <1>1, <1>2, <1>3 DEF InQueue

(* A reaction is registered with p: one place more, behind the others.      *)
LEMMA ReactionAppend ==
  ASSUME NEW S, reactions \in [Promises -> Seq(S)], NEW p \in Promises, NEW r,
         reactions' = [reactions EXCEPT ![p] = Append(@, r)], NEW q \in Promises
  PROVE  \A x \in Promises : \A i :
           InReactions(q, x, i)' <=>
             \/ InReactions(q, x, i)
             \/ x = p /\ i = Len(reactions[p]) + 1 /\ ForReaction(r, q)
<1>1. reactions[p] \in Seq(S) /\ reactions'[p] = Append(reactions[p], r)
  OBVIOUS
<1>. DEFINE s == reactions[p]
            n == Append(s, r)
<1>2. Len(s) \in Nat /\ Len(n) = Len(s) + 1
  BY <1>1, LenProperties
<1>3. (\A i \in 1..Len(s) : n[i] = s[i]) /\ n[Len(s) + 1] = r
  BY <1>1, <1>2
<1>4. \A x \in Promises : x # p => reactions'[x] = reactions[x]
  OBVIOUS
<1>5. \A x, i : InReactions(q, x, i)' <=>
                  i \in 1..Len(reactions'[x]) /\ ForReaction(reactions'[x][i], q)
  BY DEF InReactions, ForReaction, ResolveFn
<1>. HIDE DEF n
<1>6. ASSUME NEW i
      PROVE  InReactions(q, p, i)' <=>
               InReactions(q, p, i) \/ (i = Len(s) + 1 /\ ForReaction(r, q))
  <2>1. InReactions(q, p, i)' <=> i \in 1..Len(n) /\ ForReaction(n[i], q)
    BY <1>1, <1>5 DEF n
  <2>2. InReactions(q, p, i) <=> i \in 1..Len(s) /\ ForReaction(s[i], q)
    BY DEF InReactions
  <2>. HIDE DEF s
  <2>3. i \in 1..Len(n) <=> i \in 1..Len(s) \/ i = Len(s) + 1
    BY <1>2
  <2>4. Len(s) + 1 \notin 1..Len(s)
    BY <1>2
  <2>. QED  BY <1>3, <2>1, <2>2, <2>3, <2>4
<1>. QED  BY <1>4, <1>5, <1>6 DEF InReactions

(* The frames above the height b are replaced by others.                    *)
LEMMA StackChange ==
  ASSUME NEW S, stack \in [Threads -> Seq(S)], NEW t \in Threads,
         NEW base \in Seq(S), Len(base) <= Len(stack[t]),
         \A d \in 1..Len(base) : base[Len(base) + 1 - d] = FrameAt(t, d),
         NEW T, NEW frames \in Seq(T),
         stack' = [stack EXCEPT ![t] = frames \o base], NEW q \in Promises
  PROVE  /\ \A u \in Threads : \A d, i : u # t
              => (InStack(q, u, d, i)' <=> InStack(q, u, d, i))
         /\ \A d \in 1..Len(base) : \A i : InStack(q, t, d, i)' <=> InStack(q, t, d, i)
         /\ \A k \in 1..Len(frames) : \A d, i :
              d = Len(base) + Len(frames) + 1 - k
                => (InStack(q, t, d, i)' <=> InFrame(frames[k], q, i))
         /\ \A d, i : InStack(q, t, d, i)' => d \in 1..(Len(base) + Len(frames))
<1>. DEFINE B == Len(base)
            N == Len(frames)
            new == frames \o base
<1>1. B \in Nat /\ N \in Nat /\ Len(stack[t]) \in Nat
  BY LenProperties
<1>2. Len(new) = N + B
  BY ConcatProperties
<1>3. /\ \A k \in 1..N : new[k] = frames[k]
      /\ \A k \in (N + 1)..(N + B) : new[k] = base[k - N]
  BY <1>1
<1>4. stack'[t] = new /\ \A u \in Threads : u # t => stack'[u] = stack[u]
  OBVIOUS
<1>5. \A u, d, i : InStack(q, u, d, i)' <=>
                     /\ d \in 1..Len(stack'[u])
                     /\ InFrame(stack'[u][Len(stack'[u]) + 1 - d], q, i)
  BY DEF InStack, FrameAt, InFrame, ForFrame, ForJob
<1>. HIDE DEF new
<1>6. \A d, i : InStack(q, t, d, i)' <=>
                  d \in 1..(N + B) /\ InFrame(new[N + B + 1 - d], q, i)
  BY <1>2, <1>4, <1>5
<1>7. ASSUME NEW d \in 1..B, NEW i
      PROVE  InStack(q, t, d, i)' <=> InStack(q, t, d, i)
  <2>1. new[N + B + 1 - d] = base[B + 1 - d]
    <3>1. N + B + 1 - d \in (N + 1)..(N + B) /\ (N + B + 1 - d) - N = B + 1 - d
      BY <1>1
    <3>. QED  BY <1>3, <3>1
  <2>2. base[B + 1 - d] = FrameAt(t, d) /\ d \in 1..(N + B) /\ d \in 1..Len(stack[t])
    BY <1>1
  <2>. QED  BY <1>6, <2>1, <2>2 DEF InStack
<1>8. ASSUME NEW k \in 1..N, NEW d, NEW i, d = B + N + 1 - k
      PROVE  InStack(q, t, d, i)' <=> InFrame(frames[k], q, i)
  <2>1. d \in 1..(N + B) /\ N + B + 1 - d = k
    BY <1>1, <1>8
  <2>. QED  BY <1>3, <1>6, <2>1
<1>. QED  BY <1>1, <1>4, <1>5, <1>6, <1>7, <1>8 DEF InStack, FrameAt

(* What a frame holds, by its kind.                                        *)
LEMMA FrameHolds ==
  ASSUME NEW f, NEW q, NEW i
  PROVE  /\ f.kind \in {"resolve", "reject"} => (InFrame(f, q, i) <=> i = 0 /\ f.on = q)
         /\ f.kind = "script" => (InFrame(f, q, i) <=> i = 0 /\ f.thr = q)
         /\ f.kind \in {"enqueue", "batch"} =>
              (InFrame(f, q, i) <=> /\ i \in 1..Len(f.jobs)
                                    /\ ForJob(f.jobs[Len(f.jobs) + 1 - i], q))
         /\ f.kind \notin {"resolve", "reject", "script", "enqueue", "batch"}
              => ~ InFrame(f, q, i)
  BY DEF InFrame, ForFrame

(* A call of a settling function holds the promise it settles.              *)
LEMMA CallHolds ==
  ASSUME NEW q, NEW i, NEW fn, NEW p, NEW v
  PROVE  /\ fn \in {"resolve", "reject"} => (InFrame(Call(fn, p, v), q, i) <=> i = 0 /\ p = q)
         /\ fn \notin {"resolve", "reject", "script", "enqueue", "batch"}
              => ~ InFrame(Call(fn, p, v), q, i)
  BY DEF Call, InFrame, ForFrame

(* A script holds the promise whose settling its end decides.               *)
LEMMA ScriptHolds ==
  ASSUME NEW q, NEW i, NEW ret, NEW thr, NEW wrapper, NEW arg
  PROVE  InFrame(Script(ret, thr, wrapper, arg), q, i) <=> i = 0 /\ thr = q
  BY DEF Script, InFrame, ForFrame

(* Two frames with the same jobs hold the same promises in the same places. *)
LEMMA JobsHold ==
  ASSUME NEW q, NEW i, NEW kind \in {"enqueue", "batch"}, NEW js
  PROVE  InFrame(Jobs(kind, js), q, i) <=>
           i \in 1..Len(js) /\ ForJob(js[Len(js) + 1 - i], q)
  BY DEF Jobs, InFrame, ForFrame

(* Running the first job leaves the places of the others.                   *)
LEMMA TailHolds ==
  ASSUME NEW S, NEW f, f.kind \in {"enqueue", "batch"}, f.jobs \in Seq(S), f.jobs # <<>>,
         NEW kind \in {"enqueue", "batch"}, NEW q, NEW i
  PROVE  /\ InFrame(Jobs(kind, Tail(f.jobs)), q, i) <=> InFrame(f, q, i) /\ i # Len(f.jobs)
         /\ InFrame(f, q, Len(f.jobs)) <=> ForJob(Head(f.jobs), q)
<1>. DEFINE js == f.jobs
            L == Len(js)
            T == Len(Tail(js))
<1>1. /\ L \in Nat /\ L >= 1 /\ T = L - 1
      /\ Head(js) = js[1]
      /\ \A k \in 1..T : Tail(js)[k] = js[k + 1]
  BY HeadTailProperties, LenProperties, EmptySeq
<1>2. i \in 1..T <=> i \in 1..L /\ i # L
  BY <1>1
<1>3. ASSUME i \in 1..T  PROVE Tail(js)[T + 1 - i] = js[L + 1 - i]
  <2>1. T + 1 - i \in 1..T /\ (T + 1 - i) + 1 = L + 1 - i
    BY <1>1, <1>3
  <2>. QED  BY <1>1, <2>1
<1>4. InFrame(Jobs(kind, Tail(js)), q, i) <=> i \in 1..T /\ ForJob(Tail(js)[T + 1 - i], q)
  BY JobsHold
<1>5. \A j : InFrame(f, q, j) <=> j \in 1..L /\ ForJob(js[L + 1 - j], q)
  BY FrameHolds
<1>6. L \in 1..L /\ L + 1 - L = 1
  BY <1>1
<1>. HIDE DEF L, T
<1>7. InFrame(f, q, L) <=> ForJob(Head(js), q)
  BY <1>1, <1>5, <1>6
<1>. QED  BY <1>2, <1>3, <1>4, <1>5, <1>7 DEF L

(* Replacing the innermost frame by none, one, two or three, and pushing.   *)
LEMMA ReplaceHolders ==
  ASSUME NEW K, IInv(K), NEW t \in Threads, stack[t] # <<>>,
         NEW frames, NEW T, frames \in Seq(T), Replace(t, frames), NEW q \in Promises,
         NEW D, D = Len(stack[t]), NEW N, N = Len(frames)
  PROVE  /\ D \in Nat /\ D >= 1 /\ N \in Nat
         /\ \A u \in Threads : \A d, i : ~(u = t /\ d \in Int /\ d >= D)
              => (InStack(q, u, d, i)' <=> InStack(q, u, d, i))
         /\ \A k \in 1..N : \A d, i :
              d = D + N - k => (InStack(q, t, d, i)' <=> InFrame(frames[k], q, i))
         /\ \A d, i : InStack(q, t, d, i)' => d \in 1..(D + N - 1)
         /\ \A d, i : InStack(q, t, d, i) => d \in 1..D
         /\ \A i : InStack(q, t, D, i) <=> InFrame(Head(stack[t]), q, i)
<1>. DEFINE s == stack[t]
            base == Tail(s)
            B == Len(base)
<1>1. /\ s \in Seq(FitFrame(K)) /\ base \in Seq(FitFrame(K))
      /\ B = D - 1 /\ D \in Nat /\ D >= 1 /\ N \in Nat
      /\ Head(s) = s[1]
      /\ \A k \in 1..B : base[k] = s[k + 1]
  BY HeadTailProperties, LenProperties, EmptySeq DEF IInv
<1>2. \A d \in 1..B : base[B + 1 - d] = FrameAt(t, d)
  <2>. SUFFICES ASSUME NEW d \in 1..B  PROVE base[B + 1 - d] = s[D + 1 - d]
    BY DEF FrameAt
  <2>1. B + 1 - d \in 1..B /\ (B + 1 - d) + 1 = D + 1 - d
    BY <1>1
  <2>. QED  BY <1>1, <2>1
<1>3. stack' = [stack EXCEPT ![t] = frames \o base]
  BY DEF Replace, IInv
<1>4. B <= Len(stack[t])
  BY <1>1
<1>. HIDE DEF base
<1>. HIDE DEF B
<1>5. /\ \A u \in Threads : \A d, i : u # t
              => (InStack(q, u, d, i)' <=> InStack(q, u, d, i))
      /\ \A d \in 1..B : \A i : InStack(q, t, d, i)' <=> InStack(q, t, d, i)
      /\ \A k \in 1..N : \A d, i :
           d = B + N + 1 - k => (InStack(q, t, d, i)' <=> InFrame(frames[k], q, i))
      /\ \A d, i : InStack(q, t, d, i)' => d \in 1..(B + N)
  <2>1. stack \in [Threads -> Seq(FitFrame(K))]
    BY DEF IInv
  <2>2. \A d \in 1..Len(base) : base[Len(base) + 1 - d] = FrameAt(t, d)
    BY <1>2 DEF B
  <2>3. Len(base) <= Len(stack[t]) /\ base \in Seq(FitFrame(K))
    BY <1>1, <1>4 DEF B
  <2>. HIDE DEF s
  <2>4. /\ \A u \in Threads : \A d, i : u # t
              => (InStack(q, u, d, i)' <=> InStack(q, u, d, i))
        /\ \A d \in 1..Len(base) : \A i : InStack(q, t, d, i)' <=> InStack(q, t, d, i)
        /\ \A k \in 1..Len(frames) : \A d, i :
             d = Len(base) + Len(frames) + 1 - k
               => (InStack(q, t, d, i)' <=> InFrame(frames[k], q, i))
        /\ \A d, i : InStack(q, t, d, i)' => d \in 1..(Len(base) + Len(frames))
    BY <1>3, <2>1, <2>2, <2>3, StackChange
  <2>. QED  BY <2>4 DEF B
<1>6. \A k \in 1..N : B + N + 1 - k = D + N - k
  BY <1>1
<1>7. \A d, i : InStack(q, t, d, i) => d \in 1..D
  BY DEF InStack
<1>8. \A i : InStack(q, t, D, i) <=> InFrame(Head(s), q, i)
  <2>1. D \in 1..D /\ D + 1 - D = 1
    BY <1>1
  <2>. QED  BY <1>1, <2>1 DEF InStack, FrameAt
<1>9. \A u \in Threads : \A d, i : ~(u = t /\ d \in Int /\ d >= D)
        => (InStack(q, u, d, i)' <=> InStack(q, u, d, i))
  <2>. SUFFICES ASSUME NEW d, NEW i, ~(d \in Int /\ d >= D)
                PROVE  InStack(q, t, d, i)' <=> InStack(q, t, d, i)
    BY <1>5
  <2>1. CASE d \in 1..B
    BY <2>1, <1>5
  <2>2. CASE d \notin 1..B
    <3>1. d \notin 1..D /\ d \notin 1..(B + N)
      BY <2>2, <1>1
    <3>. QED  BY <3>1, <1>5, <1>7
  <2>. QED  BY <2>1, <2>2
<1>10. B + N = D + N - 1
  BY <1>1
<1>. QED  BY <1>1, <1>5, <1>6, <1>7, <1>8, <1>9, <1>10

(* Of these frames, the one that comes to be at the height d holds q.       *)
Placed(frames, b, q, d, i) ==
  \E k \in 1..Len(frames) : d = b + Len(frames) - k /\ InFrame(frames[k], q, i)

(* The frame on top of a stack is the one at the stack's height.            *)
LEMMA TopPlace ==
  ASSUME NEW K, IInv(K), NEW t \in Threads, NEW q \in Promises
  PROVE  /\ Len(stack[t]) \in Nat
         /\ stack[t] # <<>> => Len(stack[t]) >= 1
         /\ stack[t] # <<>> => \A d, i : d = Len(stack[t]) =>
              (InStack(q, t, d, i) <=> InFrame(Head(stack[t]), q, i))
         /\ \A d, i : InStack(q, t, d, i) => d \in 1..Len(stack[t])
<1>1. stack[t] \in Seq(FitFrame(K))
  BY DEF IInv
<1>2. Len(stack[t]) \in Nat /\ (stack[t] # <<>> => Len(stack[t]) >= 1)
  BY <1>1, LenProperties, EmptySeq
<1>3. ASSUME stack[t] # <<>>, NEW d, NEW i, d = Len(stack[t])
      PROVE  InStack(q, t, d, i) <=> InFrame(Head(stack[t]), q, i)
  <2>1. d \in 1..Len(stack[t]) /\ Len(stack[t]) + 1 - d = 1
    BY <1>2, <1>3
  <2>2. Head(stack[t]) = stack[t][1]
    BY <1>1, <1>3, HeadTailProperties
  <2>. QED  BY <2>1, <2>2 DEF InStack, FrameAt
<1>. QED  BY <1>2, <1>3 DEF InStack

(* The top frame of t goes and `frames` come: the places below it, and those *)
(* of other threads, stay.                                                 *)
LEMMA ReplacePlaces ==
  ASSUME NEW K, IInv(K), NEW t \in Threads, stack[t] # <<>>,
         NEW frames, NEW T, frames \in Seq(T), Replace(t, frames),
         NEW q \in Promises
  PROVE  \A u \in Threads : \A d, i :
           InStack(q, u, d, i)' <=>
             \/ InStack(q, u, d, i) /\ ~(u = t /\ d = Len(stack[t]))
             \/ u = t /\ Placed(frames, Len(stack[t]), q, d, i)
<1>0. PICK D, N : D = Len(stack[t]) /\ N = Len(frames)
  OBVIOUS
<1>1. /\ D \in Nat /\ D >= 1 /\ N \in Nat
      /\ \A u \in Threads : \A d, i : ~(u = t /\ d \in Int /\ d >= D)
           => (InStack(q, u, d, i)' <=> InStack(q, u, d, i))
      /\ \A k \in 1..N : \A d, i :
           d = D + N - k => (InStack(q, t, d, i)' <=> InFrame(frames[k], q, i))
  BY <1>0, ReplaceHolders
<1>2. /\ \A d, i : InStack(q, t, d, i)' => d \in 1..(D + N - 1)
      /\ \A d, i : InStack(q, t, d, i) => d \in 1..D
  BY <1>0, ReplaceHolders
<1>20. \A i : InStack(q, t, D, i) <=> InFrame(Head(stack[t]), q, i)
  BY <1>0, ReplaceHolders
<1>3. ASSUME NEW d, NEW i
      PROVE  InStack(q, t, d, i)' <=>
                \/ InStack(q, t, d, i) /\ ~(d = D)
                \/ Placed(frames, D, q, d, i)
  <2>0. Placed(frames, D, q, d, i)
          <=> \E k \in 1..N : d = D + N - k /\ InFrame(frames[k], q, i)
    BY <1>0 DEF Placed
  <2>1. CASE d \in Int /\ d >= D
    <3>1. CASE d <= D + N - 1
      <4>1. D + N - d \in 1..N /\ d = D + N - (D + N - d)
        BY <1>1, <1>2, <2>1, <3>1
      <4>2. \A k \in 1..N : d = D + N - k => k = D + N - d
        BY <1>1, <1>2, <2>1
      <4>3. InStack(q, t, d, i) => d = D
        BY <1>1, <1>2, <2>1
      <4>. QED  BY <2>0, <1>1, <1>2, <4>1, <4>2, <4>3
    <3>2. CASE ~ (d <= D + N - 1)
      <4>1. \A k \in 1..N : d # D + N - k
        BY <1>1, <1>2, <2>1, <3>2
      <4>2. d \notin 1..(D + N - 1)
        BY <1>1, <1>2, <2>1, <3>2
      <4>3. InStack(q, t, d, i) => d = D
        BY <1>1, <1>2, <2>1
      <4>. QED  BY <2>0, <1>1, <1>2, <4>1, <4>2, <4>3
    <3>. QED  BY <3>1, <3>2
  <2>2. CASE ~ (d \in Int /\ d >= D)
    <3>1. \A k \in 1..N : d # D + N - k
      BY <1>1, <1>2, <2>2
    <3>2. d # D
      BY <1>1, <1>2, <2>2
    <3>. QED  BY <2>0, <1>1, <1>2, <2>2, <3>1, <3>2
  <2>. QED  BY <2>1, <2>2
<1>. QED  BY <1>0, <1>1, <1>2, <1>20, <1>3

(* A frame is pushed: all the places of before stay.                        *)
LEMMA PushPlaces ==
  ASSUME NEW K, IInv(K), NEW t \in Threads, NEW f, Push(t, f), NEW q \in Promises
  PROVE  /\ Len(stack[t]) \in Nat
         /\ \A d, i : InStack(q, t, d, i) => d \in 1..Len(stack[t])
         /\ \A u \in Threads : \A d, i :
              InStack(q, u, d, i)' <=>
                \/ InStack(q, u, d, i)
                \/ u = t /\ d = Len(stack[t]) + 1 /\ InFrame(f, q, i)
<1>0. PICK D : D = Len(stack[t])
  OBVIOUS
<1>1. PICK base : base = stack[t]
  OBVIOUS
<1>2. /\ stack \in [Threads -> Seq(FitFrame(K))]
      /\ base \in Seq(FitFrame(K)) /\ Len(base) = D /\ D \in Nat
      /\ Len(base) <= Len(stack[t])
  BY <1>0, <1>1, LenProperties DEF IInv
<1>3. PICK frames : frames = <<f>>
  OBVIOUS
<1>4. frames \in Seq({f}) /\ Len(frames) = 1 /\ frames[1] = f
  BY <1>3
<1>5. stack' = [stack EXCEPT ![t] = frames \o base]
  BY <1>1, <1>2, <1>3 DEF Push
<1>6. \A d \in 1..Len(base) : base[Len(base) + 1 - d] = FrameAt(t, d)
  BY <1>1 DEF FrameAt
<1>7. /\ \A u \in Threads : \A d, i : u # t
           => (InStack(q, u, d, i)' <=> InStack(q, u, d, i))
      /\ \A d \in 1..Len(base) : \A i : InStack(q, t, d, i)' <=> InStack(q, t, d, i)
      /\ \A k \in 1..Len(frames) : \A d, i :
           d = Len(base) + Len(frames) + 1 - k
             => (InStack(q, t, d, i)' <=> InFrame(frames[k], q, i))
      /\ \A d, i : InStack(q, t, d, i)' => d \in 1..(Len(base) + Len(frames))
  BY <1>2, <1>4, <1>5, <1>6, StackChange
<1>8. \A d, i : InStack(q, t, d, i) => d \in 1..D
  BY <1>0 DEF InStack
<1>9. D \in Nat /\ (\A d : d \in 1..(D + 1) <=> d \in 1..D \/ d = D + 1)
  <2>1. D \in Nat
    BY <1>2
  <2>. QED  BY <2>1
<1>10. \A i : \A d : d = D + 1 => (InStack(q, t, d, i)' <=> InFrame(f, q, i))
  BY <1>2, <1>4, <1>7
<1>11. D + 1 \notin 1..D
  BY <1>2
<1>12. \A d, i : InStack(q, t, d, i)' => d \in 1..(D + 1)
  BY <1>2, <1>4, <1>7
<1>. QED  BY <1>0, <1>2, <1>7, <1>8, <1>9, <1>10, <1>11, <1>12

(* What a step does not write keeps its places.                             *)
LEMMA QueueSame ==
  ASSUME UNCHANGED queue, NEW q \in Promises
  PROVE  \A i : InQueue(q, i)' <=> InQueue(q, i)
  BY DEF InQueue, ForJob

(* The same for the reactions.                                              *)
LEMMA ReactionsSame ==
  ASSUME UNCHANGED reactions, NEW q \in Promises
  PROVE  \A p, i : InReactions(q, p, i)' <=> InReactions(q, p, i)
  BY DEF InReactions, ForReaction, ResolveFn

(* The same for the stacks.                                                 *)
LEMMA StackSame ==
  ASSUME UNCHANGED stack, NEW q \in Promises
  PROVE  \A t, d, i : InStack(q, t, d, i)' <=> InStack(q, t, d, i)
  BY DEF InStack, FrameAt, InFrame, ForFrame, ForJob

(* A step on the stack that does not concern q.                             *)
LEMMA ReplaceSame ==
  ASSUME NEW K, IInv(K), NEW t \in Threads, stack[t] # <<>>,
         NEW f, Replace(t, <<f>>), NEW q \in Promises, UNCHANGED <<queue, reactions>>,
         \A i : InFrame(f, q, i) <=> InFrame(Head(stack[t]), q, i)
  PROVE  \A x, d, i : Holds(q, x, d, i)' <=> Holds(q, x, d, i)
<1>1. PICK frames : frames = <<f>>
  OBVIOUS
<1>2. frames \in Seq({f}) /\ Len(frames) = 1 /\ frames[1] = f
  BY <1>1
<1>3. Replace(t, frames)
  BY <1>1
<1>4. \A u \in Threads : \A d, i :
        InStack(q, u, d, i)' <=>
          \/ InStack(q, u, d, i) /\ ~(u = t /\ d = Len(stack[t]))
          \/ u = t /\ Placed(frames, Len(stack[t]), q, d, i)
  BY <1>2, <1>3, ReplacePlaces
<1>5. \A d, i : Placed(frames, Len(stack[t]), q, d, i) <=>
                  d = Len(stack[t]) /\ InFrame(f, q, i)
  BY <1>2, TopPlace DEF Placed
<1>6. \A u \in Threads : \A d, i : InStack(q, u, d, i)' <=> InStack(q, u, d, i)
  BY <1>4, <1>5, TopPlace
<1>. QED  BY <1>6, QueueSame, ReactionsSame DEF Holds

(* The places in no frame, in one, two and three.                           *)
LEMMA PlacedNone ==
  ASSUME NEW b, NEW q
  PROVE  \A d, i : ~ Placed(<<>>, b, q, d, i)
  BY DEF Placed

(* One frame, at the height b.                                              *)
LEMMA PlacedOne ==
  ASSUME NEW f, NEW b \in Nat, NEW q
  PROVE  \A d, i : Placed(<<f>>, b, q, d, i) <=> d = b /\ InFrame(f, q, i)
  BY DEF Placed

(* Two frames: the first is the upper one.                                  *)
LEMMA PlacedTwo ==
  ASSUME NEW f, NEW g, NEW b \in Nat, NEW q
  PROVE  \A d, i : Placed(<<f, g>>, b, q, d, i) <=>
           \/ d = b + 1 /\ InFrame(f, q, i)
           \/ d = b /\ InFrame(g, q, i)
<1>1. <<f, g>>[1] = f /\ <<f, g>>[2] = g /\ b + 2 - 1 = b + 1 /\ b + 2 - 2 = b
  OBVIOUS
<1>2. \A d, i : Placed(<<f, g>>, b, q, d, i) <=>
        \/ d = b + 2 - 1 /\ InFrame(<<f, g>>[1], q, i)
        \/ d = b + 2 - 2 /\ InFrame(<<f, g>>[2], q, i)
  <2>1. Len(<<f, g>>) = 2 /\ 1..2 = {1, 2}
    OBVIOUS
  <2>. QED  BY <2>1 DEF Placed
<1>. QED  BY <1>1, <1>2

(* Three frames.                                                            *)
LEMMA PlacedThree ==
  ASSUME NEW f, NEW g, NEW h, NEW b \in Nat, NEW q
  PROVE  \A d, i : Placed(<<f, g, h>>, b, q, d, i) <=>
           \/ d = b + 2 /\ InFrame(f, q, i)
           \/ d = b + 1 /\ InFrame(g, q, i)
           \/ d = b /\ InFrame(h, q, i)
<1>1. /\ <<f, g, h>>[1] = f /\ <<f, g, h>>[2] = g /\ <<f, g, h>>[3] = h
      /\ b + 3 - 1 = b + 2 /\ b + 3 - 2 = b + 1 /\ b + 3 - 3 = b
  OBVIOUS
<1>2. \A d, i : Placed(<<f, g, h>>, b, q, d, i) <=>
        \/ d = b + 3 - 1 /\ InFrame(<<f, g, h>>[1], q, i)
        \/ d = b + 3 - 2 /\ InFrame(<<f, g, h>>[2], q, i)
        \/ d = b + 3 - 3 /\ InFrame(<<f, g, h>>[3], q, i)
  <2>1. Len(<<f, g, h>>) = 3 /\ 1..3 = {1, 2, 3}
    OBVIOUS
  <2>. QED  BY <2>1 DEF Placed
<1>. QED  BY <1>1, <1>2

(* A frame is popped: its places go, no others come.                        *)
LEMMA PopPlaces ==
  ASSUME NEW K, IInv(K), NEW t \in Threads, stack[t] # <<>>, Replace(t, <<>>),
         NEW q \in Promises
  PROVE  \A u \in Threads : \A d, i :
           InStack(q, u, d, i)' <=> InStack(q, u, d, i) /\ ~(u = t /\ d = Len(stack[t]))
<1>1. PICK frames : frames = <<>>
  OBVIOUS
<1>2. frames \in Seq({}) /\ Len(frames) = 0 /\ Replace(t, frames)
  BY <1>1
<1>3. \A u \in Threads : \A d, i :
        InStack(q, u, d, i)' <=>
          \/ InStack(q, u, d, i) /\ ~(u = t /\ d = Len(stack[t]))
          \/ u = t /\ Placed(frames, Len(stack[t]), q, d, i)
  BY <1>2, ReplacePlaces
<1>. QED  BY <1>1, <1>3, PlacedNone

(* A frame that does not hold q is popped.                                  *)
LEMMA PopSame ==
  ASSUME NEW K, IInv(K), NEW t \in Threads, stack[t] # <<>>, Replace(t, <<>>),
         NEW q \in Promises, UNCHANGED <<queue, reactions>>,
         \A i : ~ InFrame(Head(stack[t]), q, i)
  PROVE  \A x, d, i : Holds(q, x, d, i)' <=> Holds(q, x, d, i)
<1>1. \A u \in Threads : \A d, i : InStack(q, u, d, i)' <=> InStack(q, u, d, i)
  BY PopPlaces, TopPlace
<1>. QED  BY <1>1, QueueSame, ReactionsSame DEF Holds

(* A frame that does not hold q is pushed.                                  *)
LEMMA PushSame ==
  ASSUME NEW K, IInv(K), NEW t \in Threads, NEW f, Push(t, f),
         NEW q \in Promises, UNCHANGED <<queue, reactions>>,
         \A i : ~ InFrame(f, q, i)
  PROVE  \A x, d, i : Holds(q, x, d, i)' <=> Holds(q, x, d, i)
<1>1. \A u \in Threads : \A d, i : InStack(q, u, d, i)' <=> InStack(q, u, d, i)
  BY PushPlaces
<1>. QED  BY <1>1, QueueSame, ReactionsSame DEF Holds

(* The promises that the actions do not make keep their state, but for the  *)
(* one that is settled.                                                    *)
LEMMA ExistingKept ==
  ASSUME NEW K, IInv(K), created < MaxPromises, NEW born,
         state' = [state EXCEPT ![created + 1] = born], NEW q \in Existing
  PROVE  q \in Promises /\ q # created + 1 /\ state'[q] = state[q]
  BY Numbers DEF IInv, ScalarsOK, Existing

---------------------------------------------------------------------------
(* The constructor makes an exposed promise; no other's places move.        *)
LEMMA NewPromiseSole ==
  ASSUME NEW K, IsMore(K), IInv(K), NEW t \in Threads, NewPromise(t),
         NEW q \in Existing, Sole(q)
  PROVE  Sole(q)'
<1>. USE DEF NewPromise
<1>1. q \in Promises /\ q # created + 1 /\ state'[q] = state[q]
  BY ExistingKept
<1>2. \A i : ~ InFrame(Script(NoPromise, created + 1, "no", Undefined), q, i)
  BY <1>1, ScriptHolds
<1>3. \A x, d, i : Holds(q, x, d, i)' <=> Holds(q, x, d, i)
  BY <1>1, <1>2, PushSame
<1>. QED  BY <1>1, <1>3, SameHolders

(* A script calls the resolving function of an exposed promise.             *)
LEMMA CallResolveSole ==
  ASSUME NEW K, IsMore(K), IInv(K), NEW t \in Threads, NEW p \in Promises, NEW v,
         CallResolve(t, p, v), NEW q \in Existing \ exposed, Sole(q)
  PROVE  Sole(q)'
<1>. USE DEF CallResolve
<1>1. q \in Promises /\ q # p
  BY Numbers DEF IInv
<1>2. \A i : ~ InFrame(Call("resolve", p, v), q, i)
  BY <1>1, CallHolds
<1>3. \A x, d, i : Holds(q, x, d, i)' <=> Holds(q, x, d, i)
  BY <1>1, <1>2, PushSame
<1>. QED  BY <1>1, <1>3, SameHolders

(* A script calls the rejecting function of an exposed promise.             *)
LEMMA CallRejectSole ==
  ASSUME NEW K, IsMore(K), IInv(K), NEW t \in Threads, NEW p \in Promises, NEW e,
         CallReject(t, p, e), NEW q \in Existing \ exposed, Sole(q)
  PROVE  Sole(q)'
<1>. USE DEF CallReject
<1>1. q \in Promises /\ q # p
  BY Numbers DEF IInv
<1>2. \A i : ~ InFrame(Call("reject", p, e), q, i)
  BY <1>1, CallHolds
<1>3. \A x, d, i : Holds(q, x, d, i)' <=> Holds(q, x, d, i)
  BY <1>1, <1>2, PushSame
<1>. QED  BY <1>1, <1>3, SameHolders

(* What the frames, jobs and reactions that fit may hold.                   *)
LEMMA JobHolds ==
  ASSUME NEW K, IsMore(K), ScalarsOK, NEW job \in FitJob(K), NEW q \in Promises, ForJob(job, q)
  PROVE  /\ q <= created
         /\ job.kind = "then" => job.to = q
         /\ job.handler.fn \notin {"resolve", "reject"} => job.to = q
<1>1. /\ job.to <= created /\ job.handler.on <= created
      /\ job.handler \in AnyHandler(K)
      /\ job.kind = "then" => job.handler = None
      /\ job.handler.fn \in Natives(K) => job.handler.on = job.to
  BY DEF FitJob, AnyJob, HandlerFits, AnyHandler, Handler, None
<1>2. q # NoPromise
  BY Numbers
<1>3. job.handler.fn \notin {"resolve", "reject"} => job.handler.on = NoPromise \/ job.handler.on = job.to
  BY <1>1 DEF AnyHandler, Handler
<1>. QED  BY <1>1, <1>2, <1>3 DEF ForJob, None

(* A frame that fits holds only promises that exist.                        *)
LEMMA FrameHolders ==
  ASSUME NEW K, IsMore(K), ScalarsOK, NEW f \in FitFrame(K), NEW q \in Promises, NEW i,
         InFrame(f, q, i)
  PROVE  q <= created
<1>1. CASE f \in FitCall(K) \cup FitNative(K) \cup FitScript(K)
  <2>1. f.kind \notin {"enqueue", "batch"}
    BY <1>1 DEF FitCall, FitNative, FitScript, ScriptFrame, IsMore, Natives
  <2>2. f.kind \in {"resolve", "reject"} => f.on <= created
    BY <1>1 DEF FitCall, FitNative, FitScript, ScriptFrame
  <2>3. f.kind = "script" => f.thr <= created
    BY <1>1 DEF FitCall, FitNative, FitScript, IsMore, Natives
  <2>. QED  BY <2>1, <2>2, <2>3 DEF InFrame, ForFrame
<1>2. CASE f \in [kind : {"enqueue", "batch"}, jobs : Seq(FitJob(K))]
  <2>1. /\ f.kind \in {"enqueue", "batch"} /\ f.jobs \in Seq(FitJob(K))
        /\ i \in 1..Len(f.jobs) /\ ForJob(f.jobs[Len(f.jobs) + 1 - i], q)
    BY <1>2 DEF InFrame, ForFrame
  <2>2. Len(f.jobs) + 1 - i \in 1..Len(f.jobs)
    BY <2>1, LenProperties
  <2>3. f.jobs[Len(f.jobs) + 1 - i] \in FitJob(K)
    BY <2>1, <2>2, ElementOfSeq
  <2>. QED  BY <2>1, <2>3, JobHolds
<1>. QED  BY <1>1, <1>2 DEF FitFrame

(* Nobody holds a promise that is yet to be made.                           *)
LEMMA NoneHoldsUnborn ==
  ASSUME NEW K, IsMore(K), IInv(K), NEW q \in Promises, q > created
  PROVE  NoHolder(q)
<1>0. ScalarsOK /\ created \in Nat /\ q \in Nat
  BY Numbers DEF IInv
<1>1. \A i : ~ InQueue(q, i)
  BY <1>0, JobHolds, ElementOfSeq DEF IInv, InQueue
<1>2. \A p \in Promises : \A i : ~ InReactions(q, p, i)
  <2>. SUFFICES ASSUME NEW p \in Promises, NEW i, InReactions(q, p, i)  PROVE FALSE
    OBVIOUS
  <2>1. reactions[p][i] \in FitReaction(K)
    BY ElementOfSeq DEF IInv, InReactions
  <2>2. /\ reactions[p][i].to <= created
        /\ reactions[p][i].onFulfilled.on <= created
    BY <2>1 DEF FitReaction, HandlerFits
  <2>. QED  BY <1>0, <2>2 DEF InReactions, ForReaction, ResolveFn
<1>3. \A t \in Threads : \A d, i : ~ InStack(q, t, d, i)
  <2>. SUFFICES ASSUME NEW t \in Threads, NEW d, NEW i, InStack(q, t, d, i)  PROVE FALSE
    OBVIOUS
  <2>1. FrameAt(t, d) \in FitFrame(K)
    <3>1. stack[t] \in Seq(FitFrame(K)) /\ d \in 1..Len(stack[t])
      BY DEF IInv, InStack
    <3>2. Len(stack[t]) + 1 - d \in 1..Len(stack[t])
      BY <3>1, LenProperties
    <3>. QED  BY <3>1, <3>2, ElementOfSeq DEF FrameAt
  <2>. QED  BY <1>0, <2>1, FrameHolders DEF InStack
<1>. QED  BY <1>1, <1>2, <1>3 DEF NoHolder, Holds

(* then() adds the place of its pair of reactions or of their job.          *)
LEMMA RegisterPlaces ==
  ASSUME NEW K, IsMore(K), IInv(K), NEW p \in Promises, NEW f, NEW g, f.on = g.on,
         Register(p, f, g), NEW q \in Promises,
         f.on = q /\ q # created + 1 => f = ResolveFn(q)
  PROVE  \E x \in Promises \cup {NoPromise}, n \in Nat :
           /\ \A i : InQueue(q, i)' <=>
                \/ InQueue(q, i)
                \/ x = NoPromise /\ i = n /\ q \in {created + 1, f.on}
           /\ \A y \in Promises : \A i : InReactions(q, y, i)' <=>
                \/ InReactions(q, y, i)
                \/ y = x /\ i = n /\ q \in {created + 1, f.on}
           /\ ~ Holds(q, x, 0, n)
<1>. USE DEF Register
<1>0. NoPromise \notin Promises
  BY Numbers DEF IInv
<1>1. CASE state[p] = "Pending"
  <2>. DEFINE r == [onFulfilled |-> f, onRejected |-> g, to |-> created + 1]
              n == Len(reactions[p]) + 1
  <2>1. \A x \in Promises : \A i : InReactions(q, x, i)' <=>
             \/ InReactions(q, x, i)
             \/ x = p /\ i = n /\ ForReaction(r, q)
    BY <1>1, ReactionAppend DEF IInv
  <2>2. ForReaction(r, q) <=> q \in {created + 1, f.on}
    BY DEF ForReaction, ResolveFn
  <2>3. ~ InReactions(q, p, n)
    BY LenProperties DEF InReactions, IInv
  <2>4. \A i : InQueue(q, i)' <=> InQueue(q, i)
    BY <1>1, QueueSame
  <2>5. ~ Holds(q, p, 0, n)
    BY <1>0, <2>3 DEF Holds
  <2>6. n \in Nat
    BY LenProperties DEF IInv
  <2>. HIDE DEF n, r
  <2>. QED  BY <1>0, <2>1, <2>2, <2>4, <2>5, <2>6
<1>2. ASSUME NEW h, h.on = f.on, NEW kind,
             queue' = Append(queue, ReactionJob(kind, p, h, created + 1)),
             UNCHANGED reactions
      PROVE  \E x \in Promises \cup {NoPromise}, n \in Nat :
           /\ \A i : InQueue(q, i)' <=>
                \/ InQueue(q, i)
                \/ x = NoPromise /\ i = n /\ q \in {created + 1, f.on}
           /\ \A y \in Promises : \A i : InReactions(q, y, i)' <=>
                \/ InReactions(q, y, i)
                \/ y = x /\ i = n /\ q \in {created + 1, f.on}
           /\ ~ Holds(q, x, 0, n)
  <2>. DEFINE job == ReactionJob(kind, p, h, created + 1)
              n == Len(queue) + 1
  <2>1. \A i : InQueue(q, i)' <=> InQueue(q, i) \/ (i = n /\ ForJob(job, q))
    BY <1>2, QueueAppend DEF IInv
  <2>2. ForJob(job, q) <=> q \in {created + 1, f.on}
    BY <1>2 DEF ForJob, ReactionJob
  <2>3. ~ InQueue(q, n)
    BY LenProperties DEF InQueue, IInv
  <2>4. \A y, i : InReactions(q, y, i)' <=> InReactions(q, y, i)
    BY <1>2, ReactionsSame
  <2>5. ~ Holds(q, NoPromise, 0, n)
    BY <1>0, <2>3 DEF Holds
  <2>6. n \in Nat
    BY LenProperties DEF IInv
  <2>. HIDE DEF n, job
  <2>. QED  BY <1>0, <2>1, <2>2, <2>4, <2>5, <2>6
<1>. QED  BY <1>1, <1>2

(* The pair of reactions is the only holder of the derived promise.         *)
LEMMA NoneHoldsNext ==
  ASSUME NEW K, IsMore(K), IInv(K), NEW q \in Promises, q = created + 1
  PROVE  NoHolder(q)
<1>1. created \in Nat /\ q > created
  BY Numbers DEF IInv
<1>. QED  BY <1>1, NoneHoldsUnborn

(* The derived promise is born with the one place x, n, wherever then() put *)
(* its reaction.                                                           *)
LEMMA DerivedSole ==
  ASSUME NEW K, IsMore(K), IInv(K), NEW q \in Promises, q = created + 1,
         state'[q] = "Pending",
         NEW x \in Promises \cup {NoPromise}, NEW n,
         \A i : InQueue(q, i)' <=> InQueue(q, i) \/ (x = NoPromise /\ i = n),
         \A y \in Promises : \A i :
           InReactions(q, y, i)' <=> InReactions(q, y, i) \/ (y = x /\ i = n),
         \A t \in Threads : \A d, i : InStack(q, t, d, i)' => ~(d # 0)
  PROVE  Sole(q)'
<1>1. NoHolder(q)
  BY NoneHoldsNext
<1>2. NoPromise \notin Promises
  BY Numbers DEF IInv
<1>3. /\ \A i : ~ InQueue(q, i)
      /\ \A y \in Promises : \A i : ~ InReactions(q, y, i)
  BY <1>1 DEF NoHolder, Holds
<1>4. Holds(q, x, 0, n)'
  BY <1>2 DEF Holds
<1>5. ASSUME NEW y, NEW e, NEW j, Holds(q, y, e, j)'
      PROVE  y = x /\ e = 0 /\ j = n
  <2>1. \/ e = 0 /\ y = NoPromise /\ InQueue(q, j)'
        \/ e = 0 /\ y \in Promises /\ InReactions(q, y, j)'
    BY <1>5 DEF Holds
  <2>2. ASSUME InQueue(q, j)'  PROVE x = NoPromise /\ j = n
    BY <1>3, <2>2
  <2>3. ASSUME y \in Promises, InReactions(q, y, j)'  PROVE y = x /\ j = n
    BY <1>3, <2>3
  <2>. QED  BY <2>1, <2>2, <2>3
<1>. QED  BY <1>4, <1>5 DEF Sole, OneHolder

(* then() on p makes a derived promise: settled or not, p keeps its places. *)
LEMMA CallThenSole ==
  ASSUME NEW K, IsMore(K), IInv(K), NEW t \in Threads, NEW p \in Promises,
         NEW pair \in ScriptHandlers, CallThen(t, p, pair),
         NEW q \in Promises, q \in Existing \/ q = created + 1,
         q \in Existing => Sole(q)
  PROVE  Sole(q)'
<1>. USE DEF CallThen
<1>1. pair[1].on = NoPromise /\ pair[2].on = NoPromise
  BY PromiseAssumption DEF None, Js, Finally
<1>2. /\ q # NoPromise /\ created < MaxPromises
      /\ state' = [state EXCEPT ![created + 1] = "Pending"]
  BY Numbers DEF Register, IInv
<1>3. PICK x \in Promises \cup {NoPromise}, n \in Nat :
        /\ \A i : InQueue(q, i)' <=>
             \/ InQueue(q, i)
             \/ x = NoPromise /\ i = n /\ q \in {created + 1, NoPromise}
        /\ \A y \in Promises : \A i : InReactions(q, y, i)' <=>
             \/ InReactions(q, y, i)
             \/ y = x /\ i = n /\ q \in {created + 1, NoPromise}
        /\ ~ Holds(q, x, 0, n)
  BY <1>1, <1>2, RegisterPlaces
<1>4. \A u, d, i : InStack(q, u, d, i)' <=> InStack(q, u, d, i)
  BY StackSame
<1>5. CASE q # created + 1
  <2>1. state'[q] = state[q]
    BY <1>2, <1>5, ExistingKept
  <2>2. \A y, d, i : Holds(q, y, d, i)' <=> Holds(q, y, d, i)
    BY <1>2, <1>3, <1>4, <1>5 DEF Holds
  <2>. QED  BY <1>5, <2>1, <2>2, SameHolders
<1>6. CASE q = created + 1
  <2>1. NoHolder(q)
    BY <1>6, NoneHoldsNext
  <2>2. \A u \in Threads : \A d, i : InStack(q, u, d, i)' => ~(d # 0)
    BY <1>4, <2>1 DEF NoHolder, Holds
  <2>3. state'[q] = "Pending"
    BY <1>2, <1>6 DEF IInv, ScalarsOK
  <2>. QED  BY <1>3, <1>6, <2>2, <2>3, DerivedSole
<1>. QED  BY <1>5, <1>6

---------------------------------------------------------------------------
(* A frame that ends, or that another one replaces.                         *)
LEMMA EndBatchSole ==
  ASSUME NEW K, IsMore(K), IInv(K), NEW t \in Threads, EndBatch(t),
         NEW q \in Promises, Sole(q)
  PROVE  Sole(q)'
<1>. USE DEF EndBatch
<1>1. stack[t] # <<>> /\ Head(stack[t]).kind = "batch"
  BY DEF Running
<1>2. \A i : ~ InFrame(Head(stack[t]), q, i)
  BY <1>1, FrameHolds
<1>3. \A x, d, i : Holds(q, x, d, i)' <=> Holds(q, x, d, i)
  BY <1>1, <1>2, PopSame
<1>. QED  BY <1>3, SameHolders

(* The value of a foreign `then` or an executor is dropped: only an exposed *)
(* promise may lose its holder so.                                         *)
LEMMA ReturnIgnoredSole ==
  ASSUME NEW K, IsMore(K), IInv(K), NEW t \in Threads, ReturnIgnored(t),
         NEW q \in Promises, q # Head(stack[t]).thr, Sole(q)
  PROVE  Sole(q)'
<1>. USE DEF ReturnIgnored
<1>1. stack[t] # <<>> /\ Head(stack[t]).kind = "script"
  BY DEF Running
<1>2. \A i : ~ InFrame(Head(stack[t]), q, i)
  BY <1>1, FrameHolds
<1>3. \A x, d, i : Holds(q, x, d, i)' <=> Holds(q, x, d, i)
  BY <1>1, <1>2, PopSame
<1>. QED  BY <1>3, SameHolders

(* A script that ends with a call settles the promise it would have.        *)
LEMMA ScriptToCall ==
  ASSUME NEW K, IsMore(K), IInv(K), NEW t \in Threads, Running(t, "script"),
         NEW fn \in {"resolve", "reject"}, NEW v,
         NEW p, p = Head(stack[t]).thr,
         Replace(t, <<Call(fn, p, v)>>),
         UNCHANGED <<queue, reactions>>,
         NEW q \in Promises, state'[q] = state[q], Sole(q)
  PROVE  Sole(q)'
<1>1. stack[t] # <<>> /\ Head(stack[t]).kind = "script"
  BY DEF Running
<1>2. \A i : InFrame(Call(fn, p, v), q, i) <=> InFrame(Head(stack[t]), q, i)
  BY <1>1, FrameHolds, CallHolds
<1>3. \A x, d, i : Holds(q, x, d, i)' <=> Holds(q, x, d, i)
  BY <1>1, <1>2, ReplaceSame
<1>. QED  BY <1>3, SameHolders

(* A callback returns: the resolve of its derived promise takes over.       *)
LEMMA ReturnValueSole ==
  ASSUME NEW K, IsMore(K), IInv(K), NEW t \in Threads, NEW v, ReturnValue(t, v),
         NEW q \in Promises, Sole(q)
  PROVE  Sole(q)'
  BY HeadFrame, ScriptToCall DEF ReturnValue, Running

(* A finally callback returns: the settling call takes over.                *)
LEMMA ReturnFinallySole ==
  ASSUME NEW K, IsMore(K), IInv(K), NEW t \in Threads, NEW v, ReturnFinally(t, v),
         NEW q \in Promises, Sole(q)
  PROVE  Sole(q)'
<1>1. /\ Head(stack[t]).ret = Head(stack[t]).thr
  BY HeadFrame, Numbers DEF ReturnFinally, Running, IInv
<1>. QED  BY <1>1, ScriptToCall DEF ReturnFinally

(* A script throws: the reject of its promise takes over.                   *)
LEMMA ThrowSole ==
  ASSUME NEW K, IsMore(K), IInv(K), NEW t \in Threads, NEW e, Throw(t, e),
         NEW q \in Promises, Sole(q)
  PROVE  Sole(q)'
  BY ScriptToCall DEF Throw

(* A finally callback returns a promise: the right to settle passes to the  *)
(* reaction registered with it.                                            *)
LEMMA ReturnFinallyPromiseSole ==
  ASSUME NEW K, IsMore(K), IInv(K), NEW t \in Threads, NEW v, ReturnFinallyPromise(t, v),
         NEW q \in Promises, q \in Existing \/ q = created + 1,
         q \in Existing => Sole(q)
  PROVE  Sole(q)'
<1>. USE DEF ReturnFinallyPromise
<1>1. Head(stack[t]).ret = Head(stack[t]).thr
  BY HeadFrame, Numbers DEF Running, IInv
<1>2. CASE q \in Existing
  <2>1. state'[q] = state[q]
    BY <1>2, ExistingKept
  <2>. QED  BY <1>1, <1>2, <2>1, ScriptToCall
<1>3. CASE q = created + 1
  <2>1. NoHolder(q)
    BY <1>3, NoneHoldsNext
  <2>2. stack[t] # <<>> /\ Head(stack[t]).kind = "script" /\ q # Head(stack[t]).ret
    <3>1. Head(stack[t]).thr <= created /\ created \in Nat
      BY HeadFrame, Numbers DEF Running, IInv
    <3>. QED  BY <1>1, <1>3, <3>1 DEF Running
  <2>3. \A i : InFrame(Call("resolve", Head(stack[t]).ret, created + 1), q, i)
                 <=> InFrame(Head(stack[t]), q, i)
    BY <1>1, <2>2, FrameHolds, CallHolds
  <2>4. \A x, d, i : Holds(q, x, d, i)' <=> Holds(q, x, d, i)
    BY <2>2, <2>3, ReplaceSame
  <2>5. state'[q] # "Pending"
    BY <1>3 DEF IInv, ScalarsOK
  <2>. QED  BY <2>1, <2>4, <2>5 DEF Sole, NoHolder
<1>. QED  BY <1>2, <1>3

(* The jobs frame t is running, and what is left of it after its first job. *)
JobsAt(t) == Head(stack[t]).jobs

(* The rest of a batch holds what the batch held, without its first job.    *)
LEMMA RestHolds ==
  ASSUME NEW K, IsMore(K), IInv(K), NEW t \in Threads, stack[t] # <<>>,
         Head(stack[t]).kind \in {"enqueue", "batch"}, JobsAt(t) # <<>>,
         NEW kind \in {"enqueue", "batch"}, NEW q \in Promises
  PROVE  /\ \A i : InFrame(Jobs(kind, Tail(JobsAt(t))), q, i)
                     <=> InFrame(Head(stack[t]), q, i) /\ i # Len(JobsAt(t))
         /\ InFrame(Head(stack[t]), q, Len(JobsAt(t))) <=> ForJob(Head(JobsAt(t)), q)
         /\ Head(JobsAt(t)) \in FitJob(K)
<1>1. Head(stack[t]).jobs \in Seq(FitJob(K))
  BY HeadFrame DEF Running
<1>2. Head(JobsAt(t)) \in FitJob(K)
  BY <1>1, HeadTailProperties DEF JobsAt
<1>. QED  BY <1>1, <1>2, TailHolds DEF JobsAt

(* The head job is taken, and other frames may come above what is left.     *)
LEMMA RestPlaces ==
  ASSUME NEW K, IsMore(K), IInv(K), NEW t \in Threads, stack[t] # <<>>,
         Head(stack[t]).kind \in {"enqueue", "batch"}, JobsAt(t) # <<>>,
         NEW kind \in {"enqueue", "batch"}, NEW q \in Promises,
         NEW rest, rest = Jobs(kind, Tail(JobsAt(t)))
  PROVE  /\ Replace(t, <<rest>>) => \A u \in Threads : \A d, i :
              InStack(q, u, d, i)' <=>
                InStack(q, u, d, i) /\ ~(u = t /\ d = Len(stack[t]) /\ i = Len(JobsAt(t)))
         /\ \A f : Replace(t, <<f, rest>>) => \A u \in Threads : \A d, i :
              InStack(q, u, d, i)' <=>
                \/ InStack(q, u, d, i) /\ ~(u = t /\ d = Len(stack[t]) /\ i = Len(JobsAt(t)))
                \/ u = t /\ d = Len(stack[t]) + 1 /\ InFrame(f, q, i)
         /\ \A f, g : Replace(t, <<f, g, rest>>) => \A u \in Threads : \A d, i :
              InStack(q, u, d, i)' <=>
                \/ InStack(q, u, d, i) /\ ~(u = t /\ d = Len(stack[t]) /\ i = Len(JobsAt(t)))
                \/ u = t /\ d = Len(stack[t]) + 2 /\ InFrame(f, q, i)
                \/ u = t /\ d = Len(stack[t]) + 1 /\ InFrame(g, q, i)
<1>1. \A i : InFrame(rest, q, i) <=> InFrame(Head(stack[t]), q, i) /\ i # Len(JobsAt(t))
  BY RestHolds
<1>2. /\ Len(stack[t]) \in Nat
      /\ \A d, i : d = Len(stack[t]) =>
           (InStack(q, t, d, i) <=> InFrame(Head(stack[t]), q, i))
  BY TopPlace
<1>3. \A frames, T : frames \in Seq(T) /\ Replace(t, frames) =>
        \A u \in Threads : \A d, i :
          InStack(q, u, d, i)' <=>
            \/ InStack(q, u, d, i) /\ ~(u = t /\ d = Len(stack[t]))
            \/ u = t /\ Placed(frames, Len(stack[t]), q, d, i)
  BY ReplacePlaces
<1>4. ASSUME Replace(t, <<rest>>)
      PROVE  \A u \in Threads : \A d, i : InStack(q, u, d, i)' <=>
                InStack(q, u, d, i) /\ ~(u = t /\ d = Len(stack[t]) /\ i = Len(JobsAt(t)))
  <2>1. <<rest>> \in Seq({rest})
    OBVIOUS
  <2>2. \A u \in Threads : \A d, i : InStack(q, u, d, i)' <=>
          \/ InStack(q, u, d, i) /\ ~(u = t /\ d = Len(stack[t]))
          \/ u = t /\ Placed(<<rest>>, Len(stack[t]), q, d, i)
    BY <1>3, <1>4, <2>1
  <2>3. \A d, i : Placed(<<rest>>, Len(stack[t]), q, d, i) <=>
                    d = Len(stack[t]) /\ InFrame(rest, q, i)
    BY <1>2, PlacedOne
  <2>. QED  BY <1>1, <1>2, <2>2, <2>3
<1>5. ASSUME NEW f, Replace(t, <<f, rest>>)
      PROVE  \A u \in Threads : \A d, i : InStack(q, u, d, i)' <=>
                \/ InStack(q, u, d, i) /\ ~(u = t /\ d = Len(stack[t]) /\ i = Len(JobsAt(t)))
                \/ u = t /\ d = Len(stack[t]) + 1 /\ InFrame(f, q, i)
  <2>1. <<f, rest>> \in Seq({f, rest})
    OBVIOUS
  <2>2. \A u \in Threads : \A d, i : InStack(q, u, d, i)' <=>
          \/ InStack(q, u, d, i) /\ ~(u = t /\ d = Len(stack[t]))
          \/ u = t /\ Placed(<<f, rest>>, Len(stack[t]), q, d, i)
    BY <1>3, <1>5, <2>1
  <2>3. \A d, i : Placed(<<f, rest>>, Len(stack[t]), q, d, i) <=>
                    \/ d = Len(stack[t]) + 1 /\ InFrame(f, q, i)
                    \/ d = Len(stack[t]) /\ InFrame(rest, q, i)
    BY <1>2, PlacedTwo
  <2>. QED  BY <1>1, <1>2, <2>2, <2>3
<1>6. ASSUME NEW f, NEW g, Replace(t, <<f, g, rest>>)
      PROVE  \A u \in Threads : \A d, i : InStack(q, u, d, i)' <=>
                \/ InStack(q, u, d, i) /\ ~(u = t /\ d = Len(stack[t]) /\ i = Len(JobsAt(t)))
                \/ u = t /\ d = Len(stack[t]) + 2 /\ InFrame(f, q, i)
                \/ u = t /\ d = Len(stack[t]) + 1 /\ InFrame(g, q, i)
  <2>1. <<f, g, rest>> \in Seq({f, g, rest})
    OBVIOUS
  <2>2. \A u \in Threads : \A d, i : InStack(q, u, d, i)' <=>
          \/ InStack(q, u, d, i) /\ ~(u = t /\ d = Len(stack[t]))
          \/ u = t /\ Placed(<<f, g, rest>>, Len(stack[t]), q, d, i)
    BY <1>3, <1>6, <2>1
  <2>3. \A d, i : Placed(<<f, g, rest>>, Len(stack[t]), q, d, i) <=>
                    \/ d = Len(stack[t]) + 2 /\ InFrame(f, q, i)
                    \/ d = Len(stack[t]) + 1 /\ InFrame(g, q, i)
                    \/ d = Len(stack[t]) /\ InFrame(rest, q, i)
    BY <1>2, PlacedThree
  <2>. QED  BY <1>1, <1>2, <2>2, <2>3
<1>. QED  BY <1>4, <1>5, <1>6

(* The place of that first job.                                            *)
LEMMA HeadJobPlace ==
  ASSUME NEW K, IsMore(K), IInv(K), NEW t \in Threads, stack[t] # <<>>,
         Head(stack[t]).kind \in {"enqueue", "batch"}, JobsAt(t) # <<>>,
         NEW q \in Promises
  PROVE  /\ Holds(q, t, Len(stack[t]), Len(JobsAt(t))) <=> ForJob(Head(JobsAt(t)), q)
         /\ Len(stack[t]) \in Nat /\ Len(stack[t]) >= 1
  BY RestHolds, TopPlace DEF Holds

(* A settling call queues its next reaction: the place moves to the queue.  *)
LEMMA EnqueueSole ==
  ASSUME NEW K, IsMore(K), IInv(K), NEW t \in Threads, Enqueue(t),
         NEW q \in Promises, Sole(q)
  PROVE  Sole(q)'
<1>. USE DEF Enqueue
<1>1. /\ stack[t] # <<>> /\ Head(stack[t]).kind = "enqueue"
      /\ state'[q] = state[q]
  BY DEF Running
<1>2. CASE JobsAt(t) = <<>>
  <2>1. Replace(t, <<>>) /\ UNCHANGED queue
    BY <1>2 DEF JobsAt
  <2>2. \A i : ~ InFrame(Head(stack[t]), q, i)
    BY <1>1, <1>2, FrameHolds DEF JobsAt
  <2>3. \A x, d, i : Holds(q, x, d, i)' <=> Holds(q, x, d, i)
    BY <1>1, <2>1, <2>2, PopSame
  <2>. QED  BY <1>1, <2>3, SameHolders
<1>3. CASE JobsAt(t) # <<>>
  <2>1. /\ queue' = Append(queue, Head(JobsAt(t)))
        /\ Replace(t, <<Jobs("enqueue", Tail(JobsAt(t)))>>)
    BY <1>3 DEF JobsAt
  <2>2. PICK D, L, n : D = Len(stack[t]) /\ L = Len(JobsAt(t)) /\ n = Len(queue) + 1
    OBVIOUS
  <2>3. \A u \in Threads : \A d, i : InStack(q, u, d, i)' <=>
          InStack(q, u, d, i) /\ ~(u = t /\ d = D /\ i = L)
    BY <1>1, <1>3, <2>1, <2>2, RestPlaces
  <2>4. \A i : InQueue(q, i)' <=>
                 InQueue(q, i) \/ (i = n /\ ForJob(Head(JobsAt(t)), q))
    BY <2>1, <2>2, QueueAppend DEF IInv
  <2>5. \A p, i : InReactions(q, p, i)' <=> InReactions(q, p, i)
    BY ReactionsSame
  <2>6. /\ Holds(q, t, D, L) <=> ForJob(Head(JobsAt(t)), q)
        /\ D # 0 /\ NoPromise \notin Promises
    <3>1. NoPromise \notin Promises
      BY Numbers DEF IInv
    <3>2. /\ Holds(q, t, Len(stack[t]), Len(JobsAt(t))) <=> ForJob(Head(JobsAt(t)), q)
          /\ Len(stack[t]) \in Nat /\ Len(stack[t]) >= 1
      BY <1>1, <1>3, HeadJobPlace
    <3>. QED  BY <2>2, <3>1, <3>2
  <2>7. CASE ForJob(Head(JobsAt(t)), q)
    <3>1. Holds(q, NoPromise, 0, n)'
      BY <2>4, <2>7 DEF Holds
    <3>2. \A y, e, j : Holds(q, y, e, j)' =>
            \/ y = NoPromise /\ e = 0 /\ j = n
            \/ Holds(q, y, e, j) /\ ~(y = t /\ e = D /\ j = L)
      BY <2>3, <2>4, <2>5, <2>6 DEF Holds
    <3>. QED  BY <1>1, <2>6, <2>7, <3>1, <3>2, MovedHolder
  <2>8. CASE ~ ForJob(Head(JobsAt(t)), q)
    <3>1. \A x, d, i : Holds(q, x, d, i)' <=> Holds(q, x, d, i)
      BY <2>3, <2>4, <2>5, <2>6, <2>8 DEF Holds
    <3>. QED  BY <1>1, <3>1, SameHolders
  <2>. QED  BY <2>7, <2>8
<1>. QED  BY <1>2, <1>3

(* The job's right to settle goes to the frame at the height e.             *)
LEMMA HeadJobRuns ==
  ASSUME NEW K, IsMore(K), IInv(K), NEW t \in Threads, stack[t] # <<>>,
         Head(stack[t]).kind \in {"enqueue", "batch"}, JobsAt(t) # <<>>,
         NEW q \in Promises, Sole(q), state'[q] = state[q], UNCHANGED <<queue, reactions>>,
         NEW e, e # 0,
         \A u \in Threads : \A d, i : InStack(q, u, d, i)' <=>
            \/ InStack(q, u, d, i) /\ ~(u = t /\ d = Len(stack[t]) /\ i = Len(JobsAt(t)))
            \/ u = t /\ d = e /\ i = 0 /\ ForJob(Head(JobsAt(t)), q)
  PROVE  Sole(q)'
<1>1. PICK D, L : D = Len(stack[t]) /\ L = Len(JobsAt(t))
  OBVIOUS
<1>2. Holds(q, t, D, L) <=> ForJob(Head(JobsAt(t)), q)
  BY <1>1, HeadJobPlace
<1>3. /\ \A i : InQueue(q, i)' <=> InQueue(q, i)
      /\ \A p, i : InReactions(q, p, i)' <=> InReactions(q, p, i)
  BY QueueSame, ReactionsSame
<1>4. CASE ForJob(Head(JobsAt(t)), q)
  <2>1. Holds(q, t, e, 0)'
    BY <1>4 DEF Holds
  <2>2. \A y, d, j : Holds(q, y, d, j)' =>
          \/ y = t /\ d = e /\ j = 0
          \/ Holds(q, y, d, j) /\ ~(y = t /\ d = D /\ j = L)
    <3>1. D # 0
      BY <1>1, HeadJobPlace
    <3>. QED  BY <1>1, <1>3, <3>1 DEF Holds
  <2>. QED  BY <1>2, <1>4, <2>1, <2>2, MovedHolder
<1>5. CASE ~ ForJob(Head(JobsAt(t)), q)
  <2>1. ~ Holds(q, t, D, L) /\ D # 0
    BY <1>1, <1>2, <1>5, HeadJobPlace
  <2>2. \A x, d, i : Holds(q, x, d, i)' <=> Holds(q, x, d, i)
    BY <1>1, <1>3, <1>5, <2>1 DEF Holds
  <2>. QED  BY <2>2, SameHolders
<1>. QED  BY <1>4, <1>5

(* A reaction job runs: the place moves from the batch to what the job      *)
(* starts, a script, a resolve or a reject.                                *)
LEMMA RunReactionSole ==
  ASSUME NEW K, IsMore(K), IInv(K), NEW t \in Threads, RunReaction(t),
         NEW q \in Promises, Sole(q)
  PROVE  Sole(q)'
<1>. DEFINE job  == Head(JobsAt(t))
            rest == Jobs("batch", Tail(JobsAt(t)))
            v    == result[job.src]
<1>. USE DEF RunReaction
<1>1. /\ stack[t] # <<>> /\ Head(stack[t]).kind = "batch" /\ JobsAt(t) # <<>>
      /\ state'[q] = state[q]
      /\ Replace(t, HandlerFrames(job) \o <<rest>>)
      /\ job.kind # "then"
  BY DEF Running, JobsAt
<1>2. job \in FitJob(K) /\ Len(stack[t]) \in Nat
  BY <1>1, RestHolds, HeadJobPlace
<1>3. /\ job.handler \in AnyHandler(K)
      /\ job.handler.fn \in {"resolve", "reject"} => job.handler.on # job.to
      /\ job.handler.fn \in Natives(K) => job.handler.on = job.to
      /\ q # NoPromise
  BY <1>1, <1>2, Numbers DEF FitJob, AnyJob, HandlerFits, IInv
<1>. HIDE DEF job, rest
<1>4. ASSUME NEW f, HandlerFrames(job) = <<f>>,
             \A i : InFrame(f, q, i) <=> i = 0 /\ job.to = q,
             job.handler.on = NoPromise
      PROVE  Sole(q)'
  <2>1. Replace(t, <<f, rest>>)
    <3>1. <<f>> \o <<rest>> = <<f, rest>>
      BY ConcatTwo
    <3>2. HandlerFrames(job) \o <<rest>> = <<f, rest>>
      BY <1>4, <3>1
    <3>. HIDE DEF RunReaction
    <3>. QED  BY <1>1, <3>2, Zenon DEF Replace
  <2>2. ForJob(job, q) <=> job.to = q
    BY <1>3, <1>4 DEF ForJob
  <2>3. PICK e : e = Len(stack[t]) + 1
    OBVIOUS
  <2>4. \A u \in Threads : \A d, i : InStack(q, u, d, i)' <=>
            \/ InStack(q, u, d, i) /\ ~(u = t /\ d = Len(stack[t]) /\ i = Len(JobsAt(t)))
            \/ u = t /\ d = e /\ InFrame(f, q, i)
    BY <1>1, <2>1, <2>3, RestPlaces DEF rest
  <2>5. e # 0
    BY <1>2, <2>3
  <2>6. \A u \in Threads : \A d, i : InStack(q, u, d, i)' <=>
            \/ InStack(q, u, d, i) /\ ~(u = t /\ d = Len(stack[t]) /\ i = Len(JobsAt(t)))
            \/ u = t /\ d = e /\ i = 0 /\ ForJob(job, q)
    BY <1>4, <2>2, <2>4
  <2>. QED  BY <1>1, <2>5, <2>6, HeadJobRuns DEF job
<1>5. CASE job.handler.fn \in {"none", "js", "finally"}
  <2>1. job.handler.on = NoPromise
    BY <1>3, <1>5 DEF AnyHandler, Handler, IsMore, Natives
  <2>2. CASE job.handler.fn = "none"
    <3>. DEFINE fn == IF job.kind = "fulfilled" THEN "resolve" ELSE "reject"
    <3>1. HandlerFrames(job) = <<Call(fn, job.to, v)>>
      BY <2>2 DEF HandlerFrames
    <3>2. \A i : InFrame(Call(fn, job.to, v), q, i) <=> i = 0 /\ job.to = q
      BY CallHolds
    <3>. QED  BY <1>4, <2>1, <3>1, <3>2
  <2>3. CASE job.handler.fn = "js"
    <3>1. HandlerFrames(job) = <<Script(job.to, job.to, "no", v)>>
      BY <2>3 DEF HandlerFrames
    <3>. QED  BY <1>4, <2>1, <3>1, ScriptHolds
  <2>4. CASE job.handler.fn = "finally"
    <3>1. HandlerFrames(job) = <<Script(job.to, job.to, job.kind, v)>>
      BY <2>4 DEF HandlerFrames
    <3>. QED  BY <1>4, <2>1, <3>1, ScriptHolds
  <2>. QED  BY <1>5, <2>2, <2>3, <2>4
<1>6. CASE job.handler.fn \notin {"none", "js", "finally"}
  <2>. DEFINE f == Call(job.handler.fn, job.handler.on, v)
              g == Call("resolve", job.to, Undefined)
  <2>1. HandlerFrames(job) = <<f, g>>
    BY <1>6 DEF HandlerFrames
  <2>2. Replace(t, <<f, g, rest>>)
    <3>1. <<f, g>> \o <<rest>> = <<f, g, rest>>
      BY ConcatThree
    <3>2. HandlerFrames(job) \o <<rest>> = <<f, g, rest>>
      BY <2>1, <3>1
    <3>. HIDE DEF f, g, RunReaction
    <3>. QED  BY <1>1, <3>2, Zenon DEF Replace
  <2>3. \A i : InFrame(g, q, i) <=> i = 0 /\ job.to = q
    BY CallHolds
  <2>4. CASE job.handler.fn \in Natives(K)
    <3>1. \A i : ~ InFrame(f, q, i)
      BY <2>4, CallHolds DEF IsMore, Natives
    <3>2. ForJob(job, q) <=> job.to = q
      BY <1>3, <2>4 DEF ForJob
    <3>3. PICK e : e = Len(stack[t]) + 1
      OBVIOUS
    <3>. HIDE DEF f, g
    <3>4. \A u \in Threads : \A d, i : InStack(q, u, d, i)' <=>
            \/ InStack(q, u, d, i) /\ ~(u = t /\ d = Len(stack[t]) /\ i = Len(JobsAt(t)))
            \/ u = t /\ d = Len(stack[t]) + 2 /\ InFrame(f, q, i)
            \/ u = t /\ d = Len(stack[t]) + 1 /\ InFrame(g, q, i)
      BY <1>1, <2>2, RestPlaces DEF rest
    <3>5. \A u \in Threads : \A d, i : InStack(q, u, d, i)' <=>
            \/ InStack(q, u, d, i) /\ ~(u = t /\ d = Len(stack[t]) /\ i = Len(JobsAt(t)))
            \/ u = t /\ d = e /\ i = 0 /\ ForJob(job, q)
      BY <2>3, <3>1, <3>2, <3>3, <3>4
    <3>6. e # 0
      BY <1>2, <3>3
    <3>. QED  BY <1>1, <3>5, <3>6, HeadJobRuns DEF job
  <2>5. CASE job.handler.fn \in {"resolve", "reject"}
    <3>1. \A i : InFrame(f, q, i) <=> i = 0 /\ job.handler.on = q
      BY <2>5, CallHolds
    <3>2. ForJob(job, q) <=> job.to = q \/ job.handler.on = q
      BY DEF ForJob
    <3>3. PICK e : e = IF job.to = q THEN Len(stack[t]) + 1 ELSE Len(stack[t]) + 2
      OBVIOUS
    <3>. HIDE DEF f, g
    <3>4. \A u \in Threads : \A d, i : InStack(q, u, d, i)' <=>
            \/ InStack(q, u, d, i) /\ ~(u = t /\ d = Len(stack[t]) /\ i = Len(JobsAt(t)))
            \/ u = t /\ d = Len(stack[t]) + 2 /\ InFrame(f, q, i)
            \/ u = t /\ d = Len(stack[t]) + 1 /\ InFrame(g, q, i)
      BY <1>1, <2>2, RestPlaces DEF rest
    <3>5. \A u \in Threads : \A d, i : InStack(q, u, d, i)' <=>
            \/ InStack(q, u, d, i) /\ ~(u = t /\ d = Len(stack[t]) /\ i = Len(JobsAt(t)))
            \/ u = t /\ d = e /\ i = 0 /\ ForJob(job, q)
      BY <1>3, <2>3, <2>5, <3>1, <3>2, <3>3, <3>4
    <3>6. e # 0
      BY <1>2, <3>3
    <3>. QED  BY <1>1, <3>5, <3>6, HeadJobRuns DEF job
  <2>. QED  BY <1>3, <1>6, <2>4, <2>5 DEF AnyHandler, Handler
<1>. QED  BY <1>5, <1>6

(* A thenable job runs: on a promise of ours its place moves to the         *)
(* reactions or the queue, on a foreign one to the script of its `then`.   *)
LEMMA RunThenSole ==
  ASSUME NEW K, IsMore(K), IInv(K), NEW t \in Threads, RunThen(t),
         NEW q \in Promises, q \notin exposed',
         q \in Existing \/ (q = created + 1 /\ created' = created + 1),
         q \in Existing => Sole(q)
  PROVE  Sole(q)'
<1>. DEFINE job  == Head(JobsAt(t))
            rest == Jobs("batch", Tail(JobsAt(t)))
<1>. USE DEF RunThen
<1>1. /\ stack[t] # <<>> /\ Head(stack[t]).kind = "batch" /\ JobsAt(t) # <<>>
      /\ job.kind = "then"
      /\ \/ /\ job.src \in Promises
            /\ Register(job.src, ResolveFn(job.to), RejectFn(job.to))
            /\ Replace(t, <<rest>>)
         \/ /\ exposed' = exposed \cup {job.to}
            /\ Replace(t, <<Script(NoPromise, job.to, "no", Undefined), rest>>)
            /\ UNCHANGED <<created, state, reactions, queue>>
  BY DEF Running, JobsAt
<1>2. /\ job \in FitJob(K)
      /\ Holds(q, t, Len(stack[t]), Len(JobsAt(t))) <=> ForJob(job, q)
      /\ Len(stack[t]) \in Nat /\ Len(stack[t]) >= 1
  BY <1>1, RestHolds, HeadJobPlace
<1>3. ForJob(job, q) <=> job.to = q
  BY <1>1, <1>2, JobHolds DEF ForJob, IInv
<1>. HIDE DEF job, rest
<1>4. CASE /\ exposed' = exposed \cup {job.to}
           /\ Replace(t, <<Script(NoPromise, job.to, "no", Undefined), rest>>)
           /\ UNCHANGED <<created, state, reactions, queue>>
  <2>1. q \in Existing /\ q # job.to /\ state'[q] = state[q]
    BY <1>4, Numbers DEF IInv
  <2>. DEFINE f == Script(NoPromise, job.to, "no", Undefined)
  <2>2. \A i : ~ InFrame(f, q, i)
    BY <2>1, ScriptHolds
  <2>. HIDE DEF f
  <2>3. \A u \in Threads : \A d, i : InStack(q, u, d, i)' <=>
            \/ InStack(q, u, d, i) /\ ~(u = t /\ d = Len(stack[t]) /\ i = Len(JobsAt(t)))
            \/ u = t /\ d = Len(stack[t]) + 1 /\ InFrame(f, q, i)
    BY <1>1, <1>4, RestPlaces DEF rest, f
  <2>4. \A u \in Threads : \A d, i : d # 0 =>
           (InStack(q, u, d, i)' <=> InStack(q, u, d, i))
    BY <1>2, <1>3, <2>1, <2>2, <2>3 DEF Holds
  <2>5. \A x, d, i : Holds(q, x, d, i)' <=> Holds(q, x, d, i)
    BY <1>4, <2>4, QueueSame, ReactionsSame DEF Holds
  <2>. QED  BY <2>1, <2>5, SameHolders
<1>5. CASE /\ job.src \in Promises
           /\ Register(job.src, ResolveFn(job.to), RejectFn(job.to))
           /\ Replace(t, <<rest>>)
  <2>1. /\ ResolveFn(job.to).on = RejectFn(job.to).on /\ ResolveFn(job.to).on = job.to
        /\ job.to = q => ResolveFn(job.to) = ResolveFn(q)
    BY DEF ResolveFn, RejectFn
  <2>2. PICK x \in Promises \cup {NoPromise}, n \in Nat :
           /\ \A i : InQueue(q, i)' <=>
                \/ InQueue(q, i)
                \/ x = NoPromise /\ i = n /\ q \in {created + 1, job.to}
           /\ \A y \in Promises : \A i : InReactions(q, y, i)' <=>
                \/ InReactions(q, y, i)
                \/ y = x /\ i = n /\ q \in {created + 1, job.to}
           /\ ~ Holds(q, x, 0, n)
    <3>. DEFINE f == ResolveFn(job.to)
                g == RejectFn(job.to)
    <3>1. f.on = g.on /\ (f.on = q /\ q # created + 1 => f = ResolveFn(q)) /\ f.on = job.to
      BY <2>1
    <3>2. job.src \in Promises /\ Register(job.src, f, g)
      BY <1>5
    <3>. HIDE DEF f, g
    <3>3. \E x \in Promises \cup {NoPromise}, n \in Nat :
           /\ \A i : InQueue(q, i)' <=>
                \/ InQueue(q, i)
                \/ x = NoPromise /\ i = n /\ q \in {created + 1, f.on}
           /\ \A y \in Promises : \A i : InReactions(q, y, i)' <=>
                \/ InReactions(q, y, i)
                \/ y = x /\ i = n /\ q \in {created + 1, f.on}
           /\ ~ Holds(q, x, 0, n)
      BY <3>1, <3>2, RegisterPlaces
    <3>. QED  BY <3>1, <3>3
  <2>3. \A u \in Threads : \A d, i : InStack(q, u, d, i)' <=>
          InStack(q, u, d, i) /\ ~(u = t /\ d = Len(stack[t]) /\ i = Len(JobsAt(t)))
    BY <1>1, <1>5, RestPlaces DEF rest
  <2>4. /\ created < MaxPromises /\ created' = created + 1
        /\ state' = [state EXCEPT ![created + 1] = "Pending"]
    BY <1>5 DEF Register
  <2>5. NoPromise \notin Promises
    BY Numbers DEF IInv
  <2>6. CASE q \in Existing
    <3>1. state'[q] = state[q] /\ q # created + 1
      BY <2>4, <2>6, ExistingKept
    <3>2. CASE job.to = q
      <4>1. PICK D, L : D = Len(stack[t]) /\ L = Len(JobsAt(t))
        OBVIOUS
      <4>2. Holds(q, t, D, L) /\ D # 0
        BY <1>2, <1>3, <3>2, <4>1
      <4>3. Holds(q, x, 0, n)'
        BY <2>2, <2>5, <3>2 DEF Holds
      <4>4. \A y, e, j : Holds(q, y, e, j)' =>
              \/ y = x /\ e = 0 /\ j = n
              \/ Holds(q, y, e, j) /\ ~(y = t /\ e = D /\ j = L)
        BY <2>2, <2>3, <2>5, <4>1, <4>2 DEF Holds
      <4>. QED  BY <2>6, <3>1, <4>2, <4>3, <4>4, MovedHolder
    <3>3. CASE job.to # q
      <4>1. \A u \in Threads : \A d, i : d # 0 =>
               (InStack(q, u, d, i)' <=> InStack(q, u, d, i))
        BY <1>2, <1>3, <2>3, <3>3 DEF Holds
      <4>2. \A y, d, i : Holds(q, y, d, i)' <=> Holds(q, y, d, i)
        BY <2>2, <3>1, <3>3, <4>1 DEF Holds
      <4>. QED  BY <2>6, <3>1, <4>2, SameHolders
    <3>. QED  BY <3>2, <3>3
  <2>7. CASE q = created + 1
    <3>1. NoHolder(q)
      BY <2>7, NoneHoldsNext
    <3>2. \A u \in Threads : \A d, i : InStack(q, u, d, i)' => ~(d # 0)
      BY <2>3, <3>1 DEF NoHolder, Holds
    <3>3. state'[q] = "Pending"
      BY <2>4, <2>7 DEF IInv, ScalarsOK
    <3>4. /\ \A i : InQueue(q, i)' <=> InQueue(q, i) \/ (x = NoPromise /\ i = n)
          /\ \A y \in Promises : \A i :
               InReactions(q, y, i)' <=> InReactions(q, y, i) \/ (y = x /\ i = n)
      BY <2>2, <2>7
    <3>. QED  BY <2>7, <3>2, <3>3, <3>4, DerivedSole
  <2>. QED  BY <2>6, <2>7
<1>. QED  BY <1>1, <1>4, <1>5

(* A reaction and either of the jobs it can become hold the same promises.  *)
LEMMA ReactionHolds ==
  ASSUME NEW K, IsMore(K), ScalarsOK, NEW r \in FitReaction(K), NEW q \in Promises,
         NEW kind, NEW src, NEW h \in {r.onFulfilled, r.onRejected}
  PROVE  ForJob(ReactionJob(kind, src, h, r.to), q) <=> ForReaction(r, q)
<1>1. /\ h.on = r.onFulfilled.on
      /\ r.onFulfilled \in AnyHandler(K) /\ r.onFulfilled.fn # "reject"
      /\ r.onFulfilled.fn \in Natives(K) => r.onFulfilled.on = r.to
  BY DEF FitReaction, AnyReaction, HandlerFits
<1>2. q # NoPromise
  BY Numbers
<1>3. ForJob(ReactionJob(kind, src, h, r.to), q) <=> r.to = q \/ r.onFulfilled.on = q
  BY <1>1 DEF ForJob, ReactionJob
<1>4. ASSUME r.onFulfilled.on = q, r.to # q  PROVE r.onFulfilled = ResolveFn(q)
  <2>1. r.onFulfilled \in Handler
    BY <1>1, <1>4 DEF AnyHandler
  <2>2. r.onFulfilled.fn = "resolve"
    BY <1>1, <1>2, <1>4, <2>1 DEF Handler
  <2>. QED  BY <1>2, <1>4, <2>1, <2>2 DEF Handler, ResolveFn
<1>5. r.onFulfilled = ResolveFn(q) => r.onFulfilled.on = q
  BY DEF ResolveFn
<1>. QED  BY <1>3, <1>4, <1>5 DEF ForReaction

(* Settling moves the promise's reactions, in their order, to a jobs frame. *)
LEMMA SettlePlaces ==
  ASSUME NEW K, IsMore(K), IInv(K), NEW t \in Threads, stack[t] # <<>>,
         NEW p \in Promises, NEW how \in {"Fulfilled", "Rejected"}, NEW v,
         Settle(t, p, how, v), NEW q \in Promises, NEW n, n = Len(reactions[p])
  PROVE  /\ n \in Nat
         /\ \A u \in Threads : \A d, i : InStack(q, u, d, i)' <=>
              \/ InStack(q, u, d, i) /\ ~(u = t /\ d = Len(stack[t]))
              \/ /\ u = t /\ d = Len(stack[t])
                 /\ i \in 1..n /\ InReactions(q, p, n + 1 - i)
         /\ \A y \in Promises : \A i :
              InReactions(q, y, i)' <=> InReactions(q, y, i) /\ y # p
<1>. DEFINE js == [i \in 1..Len(reactions[p]) |->
          IF how = "Fulfilled"
          THEN ReactionJob("fulfilled", p, reactions[p][i].onFulfilled,
                           reactions[p][i].to)
          ELSE ReactionJob("rejected", p, reactions[p][i].onRejected,
                           reactions[p][i].to)]
<1>0. PICK f : f = Jobs("enqueue", js)
  OBVIOUS
<1>1. /\ reactions' = [reactions EXCEPT ![p] = <<>>]
      /\ Replace(t, <<f>>)
  BY <1>0 DEF Settle
<1>2. n \in Nat /\ reactions[p] \in Seq(FitReaction(K))
  BY LenProperties DEF IInv
<1>3. Len(js) = n
  BY <1>2
<1>4. ASSUME NEW k \in 1..n  PROVE ForJob(js[k], q) <=> ForReaction(reactions[p][k], q)
  <2>1. reactions[p][k] \in FitReaction(K) /\ ScalarsOK
    BY <1>2, ElementOfSeq DEF IInv
  <2>2. js[k] = IF how = "Fulfilled"
          THEN ReactionJob("fulfilled", p, reactions[p][k].onFulfilled,
                           reactions[p][k].to)
          ELSE ReactionJob("rejected", p, reactions[p][k].onRejected,
                           reactions[p][k].to)
    OBVIOUS
  <2>. HIDE DEF js
  <2>3. PICK r : r = reactions[p][k]
    OBVIOUS
  <2>. QED  BY <2>1, <2>2, <2>3, ReactionHolds
<1>5. ASSUME NEW i  PROVE InFrame(f, q, i) <=> i \in 1..n /\ InReactions(q, p, n + 1 - i)
  <2>. HIDE DEF js
  <2>1. InFrame(f, q, i) <=> i \in 1..n /\ ForJob(js[n + 1 - i], q)
    BY <1>0, <1>3, JobsHold
  <2>2. i \in 1..n => n + 1 - i \in 1..n
    BY <1>2
  <2>. QED  BY <1>4, <2>1, <2>2 DEF InReactions
<1>6. \A u \in Threads : \A d, i :
        InStack(q, u, d, i)' <=>
          \/ InStack(q, u, d, i) /\ ~(u = t /\ d = Len(stack[t]))
          \/ u = t /\ d = Len(stack[t]) /\ InFrame(f, q, i)
  <2>1. PICK frames : frames = <<f>>
    OBVIOUS
  <2>2. frames \in Seq({f}) /\ Replace(t, frames)
    BY <1>1, <2>1
  <2>3. \A u \in Threads : \A d, i :
          InStack(q, u, d, i)' <=>
            \/ InStack(q, u, d, i) /\ ~(u = t /\ d = Len(stack[t]))
            \/ u = t /\ Placed(frames, Len(stack[t]), q, d, i)
    BY <2>2, ReplacePlaces
  <2>4. \A d, i : Placed(frames, Len(stack[t]), q, d, i) <=>
                    d = Len(stack[t]) /\ InFrame(f, q, i)
    BY <2>1, TopPlace, PlacedOne
  <2>. QED  BY <2>3, <2>4
<1>7. \A y \in Promises : \A i :
        InReactions(q, y, i)' <=> InReactions(q, y, i) /\ y # p
  <2>1. \A y, i : InReactions(q, y, i)' <=>
                  i \in 1..Len(reactions'[y]) /\ ForReaction(reactions'[y][i], q)
    BY DEF InReactions, ForReaction, ResolveFn
  <2>2. \A y \in Promises : reactions'[y] = IF y = p THEN <<>> ELSE reactions[y]
    BY <1>1 DEF IInv
  <2>. QED  BY <2>1, <2>2 DEF InReactions
<1>. HIDE DEF js
<1>. QED  BY <1>2, <1>5, <1>6, <1>7

(* A settling call: the promise loses its holder as it settles, and its     *)
(* reactions become jobs that hold the same promises.                      *)
LEMMA SettleSole ==
  ASSUME NEW K, IsMore(K), IInv(K), NEW t \in Threads, stack[t] # <<>>,
         Head(stack[t]).kind \in {"resolve", "reject"},
         NEW p \in Promises, p = Head(stack[t]).on, state[p] = "Pending",
         NEW how \in {"Fulfilled", "Rejected"}, NEW v,
         Settle(t, p, how, v), UNCHANGED queue, NEW q \in Promises, Sole(q)
  PROVE  Sole(q)'
<1>1. PICK D, n : D = Len(stack[t]) /\ n = Len(reactions[p])
  OBVIOUS
<1>2. /\ n \in Nat
      /\ \A u \in Threads : \A d, i : InStack(q, u, d, i)' <=>
           \/ InStack(q, u, d, i) /\ ~(u = t /\ d = D)
           \/ u = t /\ d = D /\ i \in 1..n /\ InReactions(q, p, n + 1 - i)
      /\ \A y \in Promises : \A i :
           InReactions(q, y, i)' <=> InReactions(q, y, i) /\ y # p
  BY <1>1, SettlePlaces
<1>3. \A i : InQueue(q, i)' <=> InQueue(q, i)
  BY QueueSame
<1>4. /\ D \in Nat /\ D # 0 /\ NoPromise \notin Promises
      /\ \A i : InStack(q, t, D, i) <=> i = 0 /\ p = q
  <2>1. \A i : InFrame(Head(stack[t]), q, i) <=> i = 0 /\ p = q
    BY FrameHolds
  <2>2. NoPromise \notin Promises
    BY Numbers DEF IInv
  <2>. QED  BY <1>1, <2>1, <2>2, TopPlace
<1>5. state'[p] = how /\ \A x \in Promises : x # p => state'[x] = state[x]
  BY DEF Settle, IInv, ScalarsOK
<1>6. CASE q = p
  <2>1. Holds(q, t, D, 0)
    BY <1>4, <1>6 DEF Holds
  <2>2. \A y, e, j : Holds(q, y, e, j) => y = t /\ e = D /\ j = 0
    BY <1>6, <2>1 DEF Sole, OneHolder
  <2>3. \A i : ~ InReactions(q, p, i)
    BY <1>4, <2>2 DEF Holds
  <2>4. ASSUME NEW y, NEW e, NEW j, Holds(q, y, e, j)'  PROVE Holds(q, y, e, j) /\ ~(y = t /\ e = D)
    <3>1. CASE e = 0
      BY <1>2, <1>3, <1>4, <2>4, <3>1 DEF Holds
    <3>2. CASE e # 0
      BY <1>2, <2>3, <2>4, <3>2 DEF Holds
    <3>. QED  BY <3>1, <3>2
  <2>5. NoHolder(q)'
    BY <2>2, <2>4 DEF NoHolder
  <2>. QED  BY <1>5, <1>6, <2>5 DEF Sole
<1>7. CASE q # p
  <2>0. state'[q] = state[q] /\ \A i : ~ InStack(q, t, D, i)
    BY <1>4, <1>5, <1>7
  <2>1. ASSUME NEW k, InReactions(q, p, k)  PROVE Sole(q)'
    <3>1. Holds(q, p, 0, k)
      BY <2>1 DEF Holds
    <3>2. \A y, e, j : Holds(q, y, e, j) => y = p /\ e = 0 /\ j = k
      BY <3>1 DEF Sole, OneHolder, NoHolder
    <3>3. PICK m : m = n + 1 - k
      OBVIOUS
    <3>4. m \in 1..n /\ n + 1 - m = k
      BY <1>1, <1>2, <2>1, <3>3 DEF InReactions
    <3>5. Holds(q, t, D, m)'
      BY <1>2, <1>4, <2>1, <3>4 DEF Holds
    <3>6. ASSUME NEW y, NEW e, NEW j, Holds(q, y, e, j)'
          PROVE  y = t /\ e = D /\ j = m
      <4>1. CASE e = 0
        <5>1. Holds(q, y, e, j) /\ y # p
          BY <1>2, <1>3, <1>4, <3>6, <4>1 DEF Holds
        <5>. QED  BY <3>2, <5>1
      <4>2. CASE e # 0
        <5>1. y \in Threads /\ InStack(q, y, e, j)'
          BY <3>6, <4>2 DEF Holds
        <5>2. ~ InStack(q, y, e, j)
          BY <3>2, <4>2, <5>1 DEF Holds
        <5>3. y = t /\ e = D /\ j \in 1..n /\ InReactions(q, p, n + 1 - j)
          BY <1>2, <5>1, <5>2
        <5>4. Holds(q, p, 0, n + 1 - j)
          BY <5>3 DEF Holds
        <5>5. n + 1 - j = k
          BY <3>2, <5>4
        <5>. QED  BY <1>2, <3>3, <5>3, <5>5
      <4>. QED  BY <4>1, <4>2
    <3>. QED  BY <2>0, <3>1, <3>5, <3>6, MovedHolder
  <2>2. CASE \A k : ~ InReactions(q, p, k)
    <3>1. \A u \in Threads : \A d, i : InStack(q, u, d, i)' <=> InStack(q, u, d, i)
      BY <1>2, <2>0, <2>2
    <3>2. \A y \in Promises : \A i : InReactions(q, y, i)' <=> InReactions(q, y, i)
      BY <1>2, <2>2
    <3>3. \A x, d, i : Holds(q, x, d, i)' <=> Holds(q, x, d, i)
      BY <1>3, <3>1, <3>2 DEF Holds
    <3>. QED  BY <2>0, <3>3, SameHolders
  <2>. QED  BY <2>1, <2>2
<1>. QED  BY <1>6, <1>7

(* A call under way holds the promise it is about.                          *)
LEMMA CallPlace ==
  ASSUME NEW K, IsMore(K), IInv(K), NEW t \in Threads, stack[t] # <<>>,
         Head(stack[t]).kind \in {"resolve", "reject"},
         NEW q \in Promises, NEW D, D = Len(stack[t])
  PROVE  /\ D \in Nat /\ D # 0
         /\ \A i : InFrame(Head(stack[t]), q, i) <=> i = 0 /\ Head(stack[t]).on = q
         /\ \A i : InStack(q, t, D, i) <=> i = 0 /\ Head(stack[t]).on = q
<1>1. \A i : InFrame(Head(stack[t]), q, i) <=> i = 0 /\ Head(stack[t]).on = q
  BY FrameHolds
<1>. QED  BY <1>1, TopPlace

(* A call on a settled promise is dropped: that is nobody's right to settle. *)
LEMMA DroppedCall ==
  ASSUME NEW K, IsMore(K), IInv(K), NEW t \in Threads, stack[t] # <<>>,
         Head(stack[t]).kind \in {"resolve", "reject"},
         state[Head(stack[t]).on] # "Pending", Replace(t, <<>>),
         UNCHANGED <<state, queue, reactions>>,
         NEW q \in Promises, Sole(q)
  PROVE  Sole(q)'
<1>1. PICK D : D = Len(stack[t])
  OBVIOUS
<1>2. q # Head(stack[t]).on
  <2>. SUFFICES ASSUME q = Head(stack[t]).on  PROVE FALSE
    OBVIOUS
  <2>1. Holds(q, t, D, 0)
    BY <1>1, CallPlace DEF Holds
  <2>. QED  BY <2>1 DEF Sole, NoHolder
<1>3. \A i : ~ InFrame(Head(stack[t]), q, i)
  BY <1>1, <1>2, CallPlace
<1>4. \A x, d, i : Holds(q, x, d, i)' <=> Holds(q, x, d, i)
  BY <1>3, PopSame
<1>. QED  BY <1>4, SameHolders

(* Adopting a thenable passes the right on to the queued job.               *)
LEMMA AdoptSole ==
  ASSUME NEW K, IsMore(K), IInv(K), NEW t \in Threads, stack[t] # <<>>,
         Head(stack[t]).kind \in {"resolve", "reject"},
         NEW p, p = Head(stack[t]).on, NEW v,
         queue' = Append(queue, ThenJob(v, p)), Replace(t, <<>>),
         UNCHANGED <<state, reactions>>, NEW q \in Promises, Sole(q)
  PROVE  Sole(q)'
<1>1. PICK D, n : D = Len(stack[t]) /\ n = Len(queue) + 1
  OBVIOUS
<1>2. /\ D # 0 /\ \A i : InStack(q, t, D, i) <=> i = 0 /\ p = q
      /\ NoPromise \notin Promises /\ q # NoPromise
  BY <1>1, CallPlace, Numbers DEF IInv
<1>3. ForJob(ThenJob(v, p), q) <=> p = q
  BY <1>2 DEF ForJob, ThenJob, None
<1>4. \A i : InQueue(q, i)' <=> InQueue(q, i) \/ (i = n /\ p = q)
  <2>1. PICK job : job = ThenJob(v, p)
    OBVIOUS
  <2>2. queue \in Seq(FitJob(K)) /\ queue' = Append(queue, job)
    BY <2>1 DEF IInv
  <2>3. \A i : InQueue(q, i)' <=> InQueue(q, i) \/ (i = Len(queue) + 1 /\ ForJob(job, q))
    BY <2>2, QueueAppend
  <2>. QED  BY <1>1, <1>3, <2>1, <2>3
<1>5. \A u \in Threads : \A d, i :
        InStack(q, u, d, i)' <=> InStack(q, u, d, i) /\ ~(u = t /\ d = D)
  BY <1>1, PopPlaces
<1>6. \A x, i : InReactions(q, x, i)' <=> InReactions(q, x, i)
  BY ReactionsSame
<1>7. CASE q = p
  <2>1. Holds(q, t, D, 0) /\ Holds(q, NoPromise, 0, n)'
    BY <1>2, <1>4, <1>7 DEF Holds
  <2>2. \A y, e, j : Holds(q, y, e, j)' =>
          \/ y = NoPromise /\ e = 0 /\ j = n
          \/ Holds(q, y, e, j) /\ ~(y = t /\ e = D /\ j = 0)
    BY <1>2, <1>4, <1>5, <1>6 DEF Holds
  <2>. QED  BY <2>1, <2>2, MovedHolder
<1>8. CASE q # p
  <2>1. \A u \in Threads : \A d, i : InStack(q, u, d, i)' <=> InStack(q, u, d, i)
    BY <1>2, <1>5, <1>8
  <2>2. \A x, d, i : Holds(q, x, d, i)' <=> Holds(q, x, d, i)
    BY <1>4, <1>6, <1>8, <2>1 DEF Holds
  <2>. QED  BY <2>2, SameHolders
<1>. QED  BY <1>7, <1>8

(* resolve(): drops the call, adopts, or settles.                           *)
LEMMA ResolveSole ==
  ASSUME NEW K, IsMore(K), IInv(K), NEW t \in Threads, Resolve(t),
         NEW q \in Promises, Sole(q)
  PROVE  Sole(q)'
<1>. USE DEF Resolve
<1>. DEFINE p == Head(stack[t]).on
            v == Head(stack[t]).value
<1>1. /\ stack[t] # <<>> /\ Head(stack[t]).kind = "resolve" /\ p \in Promises
      /\ NoPromise \notin Promises
  BY HeadFrame, Numbers DEF Running, IInv
<1>2. CASE /\ state[p] # "Pending"
           /\ Replace(t, <<>>)
           /\ UNCHANGED <<state, result, reactions, lock, queue>>
  BY <1>1, <1>2, DroppedCall
<1>3. CASE /\ Replace(t, <<Call("reject", p, TypeErr)>>)
           /\ UNCHANGED <<state, result, reactions, queue>>
  <2>1. \A i : InFrame(Call("reject", p, TypeErr), q, i) <=> InFrame(Head(stack[t]), q, i)
    BY <1>1, FrameHolds, CallHolds
  <2>2. \A x, d, i : Holds(q, x, d, i)' <=> Holds(q, x, d, i)
    BY <1>1, <1>3, <2>1, ReplaceSame
  <2>. QED  BY <1>3, <2>2, SameHolders
<1>4. CASE /\ queue' = Append(queue, ThenJob(v, p))
           /\ Replace(t, <<>>)
           /\ UNCHANGED <<state, result, reactions, lock>>
  BY <1>1, <1>4, AdoptSole
<1>5. CASE /\ state[p] = "Pending"
           /\ Settle(t, p, "Fulfilled", v)
           /\ UNCHANGED <<lock, queue>>
  BY <1>1, <1>5, SettleSole
<1>. QED  BY <1>2, <1>3, <1>4, <1>5

(* reject(): drops the call or settles.                                     *)
LEMMA RejectSole ==
  ASSUME NEW K, IsMore(K), IInv(K), NEW t \in Threads, Reject(t),
         NEW q \in Promises, Sole(q)
  PROVE  Sole(q)'
<1>. USE DEF Reject
<1>. DEFINE p == Head(stack[t]).on
<1>1. stack[t] # <<>> /\ Head(stack[t]).kind = "reject" /\ p \in Promises
  BY HeadFrame DEF Running
<1>2. CASE /\ state[p] # "Pending"
           /\ Replace(t, <<>>)
           /\ UNCHANGED <<state, result, reactions>>
  BY <1>1, <1>2, DroppedCall
<1>3. CASE /\ state[p] = "Pending"
           /\ Settle(t, p, "Rejected", Head(stack[t]).value)
  BY <1>1, <1>3, SettleSole
<1>. QED  BY <1>2, <1>3

(* The whole queue becomes a batch, job by job.                             *)
LEMMA ProcessMicrotasksSole ==
  ASSUME NEW K, IsMore(K), IInv(K), NEW t \in Threads, ProcessMicrotasks(t),
         NEW q \in Promises, Sole(q)
  PROVE  Sole(q)'
<1>. USE DEF ProcessMicrotasks
<1>1. PICK n, f, D : n = Len(queue) /\ f = Jobs("batch", queue) /\ D = Len(stack[t]) + 1
  OBVIOUS
<1>2. /\ n \in Nat /\ Push(t, f) /\ queue' = <<>>
      /\ UNCHANGED <<state, reactions>> /\ NoPromise \notin Promises
  BY <1>1, LenProperties, Numbers DEF IInv
<1>3. /\ Len(stack[t]) \in Nat
      /\ \A u \in Threads : \A d, i :
           InStack(q, u, d, i)' <=>
             \/ InStack(q, u, d, i)
             \/ u = t /\ d = D /\ InFrame(f, q, i)
      /\ \A d, i : InStack(q, t, d, i) => d \in 1..Len(stack[t])
  BY <1>1, <1>2, PushPlaces
<1>4. D # 0 /\ \A i : ~ InStack(q, t, D, i)
  BY <1>1, <1>3
<1>5. \A i : InFrame(f, q, i) <=> i \in 1..n /\ ForJob(queue[n + 1 - i], q)
  BY <1>1, JobsHold
<1>6. \A i : ~ InQueue(q, i)'
  BY <1>2 DEF InQueue
<1>7. \A x, i : InReactions(q, x, i)' <=> InReactions(q, x, i)
  BY <1>2, ReactionsSame
<1>8. ASSUME NEW k, InQueue(q, k)  PROVE Sole(q)'
  <2>1. Holds(q, NoPromise, 0, k) /\ k \in 1..n
    BY <1>1, <1>8 DEF Holds, InQueue
  <2>2. \A y, e, j : Holds(q, y, e, j) => y = NoPromise /\ e = 0 /\ j = k
    BY <2>1 DEF Sole, OneHolder, NoHolder
  <2>3. PICK m : m = n + 1 - k
    OBVIOUS
  <2>4. m \in 1..n /\ n + 1 - m = k
    BY <1>2, <2>1, <2>3
  <2>5. Holds(q, t, D, m)'
    BY <1>3, <1>4, <1>5, <1>8, <2>4 DEF Holds, InQueue
  <2>6. ASSUME NEW y, NEW e, NEW j, Holds(q, y, e, j)'  PROVE y = t /\ e = D /\ j = m
    <3>1. CASE e = 0
      <4>1. y \in Promises /\ InReactions(q, y, j)
        BY <1>6, <1>7, <2>6, <3>1 DEF Holds
      <4>. QED  BY <1>2, <2>2, <4>1 DEF Holds
    <3>2. CASE e # 0
      <4>1. y \in Threads /\ InStack(q, y, e, j)'
        BY <2>6, <3>2 DEF Holds
      <4>2. ~ InStack(q, y, e, j)
        BY <2>2, <3>2, <4>1 DEF Holds
      <4>3. y = t /\ e = D /\ j \in 1..n /\ ForJob(queue[n + 1 - j], q)
        BY <1>3, <1>5, <4>1, <4>2
      <4>4. n + 1 - j \in 1..n
        BY <1>2, <4>3
      <4>5. Holds(q, NoPromise, 0, n + 1 - j)
        BY <1>1, <4>3, <4>4 DEF Holds, InQueue
      <4>6. n + 1 - j = k
        BY <2>2, <4>5
      <4>. QED  BY <1>2, <2>3, <4>3, <4>6
    <3>. QED  BY <3>1, <3>2
  <2>. QED  BY <1>2, <2>1, <2>5, <2>6, MovedHolder
<1>9. CASE \A k : ~ InQueue(q, k)
  <2>1. \A i : ~ InFrame(f, q, i)
    <3>1. \A i \in 1..n : n + 1 - i \in 1..n
      BY <1>2
    <3>. QED  BY <1>1, <1>5, <1>9, <3>1 DEF InQueue
  <2>2. \A u \in Threads : \A d, i : InStack(q, u, d, i)' <=> InStack(q, u, d, i)
    BY <1>3, <2>1
  <2>3. \A x, d, i : Holds(q, x, d, i)' <=> Holds(q, x, d, i)
    BY <1>6, <1>7, <1>9, <2>2 DEF Holds
  <2>. QED  BY <1>2, <2>3, SameHolders
<1>. QED  BY <1>8, <1>9

(* The script that runs for no derived promise is an executor or a foreign  *)
(* `then`: what it holds is exposed to scripts.                             *)
Open(f, X) == f.kind = "script" /\ f.ret = NoPromise => f.thr \in X
OwnersExposed(K) ==
  \A t \in Threads : \A k \in 1..Len(stack[t]) : Open(stack[t][k], exposed \cup K.own)

HInv(K) ==
  /\ IInv(K)
  /\ OwnersExposed(K)
  /\ \A q \in Existing \ (exposed \cup K.own) : Sole(q)

(* The stacks stay and the exposed promises only grow.                      *)
LEMMA OwnersSame ==
  ASSUME NEW K, OwnersExposed(K), UNCHANGED stack, exposed \subseteq exposed'
  PROVE  OwnersExposed(K)'
  BY DEF OwnersExposed, Open

(* The frames that come in place of the top one are in order.               *)
LEMMA OwnersReplaced ==
  ASSUME NEW K, IInv(K), OwnersExposed(K), exposed \subseteq exposed',
         NEW t \in Threads, stack[t] # <<>>,
         NEW T, NEW frames \in Seq(T), Replace(t, frames),
         NEW X, X = exposed' \cup K.own, \A k \in 1..Len(frames) : Open(frames[k], X)
  PROVE  OwnersExposed(K)'
<1>. DEFINE s == stack[t]
            base == Tail(s)
            new == frames \o base
<1>1. /\ s \in Seq(FitFrame(K)) /\ base \in Seq(FitFrame(K))
      /\ Len(base) = Len(s) - 1 /\ Len(s) \in Nat /\ Len(frames) \in Nat
      /\ \A k \in 1..Len(base) : base[k] = s[k + 1]
  BY HeadTailProperties, LenProperties, EmptySeq DEF IInv
<1>2. stack'[t] = new /\ \A u \in Threads : u # t => stack'[u] = stack[u]
  BY DEF Replace, IInv
<1>3. /\ Len(new) = Len(frames) + Len(base)
      /\ \A k \in 1..Len(new) :
           new[k] = IF k <= Len(frames) THEN frames[k] ELSE base[k - Len(frames)]
  <2>1. frames \in Seq(T \cup FitFrame(K)) /\ base \in Seq(T \cup FitFrame(K))
    <3>. HIDE DEF base
    <3>. QED  BY <1>1, SeqMonotonic
  <2>. HIDE DEF base
  <2>. QED  BY <2>1, ConcatProperties
<1>4. ASSUME NEW k \in 1..Len(new)  PROVE Open(new[k], X)
  <2>. HIDE DEF new, base
  <2>1. CASE k <= Len(frames)
    <3>1. k \in 1..Len(frames) /\ new[k] = frames[k]
      BY <1>1, <1>3, <2>1
    <3>. QED  BY <3>1, Zenon
  <2>2. CASE ~ (k <= Len(frames))
    <3>1. k - Len(frames) \in 1..Len(base) /\ (k - Len(frames)) + 1 \in 1..Len(s)
      BY <1>1, <1>3, <2>2
    <3>2. new[k] = s[(k - Len(frames)) + 1]
      BY <1>1, <1>3, <2>2, <3>1
    <3>. QED  BY <3>1, <3>2 DEF OwnersExposed, Open
  <2>. QED  BY <2>1, <2>2
<1>. HIDE DEF new
<1>. QED  BY <1>2, <1>4 DEF OwnersExposed, Open

(* A frame that is pushed is in order.                                      *)
LEMMA OwnersPushed ==
  ASSUME NEW K, IInv(K), OwnersExposed(K), exposed \subseteq exposed',
         NEW t \in Threads, NEW f, Push(t, f), Open(f, exposed' \cup K.own)
  PROVE  OwnersExposed(K)'
<1>. DEFINE base == stack[t]
            new == <<f>> \o base
<1>1. base \in Seq(FitFrame(K)) /\ Len(base) \in Nat
  BY LenProperties DEF IInv
<1>2. stack'[t] = new /\ \A u \in Threads : u # t => stack'[u] = stack[u]
  BY DEF Push, IInv
<1>3. /\ Len(new) = 1 + Len(base)
      /\ \A k \in 1..Len(new) : new[k] = IF k <= 1 THEN f ELSE base[k - 1]
  <2>1. PICK one : one = <<f>>
    OBVIOUS
  <2>2. one \in Seq({f} \cup FitFrame(K)) /\ base \in Seq({f} \cup FitFrame(K))
        /\ Len(one) = 1 /\ one[1] = f
    <3>1. base \in Seq({f} \cup FitFrame(K))
      BY <1>1, SeqMonotonic
    <3>. QED  BY <2>1, <3>1
  <2>. HIDE DEF base, new
  <2>3. /\ Len(one \o base) = 1 + Len(base)
        /\ \A k \in 1..(1 + Len(base)) :
             (one \o base)[k] = IF k <= 1 THEN one[k] ELSE base[k - 1]
    <3>. DEFINE FF == {f} \cup FitFrame(K)
    <3>1. one \in Seq(FF) /\ base \in Seq(FF) /\ Len(one) = 1
      BY <2>2
    <3>. HIDE DEF FF
    <3>. QED  BY <3>1, ConcatProperties
  <2>4. new = one \o base
    BY <2>1 DEF new
  <2>5. \A k \in 1..(1 + Len(base)) : k <= 1 => one[k] = f
    BY <1>1, <2>2
  <2>. QED  BY <1>1, <2>3, <2>4, <2>5
<1>4. ASSUME NEW k \in 1..Len(new)  PROVE Open(new[k], exposed' \cup K.own)
  <2>. HIDE DEF new
  <2>1. CASE k <= 1
    BY <1>3, <2>1
  <2>2. CASE ~ (k <= 1)
    <3>1. k - 1 \in 1..Len(base)
      BY <1>1, <1>3, <2>2
    <3>. QED  BY <1>3, <2>2, <3>1 DEF OwnersExposed, Open
  <2>. QED  BY <2>1, <2>2
<1>. HIDE DEF new
<1>. QED  BY <1>2, <1>4 DEF OwnersExposed, Open

(* The frames that are not scripts for no promise.                          *)
LEMMA NoOwner ==
  ASSUME NEW X
  PROVE  /\ \A fn, p, v : fn # "script" => Open(Call(fn, p, v), X)
         /\ \A kind, js : kind # "script" => Open(Jobs(kind, js), X)
         /\ \A ret, thr, wrapper, arg :
              ret # NoPromise \/ thr \in X => Open(Script(ret, thr, wrapper, arg), X)
  BY DEF Open, Call, Jobs, Script

(* The innermost frame is popped, or one frame takes its place.             *)
LEMMA OwnersPopped ==
  ASSUME NEW K, IInv(K), OwnersExposed(K), exposed \subseteq exposed',
         NEW t \in Threads, stack[t] # <<>>,
         \/ Replace(t, <<>>)
         \/ \E f : Replace(t, <<f>>) /\ Open(f, exposed' \cup K.own)
  PROVE  OwnersExposed(K)'
<1>1. CASE Replace(t, <<>>)
  <2>1. PICK frames : frames = <<>>
    OBVIOUS
  <2>2. frames \in Seq(FitFrame(K)) /\ Len(frames) = 0 /\ Replace(t, frames)
    BY <1>1, <2>1
  <2>3. \A k \in 1..Len(frames) : Open(frames[k], exposed' \cup K.own)
    BY <2>2
  <2>. QED  BY <2>2, <2>3, OwnersReplaced
<1>2. CASE \E f : Replace(t, <<f>>) /\ Open(f, exposed' \cup K.own)
  <2>1. PICK f : Replace(t, <<f>>) /\ Open(f, exposed' \cup K.own)
    BY <1>2
  <2>2. PICK frames : frames = <<f>>
    OBVIOUS
  <2>3. frames \in Seq({f}) /\ Replace(t, frames) /\ Len(frames) = 1 /\ frames[1] = f
    BY <2>1, <2>2
  <2>4. \A k \in 1..Len(frames) : Open(frames[k], exposed' \cup K.own)
    BY <2>1, <2>3
  <2>. QED  BY <2>3, <2>4, OwnersReplaced
<1>. QED  BY <1>1, <1>2

(* Every step keeps the scripts without a derived promise exposed.           *)
LEMMA NextOwners ==
  ASSUME NEW K, IsMore(K), IInv(K), OwnersExposed(K), NEW t \in Threads,
         Api(t) \/ Native(t) \/ EndScript(t) \/ ProcessMicrotasks(t)
  PROVE  OwnersExposed(K)'
<1>1. CASE Api(t)
  <2>1. ASSUME NewPromise(t)  PROVE OwnersExposed(K)'
    BY <2>1, OwnersPushed, NoOwner DEF NewPromise
  <2>2. ASSUME NEW p, NEW v, CallResolve(t, p, v)  PROVE OwnersExposed(K)'
    BY <2>2, OwnersPushed, NoOwner DEF CallResolve
  <2>3. ASSUME NEW p, NEW e, CallReject(t, p, e)  PROVE OwnersExposed(K)'
    BY <2>3, OwnersPushed, NoOwner DEF CallReject
  <2>4. ASSUME NEW p, NEW pair, CallThen(t, p, pair)  PROVE OwnersExposed(K)'
    BY <2>4, OwnersSame DEF CallThen
  <2>. QED  BY <1>1, <2>1, <2>2, <2>3, <2>4 DEF Api
<1>2. CASE Native(t)
  <2>1. ASSUME Resolve(t)  PROVE OwnersExposed(K)'
    BY <2>1, OwnersPopped, NoOwner DEF Resolve, Settle, Running
  <2>2. ASSUME Reject(t)  PROVE OwnersExposed(K)'
    BY <2>2, OwnersPopped, NoOwner DEF Reject, Settle, Running
  <2>3. ASSUME Enqueue(t)  PROVE OwnersExposed(K)'
    BY <2>3, OwnersPopped, NoOwner DEF Enqueue, Running
  <2>4. ASSUME EndBatch(t)  PROVE OwnersExposed(K)'
    BY <2>4, OwnersPopped, NoOwner DEF EndBatch, Running
  <2>5. ASSUME RunReaction(t)  PROVE OwnersExposed(K)'
    <3>. DEFINE jobs == Head(stack[t]).jobs
                rest == Jobs("batch", Tail(jobs))
    <3>1. PICK frames : frames = HandlerFrames(Head(jobs)) \o <<rest>>
      OBVIOUS
    <3>2. stack[t] # <<>> /\ Replace(t, frames) /\ UNCHANGED exposed
      BY <2>5, <3>1 DEF RunReaction, Running
    <3>3. jobs \in Seq(FitJob(K)) /\ jobs # <<>>
      BY <2>5, <3>2, HeadFrame DEF RunReaction, Running
    <3>4. Head(jobs) \in FitJob(K)
      BY <3>3, HeadTailProperties
    <3>5. Head(jobs).to # NoPromise
      BY <3>4, Numbers DEF FitJob, AnyJob, IInv
    <3>6. Head(jobs).handler.fn # "script"
      BY <3>4 DEF FitJob, AnyJob, AnyHandler, Handler, IsMore, Natives, None
    <3>7. PICK job, r : job = Head(jobs) /\ r = rest
      OBVIOUS
    <3>8. Open(r, exposed' \cup K.own)
      BY <3>7, NoOwner
    <3>9. ASSUME NEW f, HandlerFrames(job) = <<f>>, Open(f, exposed' \cup K.own)
          PROVE  OwnersExposed(K)'
      <4>1. frames = <<f, r>>
        BY <3>1, <3>7, <3>9, ConcatTwo
      <4>2. frames \in Seq({f, r}) /\ \A k \in 1..Len(frames) : Open(frames[k], exposed' \cup K.own)
        BY <3>8, <3>9, <4>1
      <4>. QED  BY <3>2, <4>2, OwnersReplaced
    <3>10. ASSUME NEW f, NEW g, HandlerFrames(job) = <<f, g>>,
                  Open(f, exposed' \cup K.own), Open(g, exposed' \cup K.own)
          PROVE  OwnersExposed(K)'
      <4>1. frames = <<f, g, r>>
        BY <3>1, <3>7, <3>10, ConcatThree
      <4>2. frames \in Seq({f, g, r}) /\ \A k \in 1..Len(frames) : Open(frames[k], exposed' \cup K.own)
        BY <3>8, <3>10, <4>1
      <4>. QED  BY <3>2, <4>2, OwnersReplaced
    <3>. HIDE DEF jobs, rest
    <3>11. CASE job.handler.fn = "none"
      BY <3>9, <3>11, NoOwner DEF HandlerFrames
    <3>12. CASE job.handler.fn \in {"js", "finally"}
      BY <3>5, <3>7, <3>9, <3>12, NoOwner DEF HandlerFrames
    <3>13. CASE job.handler.fn \notin {"none", "js", "finally"}
      <4>1. HandlerFrames(job) = <<Call(job.handler.fn, job.handler.on, result[job.src]),
                                   Call("resolve", job.to, Undefined)>>
        BY <3>13 DEF HandlerFrames
      <4>2. Open(Call(job.handler.fn, job.handler.on, result[job.src]), exposed' \cup K.own)
            /\ Open(Call("resolve", job.to, Undefined), exposed' \cup K.own)
        BY <3>6, <3>7, NoOwner
      <4>. QED  BY <3>10, <4>1, <4>2
    <3>. QED  BY <3>11, <3>12, <3>13
  <2>6. ASSUME RunThen(t)  PROVE OwnersExposed(K)'
    <3>. DEFINE job  == Head(Head(stack[t]).jobs)
                rest == Jobs("batch", Tail(Head(stack[t]).jobs))
    <3>1. \/ Replace(t, <<rest>>) /\ UNCHANGED exposed
          \/ /\ exposed' = exposed \cup {job.to}
             /\ Replace(t, <<Script(NoPromise, job.to, "no", Undefined), rest>>)
      BY <2>6 DEF RunThen
    <3>2. stack[t] # <<>> /\ Open(rest, exposed' \cup K.own)
      BY <2>6, NoOwner DEF RunThen, Running
    <3>. HIDE DEF job, rest
    <3>3. CASE Replace(t, <<rest>>) /\ UNCHANGED exposed
      BY <3>2, <3>3, OwnersPopped
    <3>4. CASE /\ exposed' = exposed \cup {job.to}
               /\ Replace(t, <<Script(NoPromise, job.to, "no", Undefined), rest>>)
      <4>1. PICK f, r, frames : /\ f = Script(NoPromise, job.to, "no", Undefined)
                                /\ r = rest /\ frames = <<f, r>>
        OBVIOUS
      <4>2. Open(f, exposed' \cup K.own)
        BY <3>4, <4>1, NoOwner
      <4>3. frames \in Seq({f, r}) /\ \A k \in 1..Len(frames) : Open(frames[k], exposed' \cup K.own)
        BY <3>2, <4>1, <4>2
      <4>4. Replace(t, frames) /\ exposed \subseteq exposed'
        BY <3>4, <4>1
      <4>. QED  BY <3>2, <4>3, <4>4, OwnersReplaced
    <3>. QED  BY <3>1, <3>3, <3>4
  <2>. QED  BY <1>2, <2>1, <2>2, <2>3, <2>4, <2>5, <2>6 DEF Native
<1>3. CASE EndScript(t)
  <2>1. ASSUME ReturnIgnored(t)  PROVE OwnersExposed(K)'
    BY <2>1, OwnersPopped DEF ReturnIgnored, Running
  <2>2. ASSUME NEW v, ReturnValue(t, v)  PROVE OwnersExposed(K)'
    BY <2>2, OwnersPopped, NoOwner DEF ReturnValue, Running
  <2>3. ASSUME NEW v, ReturnFinally(t, v)  PROVE OwnersExposed(K)'
    BY <2>3, OwnersPopped, NoOwner DEF ReturnFinally, Running
  <2>4. ASSUME NEW v, ReturnFinallyPromise(t, v)  PROVE OwnersExposed(K)'
    BY <2>4, OwnersPopped, NoOwner DEF ReturnFinallyPromise, Running
  <2>5. ASSUME NEW e, Throw(t, e)  PROVE OwnersExposed(K)'
    BY <2>5, OwnersPopped, NoOwner DEF Throw, Running
  <2>. QED  BY <1>3, <2>1, <2>2, <2>3, <2>4, <2>5 DEF EndScript
<1>4. CASE ProcessMicrotasks(t)
  BY <1>4, OwnersPushed, NoOwner DEF ProcessMicrotasks
<1>. QED  BY <1>1, <1>2, <1>3, <1>4

(* Every action keeps the one holder of a promise no script can settle.     *)
LEMMA NextSole ==
  ASSUME NEW K, IsMore(K), HInv(K), NEW t \in Threads,
         Api(t) \/ Native(t) \/ EndScript(t) \/ ProcessMicrotasks(t),
         NEW q, q \in (Existing \ exposed)', q \notin K.own
  PROVE  Sole(q)'
<1>0. IInv(K) /\ (q \in Existing /\ q \notin exposed /\ q \notin K.own => Sole(q))
  BY DEF HInv
<1>1. /\ Existing \subseteq Promises /\ created \in Nat
      /\ q \in 1..created' /\ q \notin exposed' /\ q \notin K.own
  BY <1>0, Numbers DEF IInv, Existing
<1>2. ASSUME UNCHANGED created  PROVE q \in Existing
  BY <1>1, <1>2 DEF Existing
<1>3. ASSUME created' = created + 1, created < MaxPromises
      PROVE  q \in Promises /\ (q \in Existing \/ q = created + 1)
  <2>1. q \in 1..created \/ q = created + 1
    BY <1>1, <1>3
  <2>. QED  BY <1>0, <1>1, <1>3, <2>1, Numbers DEF IInv, Existing
<1>4. CASE Api(t)
  <2>1. ASSUME NewPromise(t)  PROVE Sole(q)'
    <3>1. q # created + 1 /\ exposed \subseteq exposed'
      BY <1>1, <2>1 DEF NewPromise
    <3>. QED  BY <1>0, <1>1, <1>3, <2>1, <3>1, NewPromiseSole DEF NewPromise
  <2>2. ASSUME NEW p \in Promises, NEW v, CallResolve(t, p, v)  PROVE Sole(q)'
    BY <1>0, <1>1, <1>2, <2>2, CallResolveSole DEF CallResolve
  <2>3. ASSUME NEW p \in Promises, NEW e, CallReject(t, p, e)  PROVE Sole(q)'
    BY <1>0, <1>1, <1>2, <2>3, CallRejectSole DEF CallReject
  <2>4. ASSUME NEW p \in Promises, NEW pair \in ScriptHandlers, CallThen(t, p, pair)
        PROVE  Sole(q)'
    <3>1. UNCHANGED exposed /\ created' = created + 1 /\ created < MaxPromises
      BY <2>4 DEF CallThen, Register
    <3>. QED  BY <1>0, <1>1, <1>3, <2>4, <3>1, CallThenSole
  <2>. QED  BY <1>4, <2>1, <2>2, <2>3, <2>4 DEF Api
<1>5. ASSUME UNCHANGED <<created, exposed>>
      PROVE  q \in Existing /\ q \notin exposed /\ q \in Promises /\ Sole(q)
  BY <1>0, <1>1, <1>2, <1>5
<1>6. CASE Native(t)
  <2>1. ASSUME Resolve(t)  PROVE Sole(q)'
    BY <1>0, <1>5, <2>1, ResolveSole DEF Resolve
  <2>2. ASSUME Reject(t)  PROVE Sole(q)'
    BY <1>0, <1>5, <2>2, RejectSole DEF Reject
  <2>3. ASSUME Enqueue(t)  PROVE Sole(q)'
    BY <1>0, <1>5, <2>3, EnqueueSole DEF Enqueue
  <2>4. ASSUME EndBatch(t)  PROVE Sole(q)'
    BY <1>0, <1>5, <2>4, EndBatchSole DEF EndBatch
  <2>5. ASSUME RunReaction(t)  PROVE Sole(q)'
    BY <1>0, <1>5, <2>5, RunReactionSole DEF RunReaction
  <2>6. ASSUME RunThen(t)  PROVE Sole(q)'
    <3>1. exposed \subseteq exposed'
      BY <2>6 DEF RunThen
    <3>2. \/ created' = created + 1 /\ created < MaxPromises
          \/ UNCHANGED created
      BY <2>6 DEF RunThen, Register
    <3>3. q \in Promises /\ (q \in Existing \/ (q = created + 1 /\ created' = created + 1))
      <4>1. CASE created' = created + 1 /\ created < MaxPromises
        BY <1>3, <4>1
      <4>2. CASE UNCHANGED created
        BY <1>1, <1>2, <4>2
      <4>. QED  BY <3>2, <4>1, <4>2
    <3>4. q \in Existing => Sole(q)
      BY <1>0, <1>1, <3>1
    <3>. QED  BY <1>0, <1>1, <2>6, <3>3, <3>4, RunThenSole
  <2>. QED  BY <1>6, <2>1, <2>2, <2>3, <2>4, <2>5, <2>6 DEF Native
<1>7. CASE EndScript(t)
  <2>1. ASSUME ReturnIgnored(t)  PROVE Sole(q)'
    <3>1. stack[t] # <<>> /\ stack[t] \in Seq(FitFrame(K))
      BY <1>0, <2>1 DEF ReturnIgnored, Running, IInv
    <3>2. 1 \in 1..Len(stack[t]) /\ Head(stack[t]) = stack[t][1]
      BY <3>1, LenProperties, EmptySeq, HeadTailProperties
    <3>3. Head(stack[t]).thr \in exposed \cup K.own
      BY <2>1, <3>2 DEF HInv, OwnersExposed, Open, ReturnIgnored, Running
    <3>. QED  BY <1>0, <1>5, <2>1, <3>3, ReturnIgnoredSole DEF ReturnIgnored
  <2>2. ASSUME NEW v, ReturnValue(t, v)  PROVE Sole(q)'
    BY <1>0, <1>5, <2>2, ReturnValueSole DEF ReturnValue
  <2>3. ASSUME NEW v, ReturnFinally(t, v)  PROVE Sole(q)'
    BY <1>0, <1>5, <2>3, ReturnFinallySole DEF ReturnFinally
  <2>4. ASSUME NEW v, ReturnFinallyPromise(t, v)  PROVE Sole(q)'
    <3>1. UNCHANGED exposed /\ created' = created + 1 /\ created < MaxPromises
      BY <2>4 DEF ReturnFinallyPromise
    <3>. QED  BY <1>0, <1>1, <1>3, <2>4, <3>1, ReturnFinallyPromiseSole
  <2>5. ASSUME NEW e, Throw(t, e)  PROVE Sole(q)'
    BY <1>0, <1>5, <2>5, ThrowSole DEF Throw
  <2>. QED  BY <1>7, <2>1, <2>2, <2>3, <2>4, <2>5 DEF EndScript
<1>8. CASE ProcessMicrotasks(t)
  BY <1>0, <1>5, <1>8, ProcessMicrotasksSole DEF ProcessMicrotasks
<1>. QED  BY <1>4, <1>6, <1>7, <1>8

(* At the start there are no promises and no frames.                        *)
LEMMA InitHolders ==
  ASSUME NEW K, Init  PROVE HInv(K)
<1>1. OwnersExposed(K)
  BY DEF Init, OwnersExposed
<1>2. Existing = {}
  BY DEF Init, Existing
<1>. QED  BY <1>1, <1>2, InitInv DEF HInv

(* The invariant of the holders is inductive.                               *)
LEMMA NextHolders ==
  ASSUME NEW K, IsMore(K), HInv(K), NextIsFree(K), [Next]_vars  PROVE HInv(K)'
<1>1. IInv(K)'
  BY NextInv DEF HInv
<1>2. ASSUME NEW t \in Threads, Api(t) \/ Native(t) \/ EndScript(t) \/ ProcessMicrotasks(t)
      PROVE  HInv(K)'
  <2>1. OwnersExposed(K)'
    BY <1>2, NextOwners DEF HInv
  <2>2. \A q \in (Existing \ (exposed \cup K.own))' : Sole(q)'
    BY <1>2, NextSole
  <2>. QED  BY <1>1, <2>1, <2>2 DEF HInv
<1>3. CASE UNCHANGED vars
  <2>1. OwnersExposed(K)'
    BY <1>3, OwnersSame DEF HInv, vars
  <2>2. ASSUME NEW q \in (Existing \ (exposed \cup K.own))'  PROVE Sole(q)'
    <3>1. q \in Promises /\ Sole(q) /\ state'[q] = state[q]
      BY <1>3, Numbers DEF HInv, IInv, vars, Existing
    <3>2. \A x, d, i : Holds(q, x, d, i)' <=> Holds(q, x, d, i)
      BY <1>3, <3>1, QueueSame, ReactionsSame, StackSame DEF Holds, vars
    <3>. QED  BY <3>1, <3>2, SameHolders
  <2>. QED  BY <1>1, <2>1, <2>2 DEF HInv
<1>. QED  BY <1>2, <1>3 DEF Next

---------------------------------------------------------------------------
(* The places, as Holders names them.                                       *)
Name(x, d, i) ==
  CASE d = 0 /\ x = NoPromise -> <<"job", i>>
    [] d = 0 /\ x # NoPromise -> <<"reaction", x, i>>
    [] d # 0 /\ i = 0 -> <<"frame", x, Len(stack[x]) + 1 - d>>
    [] OTHER -> <<"frame", x, Len(stack[x]) + 1 - d,
                  Len(FrameAt(x, d).jobs) + 1 - i>>

(* Holders, written out as one set of names.                                *)
LEMMA HoldersAre ==
  ASSUME NEW q, NEW h
  PROVE  h \in Holders(q) <=>
           \/ \E p \in Promises : \E i \in 1..Len(reactions[p]) :
                ForReaction(reactions[p][i], q) /\ h = <<"reaction", p, i>>
           \/ \E i \in 1..Len(queue) : ForJob(queue[i], q) /\ h = <<"job", i>>
           \/ \E t \in Threads : \E k \in 1..Len(stack[t]) :
                ForFrame(stack[t][k], q) /\ h = <<"frame", t, k>>
           \/ \E t \in Threads : \E k \in 1..Len(stack[t]) :
                \E j \in 1..Len(FrameJobs(t, k)) :
                  ForJob(FrameJobs(t, k)[j], q) /\ h = <<"frame", t, k, j>>
<1>. DEFINE R(p) == {<<"reaction", p, i>> : i \in {j \in 1..Len(reactions[p]) :
                                                    ForReaction(reactions[p][j], q)}}
            J    == {<<"job", i>> : i \in {j \in 1..Len(queue) : ForJob(queue[j], q)}}
            F(t, k) == (IF ForFrame(stack[t][k], q) THEN {<<"frame", t, k>>} ELSE {})
                       \cup {<<"frame", t, k, i>> : i \in {j \in 1..Len(FrameJobs(t, k)) :
                                               ForJob(FrameJobs(t, k)[j], q)}}
            U    == UNION {R(p) : p \in Promises}
            V    == UNION {UNION {F(t, k) : k \in 1..Len(stack[t])} : t \in Threads}
<1>1. Holders(q) = U \cup J \cup V
  BY DEF Holders
<1>2. ASSUME NEW p
      PROVE  h \in R(p) <=> \E i \in 1..Len(reactions[p]) :
                ForReaction(reactions[p][i], q) /\ h = <<"reaction", p, i>>
  OBVIOUS
<1>3. h \in J <=> \E i \in 1..Len(queue) : ForJob(queue[i], q) /\ h = <<"job", i>>
  OBVIOUS
<1>4. ASSUME NEW t, NEW k
      PROVE  h \in F(t, k) <=>
               \/ ForFrame(stack[t][k], q) /\ h = <<"frame", t, k>>
               \/ \E j \in 1..Len(FrameJobs(t, k)) :
                    ForJob(FrameJobs(t, k)[j], q) /\ h = <<"frame", t, k, j>>
  OBVIOUS
<1>. HIDE DEF R, J, F, U, V
<1>5. h \in Holders(q) <=>
        \/ \E p \in Promises : h \in R(p)
        \/ h \in J
        \/ \E t \in Threads : \E k \in 1..Len(stack[t]) : h \in F(t, k)
  <2>1. h \in U <=> \E p \in Promises : h \in R(p)
    BY Zenon DEF U
  <2>2. h \in V <=> \E t \in Threads : h \in UNION {F(t, k) : k \in 1..Len(stack[t])}
    BY Zenon DEF V
  <2>3. ASSUME NEW t
        PROVE  h \in UNION {F(t, k) : k \in 1..Len(stack[t])}
                 <=> \E k \in 1..Len(stack[t]) : h \in F(t, k)
    BY Zenon
  <2>4. h \in V <=> \E t \in Threads : \E k \in 1..Len(stack[t]) : h \in F(t, k)
    BY <2>2, <2>3, Zenon
  <2>. QED  BY <1>1, <2>1, <2>4
<1>. QED  BY <1>2, <1>3, <1>4, <1>5

(* Each name of Holders is the name of a place that holds q.                *)
LEMMA HolderHasPlace ==
  ASSUME NEW K, IsMore(K), IInv(K), NEW q \in Promises, NEW h \in Holders(q)
  PROVE  \E x, d, i : Holds(q, x, d, i) /\ h = Name(x, d, i)
<1>0. NoPromise \notin Promises
  BY Numbers DEF IInv
<1>1. ASSUME NEW p \in Promises, NEW i, i \in 1..Len(reactions[p]),
             ForReaction(reactions[p][i], q), h = <<"reaction", p, i>>
      PROVE  Holds(q, p, 0, i) /\ h = Name(p, 0, i)
  BY <1>0, <1>1 DEF Holds, InReactions, Name
<1>2. ASSUME NEW i, i \in 1..Len(queue), ForJob(queue[i], q), h = <<"job", i>>
      PROVE  Holds(q, NoPromise, 0, i) /\ h = Name(NoPromise, 0, i)
  BY <1>2 DEF Holds, InQueue, Name
<1>3. ASSUME NEW t \in Threads, NEW k \in 1..Len(stack[t])
      PROVE  /\ Len(stack[t]) + 1 - k \in 1..Len(stack[t])
             /\ Len(stack[t]) + 1 - k # 0
             /\ Len(stack[t]) + 1 - (Len(stack[t]) + 1 - k) = k
             /\ FrameAt(t, Len(stack[t]) + 1 - k) = stack[t][k]
  <2>1. Len(stack[t]) \in Nat
    BY LenProperties DEF IInv
  <2>. QED  BY <2>1 DEF FrameAt
<1>4. ASSUME NEW t \in Threads, NEW k \in 1..Len(stack[t]),
             ForFrame(stack[t][k], q), h = <<"frame", t, k>>
      PROVE  \E x, d, i : Holds(q, x, d, i) /\ h = Name(x, d, i)
  <2>1. PICK d : d = Len(stack[t]) + 1 - k
    OBVIOUS
  <2>2. /\ d \in 1..Len(stack[t]) /\ d # 0 /\ Len(stack[t]) + 1 - d = k
        /\ FrameAt(t, d) = stack[t][k]
    BY <1>3, <2>1
  <2>3. Holds(q, t, d, 0)
    BY <1>4, <2>2 DEF Holds, InStack, InFrame
  <2>4. h = Name(t, d, 0)
    BY <1>4, <2>2 DEF Name
  <2>. QED  BY <2>3, <2>4
<1>5. ASSUME NEW t \in Threads, NEW k \in 1..Len(stack[t]),
             NEW j \in 1..Len(FrameJobs(t, k)),
             ForJob(FrameJobs(t, k)[j], q), h = <<"frame", t, k, j>>
      PROVE  \E x, d, i : Holds(q, x, d, i) /\ h = Name(x, d, i)
  <2>1. PICK d, i, n : /\ d = Len(stack[t]) + 1 - k
                       /\ n = Len(FrameJobs(t, k))
                       /\ i = n + 1 - j
    OBVIOUS
  <2>2. /\ d \in 1..Len(stack[t]) /\ d # 0 /\ Len(stack[t]) + 1 - d = k
        /\ FrameAt(t, d) = stack[t][k]
    BY <1>3, <2>1
  <2>3. n \in Nat
    BY <2>1, FrameJobsTyped, LenProperties
  <2>4. i \in 1..n /\ i # 0 /\ n + 1 - i = j /\ j \in 1..n
    BY <2>1, <2>3
  <2>5. /\ stack[t][k].kind \in {"enqueue", "batch"}
        /\ FrameJobs(t, k) = stack[t][k].jobs
    <3>1. FrameJobs(t, k) # <<>>
      BY <2>1, <2>4, EmptySeq
    <3>. QED  BY <3>1 DEF FrameJobs
  <2>6. InFrame(stack[t][k], q, i)
    BY <1>5, <2>1, <2>4, <2>5 DEF InFrame
  <2>7. Holds(q, t, d, i)
    BY <2>2, <2>6 DEF Holds, InStack
  <2>8. h = Name(t, d, i)
    BY <1>5, <2>1, <2>2, <2>4, <2>5 DEF Name
  <2>. QED  BY <2>7, <2>8
<1>6. \/ \E p \in Promises : \E i \in 1..Len(reactions[p]) :
           ForReaction(reactions[p][i], q) /\ h = <<"reaction", p, i>>
      \/ \E i \in 1..Len(queue) : ForJob(queue[i], q) /\ h = <<"job", i>>
      \/ \E t \in Threads : \E k \in 1..Len(stack[t]) :
           ForFrame(stack[t][k], q) /\ h = <<"frame", t, k>>
      \/ \E t \in Threads : \E k \in 1..Len(stack[t]) :
           \E j \in 1..Len(FrameJobs(t, k)) :
             ForJob(FrameJobs(t, k)[j], q) /\ h = <<"frame", t, k, j>>
  BY HoldersAre
<1>. QED  BY <1>1, <1>2, <1>4, <1>5, <1>6

(* Each place that holds q has its name in Holders.                         *)
LEMMA PlaceIsHolder ==
  ASSUME NEW K, IsMore(K), IInv(K), NEW q \in Promises, NEW x, NEW d, NEW i, Holds(q, x, d, i)
  PROVE  Name(x, d, i) \in Holders(q)
<1>0. NoPromise \notin Promises
  BY Numbers DEF IInv
<1>1. CASE d = 0 /\ x = NoPromise /\ InQueue(q, i)
  BY <1>1, HoldersAre DEF InQueue, Name
<1>2. CASE d = 0 /\ x \in Promises /\ InReactions(q, x, i)
  BY <1>0, <1>2, HoldersAre DEF InReactions, Name
<1>3. CASE d # 0 /\ x \in Threads /\ InStack(q, x, d, i)
  <2>1. PICK k, L : L = Len(stack[x]) /\ k = L + 1 - d
    OBVIOUS
  <2>2. L \in Nat /\ d \in 1..L
    BY <1>3, <2>1, LenProperties DEF IInv, InStack
  <2>3. k \in 1..Len(stack[x]) /\ FrameAt(x, d) = stack[x][k] /\ InFrame(stack[x][k], q, i)
    BY <1>3, <2>1, <2>2 DEF InStack, FrameAt
  <2>4. CASE i = 0 /\ ForFrame(stack[x][k], q)
    <3>1. Name(x, d, i) = <<"frame", x, k>>
      BY <1>3, <2>1, <2>4 DEF Name
    <3>. QED  BY <1>3, <2>3, <2>4, <3>1, HoldersAre
  <2>5. ASSUME NEW f, f = stack[x][k], f.kind \in {"enqueue", "batch"},
               i \in 1..Len(f.jobs), ForJob(f.jobs[Len(f.jobs) + 1 - i], q)
        PROVE  Name(x, d, i) \in Holders(q)
    <3>1. FrameJobs(x, k) = f.jobs
      BY <2>5 DEF FrameJobs
    <3>2. PICK n, j : n = Len(f.jobs) /\ j = n + 1 - i
      OBVIOUS
    <3>3. n \in Nat
      BY <1>3, <2>3, <3>1, <3>2, FrameJobsTyped, LenProperties
    <3>4. j \in 1..Len(FrameJobs(x, k)) /\ i # 0 /\ ForJob(FrameJobs(x, k)[j], q)
      BY <2>5, <3>1, <3>2, <3>3
    <3>5. Name(x, d, i) = <<"frame", x, k, j>>
      BY <1>3, <2>1, <2>3, <2>5, <3>2, <3>4 DEF Name
    <3>. QED  BY <1>3, <2>3, <3>4, <3>5, HoldersAre
  <2>. QED  BY <2>3, <2>4, <2>5 DEF InFrame
<1>. QED  BY <1>1, <1>2, <1>3 DEF Holds

(* So Holders counts the places.                                            *)
LEMMA SoleCounts ==
  ASSUME NEW K, IsMore(K), IInv(K), NEW q \in Promises, Sole(q)
  PROVE  Cardinality(Holders(q)) = IF state[q] = "Pending" THEN 1 ELSE 0
<1>1. CASE state[q] = "Pending"
  <2>1. PICK x, d, i : /\ Holds(q, x, d, i)
                       /\ \A y, e, j : Holds(q, y, e, j) => y = x /\ e = d /\ j = i
    BY <1>1 DEF Sole, OneHolder
  <2>2. PICK n : n = Name(x, d, i)
    OBVIOUS
  <2>3. n \in Holders(q)
    BY <2>1, <2>2, PlaceIsHolder
  <2>4. ASSUME NEW h \in Holders(q)  PROVE h = n
    <3>1. PICK y, e, j : Holds(q, y, e, j) /\ h = Name(y, e, j)
      BY HolderHasPlace
    <3>. QED  BY <2>1, <2>2, <3>1
  <2>5. Holders(q) = {n}
    BY <2>3, <2>4
  <2>. QED  BY <1>1, <2>5, FS_Singleton
<1>2. CASE state[q] # "Pending"
  <2>1. NoHolder(q)
    BY <1>2 DEF Sole
  <2>2. Holders(q) = {}
    BY <2>1, HolderHasPlace DEF NoHolder
  <2>. QED  BY <1>2, <2>2, FS_EmptySet
<1>. QED  BY <1>1, <1>2

(* A derived promise that no script can settle has one party that will, as  *)
(* long as it is pending, and none after: on any number of threads, and     *)
(* wherever a settling call, then(), the queue or the loop is interrupted.  *)
THEOREM OneSettler == Spec => []SoleHolder
<1>1. Init => HInv(Alone)
  BY InitHolders
<1>2. HInv(Alone) /\ [Next]_vars => HInv(Alone)'
  BY NextHolders, NoMore
<1>3. HInv(Alone) => SoleHolder
  <2>. SUFFICES ASSUME HInv(Alone)  PROVE SoleHolder
    OBVIOUS
  <2>1. ASSUME NEW q \in Existing \ exposed
        PROVE  Cardinality(Holders(q)) = IF state[q] = "Pending" THEN 1 ELSE 0
    <3>1. IInv(Alone) /\ q \in Promises /\ Sole(q)
      BY Numbers DEF HInv, IInv, Alone
    <3>. QED  BY <3>1, SoleCounts, NoMore
  <2>. QED  BY <2>1 DEF SoleHolder
<1>. QED  BY <1>1, <1>2, <1>3, PTL DEF Spec

---------------------------------------------------------------------------
(* The order of the reactions of one promise.                               *)

(* On one thread the reaction jobs of a promise stand in one line: those of *)
(* the batch being run, then the queue, then those a settling call is still *)
(* queueing.  The derived promises are numbered along it.                   *)
Ahead(a, b) == a.kind # "then" /\ b.kind # "then" /\ a.src = b.src => a.to < b.to
Ordered(s)   == \A i, j \in 1..Len(s) : i < j => Ahead(s[i], s[j])
Before(s, r) == \A i \in 1..Len(s) : \A j \in 1..Len(r) : Ahead(s[i], r[j])

InLine(b, q, e) == /\ Ordered(b) /\ Ordered(q) /\ Ordered(e)
                   /\ Before(b, q) /\ Before(b, e) /\ Before(q, e)

(* Nothing is in order, before and after everything.                        *)
LEMMA LineEmpty ==
  ASSUME NEW b, NEW q, NEW e, InLine(b, q, e)
  PROVE  InLine(<<>>, q, e) /\ InLine(b, q, <<>>)
<1>1. Ordered(<<>>) /\ (\A s : Before(<<>>, s) /\ Before(s, <<>>))
  BY DEF Ordered, Before
<1>. QED  BY <1>1 DEF InLine

(* A job goes to the end of the queue that no waiting job must follow.      *)
LEMMA AppendAhead ==
  ASSUME NEW S, NEW s \in Seq(S), NEW job, \A i \in 1..Len(s) : Ahead(s[i], job)
  PROVE  /\ Ordered(s) => Ordered(Append(s, job))
         /\ \A b : Before(b, s) /\ (\A i \in 1..Len(b) : Ahead(b[i], job))
                     => Before(b, Append(s, job))
<1>1. /\ Len(s) \in Nat /\ Len(Append(s, job)) = Len(s) + 1
      /\ \A i \in 1..Len(s) : Append(s, job)[i] = s[i]
      /\ Append(s, job)[Len(s) + 1] = job
  BY LenProperties
<1>. DEFINE n == Append(s, job)
<1>. HIDE DEF n
<1>2. \A i \in 1..Len(n) : \/ i \in 1..Len(s) /\ n[i] = s[i]
                           \/ i = Len(s) + 1 /\ n[i] = job
  BY <1>1 DEF n
<1>3. ASSUME Ordered(s), NEW i \in 1..Len(n), NEW j \in 1..Len(n), i < j
      PROVE  Ahead(n[i], n[j])
  <2>1. i \in 1..Len(s) /\ n[i] = s[i]
    BY <1>1, <1>2, <1>3 DEF n
  <2>2. CASE j \in 1..Len(s) /\ n[j] = s[j]
    BY <1>3, <2>1, <2>2 DEF Ordered
  <2>3. CASE n[j] = job
    BY <2>1, <2>3
  <2>. QED  BY <1>2, <2>2, <2>3
<1>4. ASSUME NEW b, Before(b, s), \A i \in 1..Len(b) : Ahead(b[i], job)
      PROVE  Before(b, n)
  BY <1>2, <1>4 DEF Before
<1>. QED  BY <1>3, <1>4 DEF Ordered, n

(* The queue grows by a job that stands behind all the others.              *)
LEMMA LineAppend ==
  ASSUME NEW S, NEW b, NEW q \in Seq(S), NEW job, InLine(b, q, <<>>),
         \A i \in 1..Len(b) : Ahead(b[i], job),
         \A i \in 1..Len(q) : Ahead(q[i], job)
  PROVE  InLine(b, Append(q, job), <<>>)
<1>1. Ordered(Append(q, job)) /\ Before(b, Append(q, job))
  BY AppendAhead DEF InLine
<1>2. Before(Append(q, job), <<>>)
  BY DEF Before
<1>. QED  BY <1>1, <1>2 DEF InLine

(* The rest of a line is a line.                                            *)
LEMMA TailOrder ==
  ASSUME NEW S, NEW s \in Seq(S), s # <<>>
  PROVE  /\ Ordered(s) => Ordered(Tail(s)) /\ \A i \in 1..Len(Tail(s)) : Ahead(Head(s), Tail(s)[i])
         /\ \A b : Before(b, s) => /\ Before(b, Tail(s))
                                   /\ \A i \in 1..Len(b) : Ahead(b[i], Head(s))
         /\ \A b : Before(s, b) => Before(Tail(s), b)
<1>. DEFINE n == Tail(s)
            N == Len(n)
<1>1. /\ Len(s) \in Nat /\ Len(s) >= 1 /\ N = Len(s) - 1 /\ Head(s) = s[1]
      /\ \A i \in 1..N : n[i] = s[i + 1]
  BY HeadTailProperties, LenProperties, EmptySeq
<1>2. \A i \in 1..N : i \in Int /\ i + 1 \in 1..Len(s) /\ n[i] = s[i + 1]
  BY <1>1
<1>3. 1 \in 1..Len(s)
  BY <1>1
<1>. HIDE DEF n, N
<1>4. ASSUME Ordered(s), NEW i \in 1..N
      PROVE  Ahead(Head(s), n[i]) /\ \A j \in 1..N : i < j => Ahead(n[i], n[j])
  <2>1. 1 < i + 1 /\ \A j \in 1..N : i < j => i + 1 < j + 1
    BY <1>1, <1>2
  <2>. QED  BY <1>1, <1>2, <1>3, <1>4, <2>1 DEF Ordered
<1>5. ASSUME NEW b, Before(b, s)
      PROVE  Before(b, n) /\ \A i \in 1..Len(b) : Ahead(b[i], Head(s))
  BY <1>1, <1>2, <1>3, <1>5 DEF Before, N
<1>6. ASSUME NEW b, Before(s, b)  PROVE Before(n, b)
  BY <1>2, <1>6 DEF Before, N
<1>. QED  BY <1>4, <1>5, <1>6 DEF Ordered, n, N

(* enqueueMicrotask: the first job moves from one part to the next.         *)
LEMMA LineEnqueue ==
  ASSUME NEW S, NEW b, NEW q \in Seq(S), NEW e \in Seq(S), e # <<>>, InLine(b, q, e)
  PROVE  InLine(b, Append(q, Head(e)), Tail(e))
<1>1. /\ Ordered(Tail(e)) /\ \A i \in 1..Len(Tail(e)) : Ahead(Head(e), Tail(e)[i])
      /\ Before(b, Tail(e)) /\ \A i \in 1..Len(b) : Ahead(b[i], Head(e))
      /\ Before(q, Tail(e)) /\ \A i \in 1..Len(q) : Ahead(q[i], Head(e))
  BY TailOrder DEF InLine
<1>2. Ordered(Append(q, Head(e))) /\ Before(b, Append(q, Head(e)))
  BY <1>1, AppendAhead DEF InLine
<1>3. Before(Append(q, Head(e)), Tail(e))
  <2>. DEFINE n == Append(q, Head(e))
              r == Tail(e)
  <2>1. \A i \in 1..Len(n) : n[i] = Head(e) \/ (i \in 1..Len(q) /\ n[i] = q[i])
    <3>1. Len(q) \in Nat /\ Len(n) = Len(q) + 1 /\ n[Len(q) + 1] = Head(e)
          /\ \A i \in 1..Len(q) : n[i] = q[i]
      BY LenProperties
    <3>. HIDE DEF n
    <3>. QED  BY <3>1
  <2>. HIDE DEF n, r
  <2>2. /\ \A i \in 1..Len(r) : Ahead(Head(e), r[i])
        /\ Before(q, r)
    BY <1>1 DEF r
  <2>3. Before(n, r)
    BY <2>1, <2>2 DEF Before
  <2>. QED  BY <2>3 DEF n, r
<1>. QED  BY <1>1, <1>2, <1>3 DEF InLine

(* A job of the batch has run.                                              *)
LEMMA LineRun ==
  ASSUME NEW S, NEW b \in Seq(S), b # <<>>, NEW q, NEW e, InLine(b, q, e)
  PROVE  InLine(Tail(b), q, e)
  BY TailOrder DEF InLine

(* The queue becomes the batch.                                             *)
LEMMA LineProcess ==
  ASSUME NEW b, NEW q, InLine(b, q, <<>>)
  PROVE  InLine(q, <<>>, <<>>)
<1>1. Ordered(<<>>) /\ Before(q, <<>>) /\ Before(<<>>, <<>>)
  BY DEF Ordered, Before
<1>. QED  BY <1>1 DEF InLine

(* The reactions of a promise that nobody waits for yet.                    *)
LEMMA LineSettle ==
  ASSUME NEW b, NEW q, NEW e, InLine(b, q, <<>>), Ordered(e), Before(b, e), Before(q, e)
  PROVE  InLine(b, q, e)
  BY DEF InLine

(* A thread queues the reactions of a promise with nothing above, and runs  *)
(* a batch with nothing below.                                             *)
Shape(s) ==
  \A k \in 1..Len(s) : /\ s[k].kind = "enqueue" => k = 1
                       /\ s[k].kind = "batch" => k = Len(s)
BatchOf(s)   == IF s # <<>> /\ s[Len(s)].kind = "batch" THEN s[Len(s)].jobs ELSE <<>>
EnqueueOf(s) == IF s # <<>> /\ s[1].kind = "enqueue" THEN s[1].jobs ELSE <<>>

Quiet(f) == f.kind \notin {"enqueue", "batch"}

(* One frame less, and others in its place.                                 *)
LEMMA ReplacedSeq ==
  ASSUME NEW S, NEW s \in Seq(S), s # <<>>, NEW T, NEW fs \in Seq(T),
         NEW n, n = fs \o Tail(s), NEW L, L = Len(s), NEW N, N = Len(fs)
  PROVE  /\ L \in Nat /\ L >= 1 /\ N \in Nat
         /\ Len(n) = N + L - 1 /\ n \in Seq(S \cup T)
         /\ \A k \in 1..Len(n) : \/ k \in 1..N /\ n[k] = fs[k]
                                 \/ k - N + 1 \in 2..L /\ n[k] = s[k - N + 1]
         /\ n = <<>> <=> N = 0 /\ L = 1
<1>1. /\ L \in Nat /\ L >= 1 /\ N \in Nat /\ Len(Tail(s)) = L - 1
      /\ \A k \in 1..Len(Tail(s)) : Tail(s)[k] = s[k + 1]
      /\ Tail(s) \in Seq(S)
  BY HeadTailProperties, LenProperties, EmptySeq
<1>2. fs \in Seq(S \cup T) /\ Tail(s) \in Seq(S \cup T)
  BY <1>1, SeqMonotonic
<1>. DEFINE r == Tail(s)
<1>. HIDE DEF r
<1>3. /\ n \in Seq(S \cup T) /\ Len(n) = N + (L - 1)
      /\ \A k \in 1..Len(n) : n[k] = IF k <= N THEN fs[k] ELSE r[k - N]
  BY <1>1, <1>2, ConcatProperties DEF r
<1>4. ASSUME NEW k \in 1..Len(n)
      PROVE  \/ k \in 1..N /\ n[k] = fs[k]
             \/ k - N + 1 \in 2..L /\ n[k] = s[k - N + 1]
  <2>1. CASE k <= N
    BY <1>1, <1>3, <2>1
  <2>2. CASE ~ (k <= N)
    <3>1. k - N \in 1..(L - 1) /\ k - N + 1 \in 2..L
      BY <1>1, <1>3, <2>2
    <3>2. n[k] = r[k - N]
      BY <1>1, <1>3, <2>2
    <3>3. r[k - N] = s[(k - N) + 1]
      BY <1>1, <3>1 DEF r
    <3>. QED  BY <3>1, <3>2, <3>3
  <2>. QED  BY <2>1, <2>2
<1>5. n = <<>> <=> Len(n) = 0
  BY <1>3, EmptySeq
<1>. QED  BY <1>1, <1>3, <1>4, <1>5

(* Frames that carry no jobs: a call or a script comes or goes.             *)
LEMMA QuietReplace ==
  ASSUME NEW S, NEW s \in Seq(S), s # <<>>, NEW T, NEW fs \in Seq(T), Shape(s),
         \A k \in 1..Len(fs) : Quiet(fs[k]),
         NEW n, n = fs \o Tail(s)
  PROVE  /\ Shape(n) /\ EnqueueOf(n) = <<>>
         /\ BatchOf(n) = IF s[1].kind = "batch" THEN <<>> ELSE BatchOf(s)
<1>1. PICK L, N : L = Len(s) /\ N = Len(fs)
  OBVIOUS
<1>2. /\ L \in Nat /\ L >= 1 /\ N \in Nat /\ Len(n) = N + L - 1
      /\ \A k \in 1..Len(n) : \/ k \in 1..N /\ n[k] = fs[k]
                              \/ k - N + 1 \in 2..L /\ n[k] = s[k - N + 1]
      /\ n = <<>> <=> N = 0 /\ L = 1
  BY <1>1, ReplacedSeq
<1>3. ASSUME NEW k \in 1..Len(n)
      PROVE  n[k].kind # "enqueue" /\ (n[k].kind = "batch" => k = Len(n))
  <2>1. CASE k \in 1..N /\ n[k] = fs[k]
    BY <1>1, <2>1 DEF Quiet
  <2>2. CASE k - N + 1 \in 2..L /\ n[k] = s[k - N + 1]
    <3>1. PICK m : m = k - N + 1
      OBVIOUS
    <3>2. m \in 1..Len(s) /\ m # 1 /\ n[k] = s[m]
      BY <1>1, <1>2, <2>2, <3>1
    <3>3. n[k].kind # "enqueue" /\ (n[k].kind = "batch" => m = L)
      BY <1>1, <3>2 DEF Shape
    <3>4. m = L => k = Len(n)
      BY <1>2, <3>1
    <3>. QED  BY <3>3, <3>4
  <2>. QED  BY <1>2, <2>1, <2>2
<1>4. Shape(n)
  BY <1>3 DEF Shape
<1>5. EnqueueOf(n) = <<>>
  <2>1. n # <<>> => 1 \in 1..Len(n)
    BY <1>2
  <2>. QED  BY <1>3, <2>1 DEF EnqueueOf
<1>6. CASE L = 1
  <2>0. Len(n) = N /\ (n # <<>> => N # 0)
    BY <1>2, <1>6
  <2>1. n # <<>> => N \in 1..N /\ n[N] = fs[N]
    <3>1. n # <<>> => N \in 1..N
      BY <1>2, <2>0
    <3>2. 2..L = {}
      BY <1>6
    <3>. QED  BY <1>2, <2>0, <3>1, <3>2
  <2>2. n # <<>> => n[Len(n)].kind # "batch"
    BY <1>1, <2>0, <2>1 DEF Quiet
  <2>. QED  BY <1>1, <1>4, <1>5, <1>6, <2>2 DEF BatchOf
<1>7. CASE L # 1
  <2>1. PICK M : M = Len(n)
    OBVIOUS
  <2>11. M = N + L - 1 /\ M \in 1..M /\ M - N + 1 = L /\ M \notin 1..N
    BY <1>2, <1>7, <2>1
  <2>2. n # <<>> /\ n[Len(n)] = s[L]
    BY <1>2, <1>7, <2>1, <2>11
  <2>3. s[1].kind # "batch"
    <3>1. 1 \in 1..Len(s)
      BY <1>1, <1>2
    <3>. QED  BY <1>1, <1>7, <3>1 DEF Shape
  <2>. QED  BY <1>1, <1>4, <1>5, <2>2, <2>3 DEF BatchOf
<1>. QED  BY <1>6, <1>7

(* A frame of jobs to queue takes the place of the innermost frame.         *)
LEMMA EnqueueReplace ==
  ASSUME NEW S, NEW s \in Seq(S), s # <<>>, Shape(s), s[1].kind # "batch",
         NEW f, f.kind = "enqueue", NEW n, n = <<f>> \o Tail(s)
  PROVE  Shape(n) /\ EnqueueOf(n) = f.jobs /\ BatchOf(n) = BatchOf(s)
<1>1. PICK L, fs : L = Len(s) /\ fs = <<f>>
  OBVIOUS
<1>2. fs \in Seq({f}) /\ Len(fs) = 1 /\ fs[1] = f /\ n = fs \o Tail(s)
  BY <1>1
<1>3. /\ L \in Nat /\ L >= 1 /\ Len(n) = 1 + L - 1
      /\ \A k \in 1..Len(n) : \/ k \in 1..1 /\ n[k] = fs[k]
                              \/ k - 1 + 1 \in 2..L /\ n[k] = s[k - 1 + 1]
      /\ n = <<>> <=> 1 = 0 /\ L = 1
  BY <1>1, <1>2, ReplacedSeq
<1>4. Len(n) = L /\ n # <<>> /\ 1 \in 1..L /\ L \in 1..L
  BY <1>3
<1>5. n[1] = f /\ \A k \in 1..L : k # 1 => n[k] = s[k]
  BY <1>2, <1>3, <1>4
<1>6. Shape(n)
  BY <1>1, <1>4, <1>5 DEF Shape
<1>7. EnqueueOf(n) = f.jobs
  BY <1>4, <1>5 DEF EnqueueOf
<1>8. BatchOf(n) = BatchOf(s)
  BY <1>1, <1>4, <1>5 DEF BatchOf
<1>. QED  BY <1>6, <1>7, <1>8

(* The batch is innermost, so it is all there is.                           *)
LEMMA BatchReplace ==
  ASSUME NEW S, NEW s \in Seq(S), s # <<>>, Shape(s), s[1].kind = "batch",
         NEW T, NEW fs \in Seq(T), \A k \in 1..Len(fs) : Quiet(fs[k]),
         NEW f, f.kind = "batch", NEW n, n = (fs \o <<f>>) \o Tail(s)
  PROVE  Shape(n) /\ EnqueueOf(n) = <<>> /\ BatchOf(n) = f.jobs
<1>1. PICK L, N, gs : L = Len(s) /\ N = Len(fs) /\ gs = fs \o <<f>>
  OBVIOUS
<1>2. L = 1
  <2>1. 1 \in 1..Len(s)
    BY LenProperties, EmptySeq
  <2>. QED  BY <1>1, <2>1 DEF Shape
<1>3. /\ N \in Nat /\ gs \in Seq(T \cup {f}) /\ Len(gs) = N + 1
      /\ \A k \in 1..N : gs[k] = fs[k]
      /\ gs[N + 1] = f
  <2>1. PICK one : one = <<f>>
    OBVIOUS
  <2>2. /\ one \in Seq({f}) /\ Len(one) = 1 /\ one[1] = f
    BY <2>1
  <2>3. one \in Seq(T \cup {f}) /\ fs \in Seq(T \cup {f})
    BY <2>2, SeqMonotonic
  <2>4. /\ gs \in Seq(T \cup {f}) /\ Len(gs) = N + 1 /\ N \in Nat
        /\ \A k \in 1..(N + 1) : gs[k] = IF k <= N THEN fs[k] ELSE one[k - N]
    BY <1>1, <2>1, <2>2, <2>3, ConcatProperties, LenProperties
  <2>. QED  BY <2>2, <2>4
<1>4. /\ Len(n) = N + 1 + L - 1
      /\ \A k \in 1..Len(n) : \/ k \in 1..(N + 1) /\ n[k] = gs[k]
                              \/ k - (N + 1) + 1 \in 2..L /\ n[k] = s[k - (N + 1) + 1]
      /\ n = <<>> <=> N + 1 = 0 /\ L = 1
  BY <1>1, <1>3, ReplacedSeq
<1>5. /\ Len(n) = N + 1 /\ n # <<>> /\ 1 \in 1..Len(n)
      /\ \A k \in 1..Len(n) : n[k] = gs[k] /\ (k \in 1..N \/ k = N + 1)
  <2>1. Len(n) = N + 1 /\ n # <<>> /\ 1 \in 1..Len(n)
    BY <1>2, <1>3, <1>4
  <2>2. 2..L = {}
    BY <1>2
  <2>3. \A k \in 1..(N + 1) : n[k] = gs[k]
    BY <1>4, <2>1, <2>2
  <2>4. \A k \in 1..(N + 1) : k \in 1..N \/ k = N + 1
    BY <1>3
  <2>. QED  BY <2>1, <2>3, <2>4
<1>6. \A k \in 1..Len(n) : k # N + 1 => Quiet(n[k])
  BY <1>1, <1>3, <1>5
<1>7. n[N + 1] = f /\ N + 1 \in 1..Len(n)
  <2>1. N + 1 \in 1..(N + 1)
    BY <1>3
  <2>. QED  BY <1>3, <1>5, <2>1
<1>8. Shape(n)
  BY <1>5, <1>6, <1>7 DEF Shape, Quiet
<1>9. EnqueueOf(n) = <<>>
  BY <1>5, <1>6, <1>7 DEF EnqueueOf, Quiet
<1>10. BatchOf(n) = f.jobs
  BY <1>5, <1>7 DEF BatchOf
<1>. QED  BY <1>8, <1>9, <1>10

(* A script calls, or makes a promise: a frame is pushed.                   *)
LEMMA ShapePush ==
  ASSUME NEW S, NEW s \in Seq(S), Shape(s), EnqueueOf(s) = <<>>,
         s = <<>> \/ s[1].kind # "enqueue",
         NEW f, Quiet(f), NEW n, n = <<f>> \o s
  PROVE  Shape(n) /\ EnqueueOf(n) = <<>> /\ BatchOf(n) = BatchOf(s)
<1>1. PICK L, fs : L = Len(s) /\ fs = <<f>>
  OBVIOUS
<1>2. fs \in Seq({f}) /\ Len(fs) = 1 /\ fs[1] = f /\ n = fs \o s /\ L \in Nat
  BY <1>1, LenProperties
<1>3. fs \in Seq(S \cup {f}) /\ s \in Seq(S \cup {f})
  BY <1>2, SeqMonotonic
<1>4. /\ Len(n) = 1 + L /\ n \in Seq(S \cup {f})
      /\ \A k \in 1..(1 + L) : n[k] = IF k <= 1 THEN fs[k] ELSE s[k - 1]
  BY <1>1, <1>2, <1>3, ConcatProperties
<1>5. /\ n[1] = f /\ n # <<>> /\ 1 \in 1..Len(n) /\ Len(n) \in 1..Len(n)
      /\ \A k \in 1..Len(n) : k # 1 => k - 1 \in 1..L /\ n[k] = s[k - 1]
  BY <1>2, <1>4
<1>6. ASSUME NEW k \in 1..Len(n), k # 1
      PROVE  n[k].kind # "enqueue" /\ (n[k].kind = "batch" => k = Len(n))
  <2>1. k - 1 \in 1..L /\ n[k] = s[k - 1]
    BY <1>5, <1>6
  <2>2. /\ n[k].kind = "enqueue" => k - 1 = 1
        /\ n[k].kind = "batch" => k - 1 = L
    BY <1>1, <2>1 DEF Shape
  <2>3. s # <<>>
    BY <1>1, <2>1
  <2>4. n[k].kind # "enqueue"
    BY <2>1, <2>2, <2>3
  <2>. QED  BY <1>2, <1>4, <2>2, <2>4
<1>7. Shape(n) /\ EnqueueOf(n) = <<>>
  BY <1>5, <1>6 DEF Shape, Quiet, EnqueueOf
<1>8. CASE s = <<>>
  <2>1. Len(n) = 1
    BY <1>1, <1>4, <1>8
  <2>. QED  BY <1>5, <1>7, <1>8, <2>1 DEF BatchOf, Quiet
<1>9. CASE s # <<>>
  <2>1. L # 0
    BY <1>1, <1>9, EmptySeq
  <2>2. Len(n) # 1 /\ Len(n) - 1 = L
    BY <1>2, <1>4, <2>1
  <2>3. n[Len(n)] = s[L]
    BY <1>5, <2>2
  <2>. QED  BY <1>1, <1>5, <1>7, <1>9, <2>3 DEF BatchOf
<1>. QED  BY <1>8, <1>9

Rising(rs) == \A i, j \in 1..Len(rs) : i < j => rs[i].to < rs[j].to

Line(t) ==
  /\ Shape(stack[t])
  /\ InLine(BatchOf(stack[t]), queue, EnqueueOf(stack[t]))
  /\ \A p \in Promises : Rising(reactions[p])

(* What the invariant says of the parts of the line.                        *)
LEMMA Parts ==
  ASSUME NEW K, IsMore(K), IInv(K), NEW t \in Threads
  PROVE  /\ stack[t] \in Seq(FitFrame(K))
         /\ stack[t] # <<>> => stack[t][1] = Head(stack[t])
         /\ BatchOf(stack[t]) \in Seq(FitJob(K))
         /\ EnqueueOf(stack[t]) \in Seq(FitJob(K))
         /\ queue \in Seq(FitJob(K))
<1>1. stack[t] \in Seq(FitFrame(K)) /\ queue \in Seq(FitJob(K))
  BY DEF IInv
<1>2. \A k \in 1..Len(stack[t]) :
        stack[t][k].kind \in {"enqueue", "batch"} => stack[t][k].jobs \in Seq(FitJob(K))
  <2>1. \A k \in 1..Len(stack[t]) : stack[t][k] \in FitFrame(K)
    BY <1>1, ElementOfSeq
  <2>2. \A f \in FitFrame(K) : f.kind \in {"enqueue", "batch"} => f.jobs \in Seq(FitJob(K))
    BY DEF FitFrame, FitCall, FitNative, FitScript, ScriptFrame, IsMore, Natives
  <2>. QED  BY <2>1, <2>2
<1>3. stack[t] # <<>> => /\ 1 \in 1..Len(stack[t]) /\ Len(stack[t]) \in 1..Len(stack[t])
                         /\ stack[t][1] = Head(stack[t])
  BY <1>1, LenProperties, EmptySeq, HeadTailProperties
<1>4. <<>> \in Seq(FitJob(K))
  BY EmptySeq
<1>. QED  BY <1>1, <1>2, <1>3, <1>4 DEF BatchOf, EnqueueOf

(* The innermost frame is a call or a script, or there is none: nothing is  *)
(* being queued.                                                           *)
LEMMA NoneQueueing ==
  ASSUME NEW K, IsMore(K), IInv(K), NEW t \in Threads,
         stack[t] = <<>> \/ Head(stack[t]).kind # "enqueue"
  PROVE  EnqueueOf(stack[t]) = <<>> /\ (stack[t] = <<>> \/ stack[t][1].kind # "enqueue")
  BY Parts DEF EnqueueOf

(* Frames without jobs take the place of one: the line stays, but for the   *)
(* batch or the queueing that ends.                                        *)
LEMMA QuietLine ==
  ASSUME NEW K, IsMore(K), IInv(K), NEW t \in Threads, stack[t] # <<>>, Line(t),
         NEW T, NEW fs \in Seq(T), \A k \in 1..Len(fs) : Quiet(fs[k]),
         Replace(t, fs)
  PROVE  /\ Shape(stack'[t]) /\ EnqueueOf(stack'[t]) = <<>>
         /\ InLine(BatchOf(stack'[t]), queue, <<>>)
         /\ BatchOf(stack'[t]) = IF Head(stack[t]).kind = "batch" THEN <<>> ELSE BatchOf(stack[t])
<1>1. PICK s, n : s = stack[t] /\ n = fs \o Tail(s)
  OBVIOUS
<1>2. stack'[t] = n
  BY <1>1 DEF Replace, IInv
<1>3. s \in Seq(FitFrame(K)) /\ s # <<>> /\ s[1] = Head(stack[t]) /\ Shape(s)
  BY <1>1, Parts DEF Line
<1>4. /\ Shape(n) /\ EnqueueOf(n) = <<>>
      /\ BatchOf(n) = IF s[1].kind = "batch" THEN <<>> ELSE BatchOf(s)
  BY <1>1, <1>3, QuietReplace
<1>5. InLine(BatchOf(n), queue, <<>>)
  BY <1>1, <1>4, LineEmpty DEF Line
<1>. QED  BY <1>1, <1>2, <1>3, <1>4, <1>5

(* The same for the frames the actions make.                                *)
LEMMA QuietOne ==
  ASSUME NEW K, IsMore(K), IInv(K), NEW t \in Threads, stack[t] # <<>>, Line(t),
         \/ Replace(t, <<>>)
         \/ \E f : Replace(t, <<f>>) /\ Quiet(f)
  PROVE  /\ Shape(stack'[t]) /\ EnqueueOf(stack'[t]) = <<>>
         /\ InLine(BatchOf(stack'[t]), queue, <<>>)
         /\ BatchOf(stack'[t]) = IF Head(stack[t]).kind = "batch" THEN <<>> ELSE BatchOf(stack[t])
<1>1. CASE Replace(t, <<>>)
  <2>1. PICK fs : fs = <<>>
    OBVIOUS
  <2>2. fs \in Seq(FitFrame(K)) /\ Len(fs) = 0 /\ Replace(t, fs)
    BY <1>1, <2>1
  <2>3. \A k \in 1..Len(fs) : Quiet(fs[k])
    BY <2>2
  <2>. QED  BY <2>2, <2>3, QuietLine
<1>2. CASE \E f : Replace(t, <<f>>) /\ Quiet(f)
  <2>1. PICK f : Replace(t, <<f>>) /\ Quiet(f)
    BY <1>2
  <2>2. PICK fs : fs = <<f>>
    OBVIOUS
  <2>3. fs \in Seq({f}) /\ Replace(t, fs) /\ Len(fs) = 1 /\ fs[1] = f
    BY <2>1, <2>2
  <2>4. \A k \in 1..Len(fs) : Quiet(fs[k])
    BY <2>1, <2>3
  <2>. QED  BY <2>3, <2>4, QuietLine
<1>. QED  BY <1>1, <1>2

(* Calls and scripts hold no jobs.                                          *)
LEMMA QuietFrames ==
  /\ \A fn, p, v : fn \notin {"enqueue", "batch"} => Quiet(Call(fn, p, v))
  /\ \A ret, thr, wrapper, arg : Quiet(Script(ret, thr, wrapper, arg))
  BY DEF Quiet, Call, Script

(* A step that ends or replaces a frame and leaves queue and reactions.     *)
LEMMA QuietStep ==
  ASSUME NEW K, IsMore(K), IInv(K), NEW t \in Threads, stack[t] # <<>>, Line(t),
         \/ Replace(t, <<>>)
         \/ \E f : Replace(t, <<f>>) /\ Quiet(f),
         UNCHANGED <<queue, reactions>>
  PROVE  Line(t)'
  BY QuietOne DEF Line

(* A quiet frame is pushed: the line stays.                                 *)
LEMMA PushStep ==
  ASSUME NEW K, IsMore(K), IInv(K), NEW t \in Threads, InScript(t), Line(t),
         NEW f, Quiet(f), Push(t, f), UNCHANGED <<queue, reactions>>
  PROVE  Line(t)'
<1>1. PICK s, n : s = stack[t] /\ n = <<f>> \o s
  OBVIOUS
<1>2. stack'[t] = n
  BY <1>1 DEF Push, IInv
<1>3. /\ s \in Seq(FitFrame(K)) /\ Shape(s) /\ EnqueueOf(s) = <<>>
      /\ s = <<>> \/ s[1].kind # "enqueue"
  BY <1>1, Parts, NoneQueueing DEF Line, InScript, Running
<1>4. Shape(n) /\ EnqueueOf(n) = <<>> /\ BatchOf(n) = BatchOf(s)
  BY <1>1, <1>3, ShapePush
<1>. QED  BY <1>1, <1>2, <1>3, <1>4 DEF Line

(* The queue becomes the batch.                                             *)
LEMMA ProcessMicrotasksLine ==
  ASSUME NEW K, IsMore(K), IInv(K), NEW t \in Threads, Line(t), ProcessMicrotasks(t)
  PROVE  Line(t)'
<1>. USE DEF ProcessMicrotasks
<1>1. PICK f, n : f = Jobs("batch", queue) /\ n = <<f>>
  OBVIOUS
<1>2. f.kind = "batch" /\ f.jobs = queue
  BY <1>1 DEF Jobs
<1>3. stack'[t] = n
  <2>1. stack' = [stack EXCEPT ![t] = n \o @]
    BY <1>1 DEF Push
  <2>2. n \in Seq({f}) /\ stack'[t] = n \o stack[t] /\ stack[t] = <<>>
    BY <1>1, <2>1 DEF IInv
  <2>3. n \o <<>> = n
    BY <2>2, ConcatEmptySeq
  <2>. QED  BY <2>2, <2>3
<1>4. Len(n) = 1 /\ n[1] = f /\ n # <<>>
  BY <1>1
<1>5. Shape(n) /\ EnqueueOf(n) = <<>> /\ BatchOf(n) = queue
  BY <1>2, <1>4 DEF Shape, EnqueueOf, BatchOf
<1>6. EnqueueOf(stack[t]) = <<>>
  BY DEF EnqueueOf
<1>7. InLine(queue, <<>>, <<>>)
  BY <1>6, LineProcess DEF Line
<1>. QED  BY <1>3, <1>5, <1>7 DEF Line

(* then() on a settled promise queues a job for a promise made just now.    *)
LEMMA FreshAhead ==
  ASSUME NEW K, IsMore(K), IInv(K), NEW s \in Seq(FitJob(K)), NEW job,
         job.kind = "then" \/ job.to = created + 1
  PROVE  \A i \in 1..Len(s) : Ahead(s[i], job)
<1>. SUFFICES ASSUME NEW i \in 1..Len(s)  PROVE Ahead(s[i], job)
  OBVIOUS
<1>1. s[i] \in FitJob(K)
  BY ElementOfSeq
<1>2. s[i].to \in Promises /\ s[i].to <= created
  BY <1>1 DEF FitJob, AnyJob, HandlerFits
<1>. QED  BY <1>2, Numbers DEF Ahead, IInv

(* A reaction with the newest derived promise stands behind the others.     *)
LEMMA FreshRising ==
  ASSUME NEW K, IsMore(K), IInv(K), NEW rs \in Seq(FitReaction(K)), Rising(rs),
         NEW r, r.to = created + 1
  PROVE  Rising(Append(rs, r))
<1>. DEFINE n == Append(rs, r)
<1>1. /\ Len(rs) \in Nat /\ Len(n) = Len(rs) + 1
      /\ \A i \in 1..Len(rs) : n[i] = rs[i]
      /\ n[Len(rs) + 1] = r
  BY LenProperties
<1>2. \A i \in 1..Len(rs) : rs[i].to < created + 1
  <2>. SUFFICES ASSUME NEW i \in 1..Len(rs)  PROVE rs[i].to < created + 1
    OBVIOUS
  <2>1. rs[i] \in FitReaction(K)
    BY ElementOfSeq
  <2>2. rs[i].to \in Promises /\ rs[i].to <= created
    BY <2>1 DEF FitReaction, AnyReaction, HandlerFits
  <2>. QED  BY <2>2, Numbers DEF IInv
<1>. HIDE DEF n
<1>3. ASSUME NEW i \in 1..Len(n), NEW j \in 1..Len(n), i < j
      PROVE  n[i].to < n[j].to
  <2>1. i \in 1..Len(rs) /\ (j \in 1..Len(rs) \/ j = Len(rs) + 1)
    BY <1>1, <1>3
  <2>. QED  BY <1>1, <1>2, <1>3, <2>1 DEF Rising
<1>. QED  BY <1>3 DEF Rising, n

(* then() registers or queues the reaction of a new promise.                *)
LEMMA RegisterLine ==
  ASSUME NEW K, IsMore(K), IInv(K), NEW t \in Threads, NEW b \in Seq(FitJob(K)),
         InLine(b, queue, <<>>), \A x \in Promises : Rising(reactions[x]),
         NEW p \in Promises, NEW f, NEW g, Register(p, f, g)
  PROVE  InLine(b, queue', <<>>) /\ \A x \in Promises : Rising(reactions'[x])
<1>. USE DEF Register
<1>1. CASE state[p] = "Pending"
  <2>. DEFINE r == [onFulfilled |-> f, onRejected |-> g, to |-> created + 1]
  <2>1. reactions' = [reactions EXCEPT ![p] = Append(@, r)] /\ UNCHANGED queue
    BY <1>1
  <2>2. reactions[p] \in Seq(FitReaction(K)) /\ r.to = created + 1
    BY DEF IInv
  <2>. HIDE DEF r
  <2>3. Rising(Append(reactions[p], r))
    BY <2>2, FreshRising
  <2>4. \A x \in Promises : reactions'[x] = IF x = p THEN Append(reactions[p], r)
                                                    ELSE reactions[x]
    BY <2>1 DEF IInv
  <2>. QED  BY <2>1, <2>3, <2>4
<1>2. ASSUME NEW kind, NEW h, UNCHANGED reactions,
             queue' = Append(queue, ReactionJob(kind, p, h, created + 1))
      PROVE  InLine(b, queue', <<>>)
  <2>1. PICK job : job = ReactionJob(kind, p, h, created + 1)
    OBVIOUS
  <2>2. job.to = created + 1 /\ queue' = Append(queue, job) /\ queue \in Seq(FitJob(K))
    BY <1>2, <2>1 DEF ReactionJob, IInv
  <2>3. (\A i \in 1..Len(b) : Ahead(b[i], job)) /\ (\A i \in 1..Len(queue) : Ahead(queue[i], job))
    BY <2>2, FreshAhead
  <2>. QED  BY <2>2, <2>3, LineAppend
<1>. QED  BY <1>1, <1>2

(* A script calls then(): no settling call of the only thread is queueing.  *)
LEMMA CallThenLine ==
  ASSUME NEW K, IsMore(K), IInv(K), NEW t \in Threads, Line(t),
         NEW p \in Promises, NEW pair, CallThen(t, p, pair)
  PROVE  Line(t)'
<1>. USE DEF CallThen
<1>1. EnqueueOf(stack[t]) = <<>>
  BY NoneQueueing DEF InScript, Running
<1>2. PICK b : b = BatchOf(stack[t])
  OBVIOUS
<1>3. b \in Seq(FitJob(K)) /\ InLine(b, queue, <<>>)
  BY <1>1, <1>2, Parts DEF Line
<1>4. InLine(b, queue', <<>>) /\ \A x \in Promises : Rising(reactions'[x])
  BY <1>3, RegisterLine DEF Line
<1>. QED  BY <1>1, <1>2, <1>4 DEF Line

(* The reactions of a pending promise come after every job, none of which   *)
(* is its own.                                                             *)
LEMMA SettledBehind ==
  ASSUME NEW K, IsMore(K), IInv(K), NEW p \in Promises, state[p] = "Pending",
         NEW b \in Seq(FitJob(K)), NEW js, \A i \in 1..Len(js) : js[i].src = p
  PROVE  Before(b, js)
<1>. SUFFICES ASSUME NEW i \in 1..Len(b), NEW j \in 1..Len(js)  PROVE Ahead(b[i], js[j])
  BY DEF Before
<1>1. b[i] \in FitJob(K)
  BY ElementOfSeq
<1>2. b[i].kind = "then" \/ b[i].src # p
  BY <1>1 DEF FitJob, AnyJob, Fits
<1>. QED  BY <1>2 DEF Ahead

(* A promise settles: its reactions, still numbered in order, come behind   *)
(* the queue.                                                              *)
LEMMA SettleLine ==
  ASSUME NEW K, IsMore(K), IInv(K), NEW t \in Threads, stack[t] # <<>>, Line(t),
         Head(stack[t]).kind \in {"resolve", "reject"},
         NEW p \in Promises, state[p] = "Pending",
         NEW how, NEW v, Settle(t, p, how, v), UNCHANGED queue
  PROVE  Line(t)'
<1>. DEFINE js == [i \in 1..Len(reactions[p]) |->
          IF how = "Fulfilled"
          THEN ReactionJob("fulfilled", p, reactions[p][i].onFulfilled,
                           reactions[p][i].to)
          ELSE ReactionJob("rejected", p, reactions[p][i].onRejected,
                           reactions[p][i].to)]
<1>1. PICK f, s, n : f = Jobs("enqueue", js) /\ s = stack[t] /\ n = <<f>> \o Tail(s)
  OBVIOUS
<1>2. /\ reactions' = [reactions EXCEPT ![p] = <<>>]
      /\ f.kind = "enqueue" /\ f.jobs = js /\ stack'[t] = n
  BY <1>1 DEF Settle, Replace, Jobs, IInv
<1>3. Len(reactions[p]) \in Nat
  BY LenProperties DEF IInv
<1>4. /\ Len(js) = Len(reactions[p])
      /\ \A i \in 1..Len(js) : js[i].src = p /\ js[i].to = reactions[p][i].to
  BY <1>3 DEF ReactionJob
<1>. HIDE DEF js
<1>5. /\ s \in Seq(FitFrame(K)) /\ s # <<>> /\ Shape(s) /\ s[1].kind # "batch"
      /\ BatchOf(s) \in Seq(FitJob(K)) /\ queue \in Seq(FitJob(K))
      /\ InLine(BatchOf(s), queue, <<>>)
  BY <1>1, Parts, LineEmpty DEF Line
<1>6. Shape(n) /\ EnqueueOf(n) = js /\ BatchOf(n) = BatchOf(s)
  BY <1>1, <1>2, <1>5, EnqueueReplace
<1>7. Before(BatchOf(s), js) /\ Before(queue, js)
  BY <1>4, <1>5, SettledBehind
<1>8. Ordered(js)
  BY <1>4 DEF Ordered, Ahead, Line, Rising
<1>9. InLine(BatchOf(n), queue, EnqueueOf(n))
  BY <1>5, <1>6, <1>7, <1>8, LineSettle
<1>10. \A x \in Promises : Rising(reactions'[x])
  <2>1. \A x \in Promises : reactions'[x] = reactions[x] \/ reactions'[x] = <<>>
    BY <1>2 DEF IInv
  <2>2. Rising(<<>>)
    BY DEF Rising
  <2>. QED  BY <2>1, <2>2 DEF Line
<1>. QED  BY <1>2, <1>6, <1>9, <1>10 DEF Line

(* resolve(): drops the call, adopts, or settles.                           *)
LEMMA ResolveLine ==
  ASSUME NEW K, IsMore(K), IInv(K), NEW t \in Threads, Line(t), Resolve(t)
  PROVE  Line(t)'
<1>. USE DEF Resolve
<1>. DEFINE p == Head(stack[t]).on
            v == Head(stack[t]).value
<1>1. stack[t] # <<>> /\ Head(stack[t]).kind = "resolve" /\ p \in Promises
  BY HeadFrame DEF Running
<1>2. CASE /\ Replace(t, <<>>)
           /\ UNCHANGED <<state, result, reactions, lock, queue>>
  BY <1>1, <1>2, QuietStep
<1>3. CASE /\ Replace(t, <<Call("reject", p, TypeErr)>>)
           /\ UNCHANGED <<state, result, reactions, queue>>
  BY <1>1, <1>3, QuietStep, QuietFrames
<1>4. CASE /\ queue' = Append(queue, ThenJob(v, p))
           /\ Replace(t, <<>>)
           /\ UNCHANGED <<state, result, reactions, lock>>
  <2>1. PICK job, b : job = ThenJob(v, p) /\ b = BatchOf(stack'[t])
    OBVIOUS
  <2>2. /\ job.kind = "then" /\ queue' = Append(queue, job)
        /\ b = BatchOf(stack[t]) /\ Shape(stack'[t]) /\ EnqueueOf(stack'[t]) = <<>>
        /\ InLine(b, queue, <<>>)
    BY <1>1, <1>4, <2>1, QuietOne DEF ThenJob
  <2>3. b \in Seq(FitJob(K)) /\ queue \in Seq(FitJob(K))
    BY <2>2, Parts
  <2>4. (\A i \in 1..Len(b) : Ahead(b[i], job)) /\ (\A i \in 1..Len(queue) : Ahead(queue[i], job))
    BY <2>2, <2>3, FreshAhead
  <2>5. InLine(b, queue', <<>>)
    BY <2>2, <2>3, <2>4, LineAppend
  <2>. QED  BY <1>4, <2>1, <2>2, <2>5 DEF Line
<1>5. CASE /\ state[p] = "Pending"
           /\ Settle(t, p, "Fulfilled", v)
           /\ UNCHANGED <<lock, queue>>
  BY <1>1, <1>5, SettleLine
<1>. QED  BY <1>2, <1>3, <1>4, <1>5

(* reject(): drops the call or settles.                                     *)
LEMMA RejectLine ==
  ASSUME NEW K, IsMore(K), IInv(K), NEW t \in Threads, Line(t), Reject(t)
  PROVE  Line(t)'
<1>. USE DEF Reject
<1>. DEFINE p == Head(stack[t]).on
<1>1. stack[t] # <<>> /\ Head(stack[t]).kind = "reject" /\ p \in Promises
  BY HeadFrame DEF Running
<1>2. CASE Replace(t, <<>>) /\ UNCHANGED <<state, result, reactions>>
  BY <1>1, <1>2, QuietStep
<1>3. CASE /\ state[p] = "Pending"
           /\ Settle(t, p, "Rejected", Head(stack[t]).value)
  BY <1>1, <1>3, SettleLine
<1>. QED  BY <1>2, <1>3

(* A settling call queues its next reaction.                                *)
LEMMA EnqueueLine ==
  ASSUME NEW K, IsMore(K), IInv(K), NEW t \in Threads, Line(t), Enqueue(t)
  PROVE  Line(t)'
<1>. USE DEF Enqueue
<1>. DEFINE jobs == Head(stack[t]).jobs
<1>1. /\ stack[t] # <<>> /\ Head(stack[t]).kind = "enqueue"
      /\ jobs \in Seq(FitJob(K)) /\ UNCHANGED reactions
  BY HeadFrame DEF Running
<1>2. CASE Replace(t, <<>>) /\ UNCHANGED queue
  BY <1>1, <1>2, QuietStep
<1>3. CASE /\ jobs # <<>>
           /\ queue' = Append(queue, Head(jobs))
           /\ Replace(t, <<Jobs("enqueue", Tail(jobs))>>)
  <2>1. PICK f, s, n : /\ f = Jobs("enqueue", Tail(jobs)) /\ s = stack[t]
                       /\ n = <<f>> \o Tail(s)
    OBVIOUS
  <2>2. f.kind = "enqueue" /\ f.jobs = Tail(jobs) /\ stack'[t] = n
    BY <1>3, <2>1 DEF Replace, Jobs, IInv
  <2>3. /\ s \in Seq(FitFrame(K)) /\ s # <<>> /\ Shape(s) /\ s[1].kind # "batch"
        /\ EnqueueOf(s) = jobs /\ queue \in Seq(FitJob(K))
        /\ InLine(BatchOf(s), queue, jobs)
    BY <1>1, <2>1, Parts DEF Line, EnqueueOf
  <2>4. Shape(n) /\ EnqueueOf(n) = Tail(jobs) /\ BatchOf(n) = BatchOf(s)
    BY <2>1, <2>2, <2>3, EnqueueReplace
  <2>. HIDE DEF jobs
  <2>5. InLine(BatchOf(n), queue', EnqueueOf(n))
    BY <1>1, <1>3, <2>3, <2>4, LineEnqueue
  <2>. QED  BY <1>1, <2>2, <2>4, <2>5 DEF Line
<1>. QED  BY <1>2, <1>3

(* A job of the batch runs.                                                 *)
LEMMA JobRuns ==
  ASSUME NEW K, IsMore(K), IInv(K), NEW t \in Threads, Line(t),
         Running(t, "batch"), Head(stack[t]).jobs # <<>>,
         NEW T, NEW fs \in Seq(T), \A k \in 1..Len(fs) : Quiet(fs[k]),
         Replace(t, fs \o <<Jobs("batch", Tail(Head(stack[t]).jobs))>>)
  PROVE  /\ Shape(stack'[t]) /\ EnqueueOf(stack'[t]) = <<>>
         /\ BatchOf(stack'[t]) \in Seq(FitJob(K))
         /\ InLine(BatchOf(stack'[t]), queue, <<>>)
<1>. DEFINE jobs == Head(stack[t]).jobs
<1>1. PICK f, s, n : /\ f = Jobs("batch", Tail(jobs)) /\ s = stack[t]
                     /\ n = (fs \o <<f>>) \o Tail(s)
  OBVIOUS
<1>2. f.kind = "batch" /\ f.jobs = Tail(jobs) /\ stack'[t] = n
  BY <1>1 DEF Replace, Jobs, IInv
<1>3. /\ s \in Seq(FitFrame(K)) /\ s # <<>> /\ Shape(s) /\ s[1].kind = "batch"
      /\ jobs \in Seq(FitJob(K)) /\ jobs # <<>> /\ s[1].jobs = jobs
  BY <1>1, HeadFrame, Parts DEF Line, Running
<1>4. Shape(n) /\ EnqueueOf(n) = <<>> /\ BatchOf(n) = Tail(jobs)
  <2>1. PICK S : s \in Seq(S)
    BY <1>3
  <2>2. Shape(n) /\ EnqueueOf(n) = <<>> /\ BatchOf(n) = f.jobs
    <3>1. s # <<>> /\ Shape(s) /\ s[1].kind = "batch"
      BY <1>3
    <3>2. f.kind = "batch" /\ n = (fs \o <<f>>) \o Tail(s)
      BY <1>1, <1>2
    <3>. HIDE DEF jobs
    <3>. QED  BY <2>1, <3>1, <3>2, BatchReplace, Zenon
  <2>. QED  BY <1>2, <2>2
<1>5. BatchOf(s) = jobs
  <2>1. 1 \in 1..Len(s)
    BY <1>3, LenProperties, EmptySeq
  <2>2. Len(s) = 1
    BY <1>3, <2>1 DEF Shape
  <2>. QED  BY <1>3, <2>2 DEF BatchOf
<1>6. InLine(jobs, queue, <<>>)
  BY <1>1, <1>5, LineEmpty DEF Line
<1>. HIDE DEF jobs
<1>7. InLine(Tail(jobs), queue, <<>>) /\ Tail(jobs) \in Seq(FitJob(K))
  BY <1>3, <1>6, LineRun, HeadTailProperties
<1>. QED  BY <1>2, <1>4, <1>7

(* A reaction job leaves the front of the batch.                            *)
LEMMA RunReactionLine ==
  ASSUME NEW K, IsMore(K), IInv(K), NEW t \in Threads, Line(t), RunReaction(t)
  PROVE  Line(t)'
<1>. USE DEF RunReaction
<1>. DEFINE jobs == Head(stack[t]).jobs
<1>1. jobs \in Seq(FitJob(K)) /\ jobs # <<>> /\ stack[t] # <<>>
  BY HeadFrame DEF Running
<1>2. PICK job, fs : job = Head(jobs) /\ fs = HandlerFrames(job)
  OBVIOUS
<1>3. job \in FitJob(K) /\ job.kind # "then"
  BY <1>1, <1>2, HeadTailProperties
<1>4. fs \in Seq(FitFrame(K))
  BY <1>2, <1>3, HandlerFramesTyped
<1>5. \A k \in 1..Len(fs) : Quiet(fs[k])
  <2>1. job.handler.fn \notin {"enqueue", "batch"}
    BY <1>3 DEF FitJob, AnyJob, AnyHandler, Handler, IsMore, Natives, None
  <2>2. ASSUME NEW f, fs = <<f>>, Quiet(f)  PROVE \A k \in 1..Len(fs) : Quiet(fs[k])
    BY <2>2
  <2>3. ASSUME NEW f, NEW g, fs = <<f, g>>, Quiet(f), Quiet(g)
        PROVE  \A k \in 1..Len(fs) : Quiet(fs[k])
    BY <2>3
  <2>4. CASE job.handler.fn = "none"
    BY <1>2, <2>2, <2>4, QuietFrames DEF HandlerFrames
  <2>5. CASE job.handler.fn \in {"js", "finally"}
    BY <1>2, <2>2, <2>5, QuietFrames DEF HandlerFrames
  <2>6. CASE job.handler.fn \notin {"none", "js", "finally"}
    <3>1. HandlerFrames(job) = <<Call(job.handler.fn, job.handler.on, result[job.src]),
                                 Call("resolve", job.to, Undefined)>>
      BY <2>6 DEF HandlerFrames
    <3>. QED  BY <1>2, <2>1, <2>3, <3>1, QuietFrames
  <2>. QED  BY <2>4, <2>5, <2>6
<1>6. /\ Running(t, "batch")
      /\ Replace(t, fs \o <<Jobs("batch", Tail(Head(stack[t]).jobs))>>)
      /\ UNCHANGED <<queue, reactions>>
  BY <1>2
<1>. HIDE DEF RunReaction
<1>7. /\ Shape(stack'[t]) /\ EnqueueOf(stack'[t]) = <<>>
      /\ InLine(BatchOf(stack'[t]), queue, <<>>)
  BY <1>1, <1>4, <1>5, <1>6, JobRuns
<1>. QED  BY <1>6, <1>7 DEF Line

(* A thenable job leaves the front of the batch.                            *)
LEMMA RunThenLine ==
  ASSUME NEW K, IsMore(K), IInv(K), NEW t \in Threads, Line(t), RunThen(t)
  PROVE  Line(t)'
<1>. USE DEF RunThen
<1>. DEFINE jobs == Head(stack[t]).jobs
            job  == Head(jobs)
<1>0. PICK rest : rest = Jobs("batch", Tail(jobs))
  OBVIOUS
<1>1. jobs # <<>> /\ Running(t, "batch")
  OBVIOUS
<1>2. CASE /\ job.src \in Promises
           /\ Register(job.src, ResolveFn(job.to), RejectFn(job.to))
           /\ Replace(t, <<rest>>)
  <2>1. PICK fs : fs = <<>>
    OBVIOUS
  <2>2. fs \in Seq(FitFrame(K)) /\ Len(fs) = 0 /\ fs \o <<rest>> = <<rest>>
    <3>1. <<rest>> \in Seq({rest})
      OBVIOUS
    <3>2. <<>> \o <<rest>> = <<rest>>
      BY <3>1, ConcatEmptySeq
    <3>. QED  BY <2>1, <3>2
  <2>3. Replace(t, fs \o <<rest>>) /\ \A k \in 1..Len(fs) : Quiet(fs[k])
    BY <1>2, <2>2
  <2>4. PICK b : b = BatchOf(stack'[t])
    OBVIOUS
  <2>5. /\ Shape(stack'[t]) /\ EnqueueOf(stack'[t]) = <<>>
        /\ b \in Seq(FitJob(K)) /\ InLine(b, queue, <<>>)
    <3>. HIDE DEF RunThen
    <3>. QED  BY <1>0, <1>1, <2>2, <2>3, <2>4, JobRuns
  <2>6. InLine(b, queue', <<>>) /\ \A x \in Promises : Rising(reactions'[x])
    BY <1>2, <2>5, RegisterLine DEF Line
  <2>. QED  BY <2>4, <2>5, <2>6 DEF Line
<1>3. CASE /\ Replace(t, <<Script(NoPromise, job.to, "no", Undefined), rest>>)
           /\ UNCHANGED <<created, state, reactions, queue>>
  <2>1. PICK f, fs : f = Script(NoPromise, job.to, "no", Undefined) /\ fs = <<f>>
    OBVIOUS
  <2>2. /\ fs \in Seq({f}) /\ Len(fs) = 1 /\ fs[1] = f /\ Quiet(f)
        /\ fs \o <<rest>> = <<f, rest>>
    BY <2>1, QuietFrames, ConcatTwo
  <2>3. Replace(t, <<f, rest>>)
    BY <1>3, <2>1
  <2>3a. Replace(t, fs \o <<rest>>)
    BY <2>2, <2>3 DEF Replace
  <2>3b. \A k \in 1..Len(fs) : Quiet(fs[k])
    BY <2>2
  <2>4. /\ Shape(stack'[t]) /\ EnqueueOf(stack'[t]) = <<>>
        /\ InLine(BatchOf(stack'[t]), queue, <<>>)
    <3>. HIDE DEF RunThen
    <3>. QED  BY <1>0, <1>1, <2>2, <2>3a, <2>3b, JobRuns
  <2>. QED  BY <1>3, <2>4 DEF Line
<1>. QED  BY <1>0, <1>2, <1>3

(* Every action of the one thread keeps the line.                           *)
LEMMA NextLine ==
  ASSUME NEW K, IsMore(K), IInv(K), NEW t \in Threads, Line(t),
         Api(t) \/ Native(t) \/ EndScript(t) \/ ProcessMicrotasks(t)
  PROVE  Line(t)'
<1>1. CASE Api(t)
  <2>1. ASSUME NewPromise(t)  PROVE Line(t)'
    BY <2>1, PushStep, QuietFrames DEF NewPromise
  <2>2. ASSUME NEW p, NEW v, CallResolve(t, p, v)  PROVE Line(t)'
    BY <2>2, PushStep, QuietFrames DEF CallResolve
  <2>3. ASSUME NEW p, NEW e, CallReject(t, p, e)  PROVE Line(t)'
    BY <2>3, PushStep, QuietFrames DEF CallReject
  <2>. QED  BY <1>1, <2>1, <2>2, <2>3, CallThenLine DEF Api
<1>2. CASE Native(t)
  <2>1. ASSUME EndBatch(t)  PROVE Line(t)'
    BY <2>1, QuietStep DEF EndBatch, Running
  <2>. QED  BY <1>2, <2>1, ResolveLine, RejectLine, EnqueueLine, RunReactionLine, RunThenLine
            DEF Native
<1>3. CASE EndScript(t)
  <2>1. ASSUME ReturnIgnored(t)  PROVE Line(t)'
    BY <2>1, QuietStep DEF ReturnIgnored, Running
  <2>2. ASSUME NEW v, ReturnValue(t, v)  PROVE Line(t)'
    BY <2>2, QuietStep, QuietFrames DEF ReturnValue, Running
  <2>3. ASSUME NEW v, ReturnFinally(t, v)  PROVE Line(t)'
    BY <2>3, QuietStep, QuietFrames DEF ReturnFinally, Running
  <2>4. ASSUME NEW v, ReturnFinallyPromise(t, v)  PROVE Line(t)'
    BY <2>4, QuietStep, QuietFrames DEF ReturnFinallyPromise, Running
  <2>5. ASSUME NEW e, Throw(t, e)  PROVE Line(t)'
    BY <2>5, QuietStep, QuietFrames DEF Throw, Running
  <2>. QED  BY <1>3, <2>1, <2>2, <2>3, <2>4, <2>5 DEF EndScript
<1>4. CASE ProcessMicrotasks(t)
  BY <1>4, ProcessMicrotasksLine
<1>. QED  BY <1>1, <1>2, <1>3, <1>4

(* What is left of the batch, and the queue after it.                       *)
LEMMA LineIsPipeline ==
  ASSUME NEW K, IsMore(K), IInv(K), NEW t \in Threads, Line(t)
  PROVE  \A i, j \in 1..Len(Pipeline(t)) : i < j => Ahead(Pipeline(t)[i], Pipeline(t)[j])
<1>1. PICK b : b = IF Running(t, "batch") THEN Head(stack[t]).jobs ELSE <<>>
  OBVIOUS
<1>2. b \in Seq(FitJob(K)) /\ queue \in Seq(FitJob(K))
  BY <1>1, HeadFrame, Parts, EmptySeq DEF Running
<1>3. InLine(b, queue, <<>>)
  <2>1. CASE Running(t, "batch")
    <3>1. stack[t] # <<>> /\ stack[t][1].kind = "batch" /\ b = stack[t][1].jobs
      BY <1>1, <2>1, Parts DEF Running
    <3>2. 1 \in 1..Len(stack[t])
      BY <3>1, Parts, LenProperties, EmptySeq
    <3>3. Len(stack[t]) = 1
      BY <3>1, <3>2 DEF Line, Shape
    <3>. QED  BY <3>1, <3>3, LineEmpty DEF BatchOf, Line
  <2>2. CASE ~ Running(t, "batch")
    BY <1>1, <2>2, LineEmpty DEF Line
  <2>. QED  BY <2>1, <2>2
<1>4. PICK n : n = b \o queue
  OBVIOUS
<1>5. Pipeline(t) = n
  BY <1>1, <1>4 DEF Pipeline
<1>6. /\ Len(b) \in Nat /\ Len(queue) \in Nat /\ Len(n) = Len(b) + Len(queue)
      /\ \A i \in 1..Len(n) : n[i] = IF i <= Len(b) THEN b[i] ELSE queue[i - Len(b)]
  BY <1>2, <1>4, ConcatProperties, LenProperties
<1>7. ASSUME NEW i \in 1..Len(n), NEW j \in 1..Len(n), i < j  PROVE Ahead(n[i], n[j])
  <2>1. CASE j <= Len(b)
    <3>1. i \in 1..Len(b) /\ j \in 1..Len(b) /\ n[i] = b[i] /\ n[j] = b[j]
      BY <1>6, <1>7, <2>1
    <3>. QED  BY <1>3, <1>7, <3>1 DEF InLine, Ordered
  <2>2. CASE i <= Len(b) /\ ~(j <= Len(b))
    <3>1. /\ i \in 1..Len(b) /\ j - Len(b) \in 1..Len(queue)
          /\ n[i] = b[i] /\ n[j] = queue[j - Len(b)]
      BY <1>6, <1>7, <2>2
    <3>. QED  BY <1>3, <3>1 DEF InLine, Before
  <2>3. CASE ~(i <= Len(b)) /\ ~(j <= Len(b))
    <3>1. /\ i - Len(b) \in 1..Len(queue) /\ j - Len(b) \in 1..Len(queue)
          /\ i - Len(b) < j - Len(b)
          /\ n[i] = queue[i - Len(b)] /\ n[j] = queue[j - Len(b)]
      BY <1>6, <1>7, <2>3
    <3>. QED  BY <1>3, <3>1 DEF InLine, Ordered
  <2>. QED  BY <1>6, <1>7, <2>1, <2>2, <2>3
<1>. QED  BY <1>5, <1>7

(* On one thread the reactions of a promise run in the order then()         *)
(* registered them, however many batches lie between.                       *)
THEOREM RunInOrder ==
  ASSUME NEW t, Threads = {t}
  PROVE  Spec => []ReactionOrder
<1>1. Init => IInv(Alone) /\ Line(t)
  <2>. SUFFICES ASSUME Init  PROVE IInv(Alone) /\ Line(t)
    OBVIOUS
  <2>1. stack[t] = <<>> /\ queue = <<>> /\ \A p \in Promises : reactions[p] = <<>>
    BY DEF Init
  <2>2. Len(<<>>) = 0
    OBVIOUS
  <2>. QED  BY <2>1, <2>2, InitInv
            DEF Line, Shape, BatchOf, EnqueueOf, InLine, Ordered, Before, Rising
<1>2. IInv(Alone) /\ Line(t) /\ [Next]_vars => (IInv(Alone) /\ Line(t))'
  <2>. SUFFICES ASSUME IInv(Alone), Line(t), [Next]_vars  PROVE Line(t)'
    BY NextInv, NoMore
  <2>1. CASE UNCHANGED vars
    BY <2>1 DEF vars, Line
  <2>2. CASE Next
    BY <2>2, NextLine, NoMore DEF Next
  <2>. QED  BY <2>1, <2>2
<1>3. IInv(Alone) /\ Line(t) => ReactionOrder
  BY LineIsPipeline, NoMore DEF ReactionOrder, Ahead
<1>. QED  BY <1>1, <1>2, <1>3, PTL DEF Spec
============================================================================
