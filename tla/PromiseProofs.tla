--------------------------- MODULE PromiseProofs ---------------------------
(***************************************************************************)
(* Proofs about Promise, for every number of promises and threads, every   *)
(* set of values and every script.                                         *)
(***************************************************************************)
EXTENDS Promise, SequenceTheorems, TLAPS

IsSettled(p) == state[p] \in {"Fulfilled", "Rejected"}

(* The proofs are about these promises and whatever a component built on    *)
(* them adds, which K says.  K.native are its native functions: n.fn, of the *)
(* promise n.on, is called when n.src is settled as n.how says, or is no     *)
(* handler but a frame of its own if n.how is "never".  K.own are promises   *)
(* that the component settles itself and that no handler, job or script has  *)
(* the resolving functions of.  Promise itself adds nothing.                *)
IsMore(K) ==
  /\ \A n \in K.native :
       /\ n.fn \notin {"none", "js", "finally", "resolve", "reject",
                       "enqueue", "batch", "script"}
       /\ n.how \in {"fulfilled", "rejected"} => n.src \in Promises
  /\ K.own \subseteq Promises

Natives(K) == {n.fn : n \in K.native}

(* The promises that native functions are the only handlers of.             *)
Reserved(K, q) == \E n \in K.native : n.on = q /\ n.how # "never"

AnyHandler(K) == Handler \cup [fn : Natives(K), on : Promises]
AnyReaction(K) ==
  [onFulfilled : AnyHandler(K), onRejected : AnyHandler(K), to : Promises]
AnyJob(K) ==
  [kind : {"fulfilled", "rejected"}, src : Promises,
   handler : AnyHandler(K), to : Promises]
  \cup [kind : {"then"}, src : Thenable, handler : {None}, to : Promises]

(* Whoever derives into q with the handler h speaks of promises that exist. *)
(* A resolving function settles another promise than the derived one; a     *)
(* function of K belongs to the derived one.                               *)
HandlerFits(K, h, q) ==
  /\ q <= created /\ h.on <= created
  /\ q \notin K.own /\ h.on \notin K.own
  /\ h.fn \in {"resolve", "reject"} => h.on # q
  /\ h.fn \in Natives(K) => h.on = q

(* A native function handles what it is for, and a promise it is for is     *)
(* derived with it.                                                        *)
NativeFits(K, p, how, h, q) ==
  h.fn \in Natives(K) \/ Reserved(K, q) =>
    /\ h.on = q
    /\ \E n \in K.native : n.fn = h.fn /\ n.on = q /\ n.src = p /\ n.how = how

(* A reaction, a job or a frame that is typed, refers to promises that      *)
(* exist and fits what they have become.                                   *)
FitReaction(K) ==
  {r \in AnyReaction(K) : /\ r.onFulfilled.on = r.onRejected.on
                          /\ r.onFulfilled.fn # "reject"
                          /\ HandlerFits(K, r.onFulfilled, r.to)
                          /\ HandlerFits(K, r.onRejected, r.to)}
FitJob(K) ==
  {job \in AnyJob(K) :
     /\ Fits(job) /\ HandlerFits(K, job.handler, job.to)
     /\ job.kind # "then" => NativeFits(K, job.src, job.kind, job.handler, job.to)}
FitCall(K) ==
  {f \in [kind : {"resolve", "reject"}, on : Promises, value : Value] :
     /\ f.on <= created
     /\ f.kind = "resolve" /\ f.on \in K.own => f.value \in Plain}
FitNative(K) ==
  {f \in [kind : Natives(K), on : Promises, value : Value] :
     /\ f.on <= created
     /\ \E n \in K.native :
          /\ n.fn = f.kind /\ n.on = f.on
          /\ n.how = "fulfilled" => state[n.src] = "Fulfilled" /\ result[n.src] = f.value
          /\ n.how = "rejected" => state[n.src] = "Rejected" /\ result[n.src] = f.value}
FitScript(K) ==
  {f \in ScriptFrame : /\ f.wrapper = "fulfilled" => f.arg \in Plain
                       /\ f.thr <= created
                       /\ f.ret # NoPromise => f.ret = f.thr /\ f.ret \notin K.own}
FitFrame(K) ==
  FitCall(K) \cup FitNative(K) \cup FitScript(K)
  \cup [kind : {"enqueue", "batch"}, jobs : Seq(FitJob(K))]

(* The promises that exist are the first `created` ones.                    *)
BornInOrder == \A p \in Promises : state[p] = "Unborn" <=> p > created

ScalarsOK ==
  /\ created \in 0..MaxPromises
  /\ state \in [Promises -> {"Unborn", "Pending", "Fulfilled", "Rejected"}]
  /\ result \in [Promises -> Value]
  /\ lock \in [Promises -> Threads \cup {Free}]
  /\ exposed \subseteq Existing
  /\ awaits \in [Promises -> Promises \cup {NoPromise}]
  /\ budget \in 0..MaxPromises

(* Native functions wait with the promises they are for, and the next       *)
(* promise is nobody's.                                                    *)
NativeReactions(K) ==
  \A p \in Promises : \A i \in 1..Len(reactions[p]) :
    LET r == reactions[p][i]
    IN  /\ NativeFits(K, p, "fulfilled", r.onFulfilled, r.to)
        /\ NativeFits(K, p, "rejected", r.onRejected, r.to)
NextIsFree(K) == created + 1 \notin K.own /\ ~ Reserved(K, created + 1)

(* The inductive invariant.  That a job fits its promise's outcome is part  *)
(* of its type here, so that the lemmas about sequences carry it; that a    *)
(* `finally` wrapper of a fulfilled promise holds a plain value is what     *)
(* FulfilledIsPlain needs of ReturnFinallyPromise.                          *)
IInv(K) ==
  /\ ScalarsOK
  /\ BornInOrder
  /\ reactions \in [Promises -> Seq(FitReaction(K))]
  /\ queue \in Seq(FitJob(K))
  /\ stack \in [Threads -> Seq(FitFrame(K))]
  /\ NativeReactions(K)
  /\ exposed \cap K.own = {}
  /\ SettledHasNoReactions
  /\ FulfilledIsPlain

---------------------------------------------------------------------------
(* Sequences of frames.                                                    *)

(* One or two elements make a sequence.                                    *)
LEMMA ShortSeqs ==
  ASSUME NEW S, NEW e \in S, NEW f \in S
  PROVE  <<e>> \in Seq(S) /\ <<e, f>> \in Seq(S) /\ <<>> \in Seq(S)
  OBVIOUS

(* A function on 1..n is a sequence: IsASeq without its operator parameter. *)
LEMMA FunctionIsSeq ==
  ASSUME NEW S, NEW n \in Nat, NEW f \in [1..n -> S]
  PROVE  f \in Seq(S)
  BY SeqDef

(* Replacing the innermost frame of a thread's stack by others.             *)
LEMMA ReplaceTyped ==
  ASSUME NEW S, NEW T, S \subseteq T,
         NEW st \in [Threads -> Seq(S)],
         NEW t \in Threads, st[t] # <<>>,
         NEW frames \in Seq(T)
  PROVE  [st EXCEPT ![t] = frames \o Tail(@)] \in [Threads -> Seq(T)]
<1>1. \A u \in Threads : st[u] \in Seq(T)
  BY SeqMonotonic
<1>2. frames \o Tail(st[t]) \in Seq(T)
  BY <1>1, HeadTailProperties, ConcatProperties
<1>. QED  BY <1>1, <1>2

(* Pushing a frame.                                                        *)
LEMMA PushTyped ==
  ASSUME NEW S, NEW T, S \subseteq T,
         NEW st \in [Threads -> Seq(S)],
         NEW t \in Threads, NEW f \in T
  PROVE  [st EXCEPT ![t] = <<f>> \o @] \in [Threads -> Seq(T)]
<1>1. \A u \in Threads : st[u] \in Seq(T)
  BY SeqMonotonic
<1>2. <<f>> \o st[t] \in Seq(T)
  BY <1>1, ShortSeqs, ConcatProperties
<1>. QED  BY <1>1, <1>2

---------------------------------------------------------------------------
(* Jobs and frames outlive the step: what fitted a settled promise fits it  *)
(* as long as the promise stays as it is.                                  *)
LEMMA FitGrows ==
  ASSUME NEW K, IsMore(K),
         \A p \in Promises : IsSettled(p) => state'[p] = state[p] /\ result'[p] = result[p],
         created \in Nat, created' \in Nat, created <= created'
  PROVE  /\ FitReaction(K) \subseteq FitReaction(K)'
         /\ FitJob(K) \subseteq FitJob(K)'
         /\ FitFrame(K) \subseteq FitFrame(K)'
         /\ Seq(FitReaction(K)) \subseteq Seq(FitReaction(K)')
         /\ Seq(FitJob(K)) \subseteq Seq(FitJob(K)')
         /\ Seq(FitFrame(K)) \subseteq Seq(FitFrame(K)')
<1>1. ASSUME NEW h \in AnyHandler(K), NEW q \in Promises, HandlerFits(K, h, q)
      PROVE  HandlerFits(K, h, q)'
  <2>1. h.on \in Nat /\ q \in Nat
    BY DEF AnyHandler, Handler, Promises, NoPromise
  <2>. QED  BY <1>1, <2>1 DEF HandlerFits
<1>2. FitReaction(K) \subseteq FitReaction(K)'
  BY <1>1 DEF FitReaction, AnyReaction
<1>3. FitJob(K) \subseteq FitJob(K)'
  <2>. SUFFICES ASSUME NEW job \in FitJob(K)  PROVE job \in FitJob(K)'
    OBVIOUS
  <2>1. Fits(job)'
    <3>1. CASE job.kind = "then"
      BY <3>1 DEF Fits
    <3>2. CASE job.kind # "then"
      <4>1. job.src \in Promises
        BY <3>2 DEF FitJob, AnyJob
      <4>. QED  BY <4>1 DEF FitJob, Fits, IsSettled
    <3>. QED  BY <3>1, <3>2
  <2>2. job.handler \in AnyHandler(K) /\ job.to \in Promises
    BY DEF FitJob, AnyJob, AnyHandler, Handler, None
  <2>. QED  BY <1>1, <2>1, <2>2 DEF FitJob
<1>4. Seq(FitJob(K)) \subseteq Seq(FitJob(K)')
  BY <1>3, SeqMonotonic
<1>5. FitCall(K) \subseteq FitCall(K)' /\ FitScript(K) \subseteq FitScript(K)'
  BY DEF FitCall, FitScript, ScriptFrame, Promises
<1>6. FitNative(K) \subseteq FitNative(K)'
  <2>. SUFFICES ASSUME NEW f \in FitNative(K)  PROVE f \in FitNative(K)'
    OBVIOUS
  <2>1. f.on <= created'
    BY DEF FitNative, Promises
  <2>2. PICK n \in K.native :
          /\ n.fn = f.kind /\ n.on = f.on
          /\ n.how = "fulfilled" => state[n.src] = "Fulfilled" /\ result[n.src] = f.value
          /\ n.how = "rejected" => state[n.src] = "Rejected" /\ result[n.src] = f.value
    BY DEF FitNative
  <2>3. /\ n.how = "fulfilled" => state'[n.src] = "Fulfilled" /\ result'[n.src] = f.value
        /\ n.how = "rejected" => state'[n.src] = "Rejected" /\ result'[n.src] = f.value
    BY <2>2 DEF IsMore, IsSettled
  <2>. QED  BY <2>1, <2>2, <2>3 DEF FitNative
<1>7. FitFrame(K) \subseteq FitFrame(K)'
  BY <1>4, <1>5, <1>6 DEF FitFrame
<1>. QED  BY <1>2, <1>3, <1>4, <1>7, SeqMonotonic

(* Promises are numbered from one.                                         *)
LEMMA Numbers ==
  ASSUME ScalarsOK
  PROVE  /\ created \in Nat /\ MaxPromises \in Nat /\ NoPromise = 0
         /\ created < MaxPromises => created + 1 \in Promises
         /\ \A p \in Promises : p \in Nat /\ p # NoPromise
         /\ Existing \subseteq Promises
         /\ \A p \in Existing : p <= created
  BY PromiseAssumption DEF ScalarsOK, Promises, Existing, NoPromise

(* The frames the actions make.                                            *)
LEMMA CallTyped ==
  ASSUME NEW K, NEW fn \in {"resolve", "reject"},
         NEW p \in Promises, p <= created, NEW v \in Value,
         fn = "resolve" /\ p \in K.own => v \in Plain
  PROVE  Call(fn, p, v) \in FitFrame(K)
  BY DEF Call, FitCall, FitFrame

LEMMA JobsTyped ==
  ASSUME NEW K, NEW kind \in {"enqueue", "batch"}, NEW js \in Seq(FitJob(K))
  PROVE  Jobs(kind, js) \in FitFrame(K)
  BY DEF Jobs, FitFrame

LEMMA ScriptTyped ==
  ASSUME NEW K,
         NEW ret \in Promises \cup {NoPromise}, NEW thr \in Promises,
         NEW wrapper \in {"no", "fulfilled", "rejected"}, NEW arg \in Value,
         ret = NoPromise => wrapper = "no",
         wrapper = "fulfilled" => arg \in Plain,
         thr <= created, ret # NoPromise => ret = thr /\ ret \notin K.own
  PROVE  Script(ret, thr, wrapper, arg) \in FitFrame(K)
  BY DEF Script, ScriptFrame, FitScript, FitFrame

(* What the kind of the innermost frame says of its fields.                 *)
LEMMA HeadFrame ==
  ASSUME NEW K, IsMore(K), IInv(K), NEW t \in Threads, stack[t] # <<>>
  PROVE  /\ Head(stack[t]) \in FitFrame(K)
         /\ Head(stack[t]).kind \in {"resolve", "reject"} \cup Natives(K)
              => /\ Head(stack[t]).on \in Promises
                 /\ Head(stack[t]).on <= created
                 /\ Head(stack[t]).value \in Value
         /\ Running(t, "resolve") /\ Head(stack[t]).on \in K.own
              => Head(stack[t]).value \in Plain
         /\ Running(t, "enqueue") \/ Running(t, "batch")
              => Head(stack[t]).jobs \in Seq(FitJob(K))
         /\ Running(t, "script")
              => /\ Head(stack[t]).thr \in Promises
                 /\ Head(stack[t]).thr <= created
                 /\ Head(stack[t]).ret \in Promises \cup {NoPromise}
                 /\ Head(stack[t]).ret # NoPromise
                      => /\ Head(stack[t]).ret = Head(stack[t]).thr
                         /\ Head(stack[t]).ret \notin K.own
                 /\ Head(stack[t]).arg \in Value
                 /\ Head(stack[t]).wrapper # "no" => Head(stack[t]).ret \in Promises
                 /\ Head(stack[t]).wrapper = "fulfilled"
                      => Head(stack[t]).arg \in Plain
<1>1. Head(stack[t]) \in FitFrame(K)
  BY HeadTailProperties DEF IInv
<1>2. \A p \in Promises : p # NoPromise
  BY Numbers DEF IInv
<1>. QED  BY <1>1, <1>2 DEF FitFrame, FitCall, FitNative, FitScript, ScriptFrame, Running,
                            IsMore, Natives

---------------------------------------------------------------------------
(* Initial states.                                                         *)
LEMMA InitInv ==
  ASSUME NEW K, Init  PROVE IInv(K)
<1>. USE DEF Init
<1>1. ScalarsOK
  BY PromiseAssumption DEF ScalarsOK, Promises, Value, Existing
<1>2. BornInOrder
  BY PromiseAssumption DEF BornInOrder, Promises
<1>3. /\ reactions \in [Promises -> Seq(FitReaction(K))]
      /\ queue \in Seq(FitJob(K))
      /\ stack \in [Threads -> Seq(FitFrame(K))]
  BY EmptySeq
<1>4. SettledHasNoReactions /\ FulfilledIsPlain
  BY DEF SettledHasNoReactions, FulfilledIsPlain
<1>5. NativeReactions(K)
  BY EmptySeq DEF NativeReactions
<1>. QED  BY <1>1, <1>2, <1>3, <1>4, <1>5 DEF IInv

---------------------------------------------------------------------------
(* Steps.  Each action changes few parts of the invariant: the others are   *)
(* carried over by these two lemmas.                                       *)

(* A step that changes only the stack, the budget or what is exposed.       *)
LEMMA StackStep ==
  ASSUME NEW K, IsMore(K), IInv(K),
         UNCHANGED <<created, state, result, reactions, lock, awaits>>,
         exposed' \subseteq Existing \ K.own, budget' \in 0..MaxPromises,
         queue' \in Seq(FitJob(K)),
         stack' \in [Threads -> Seq(FitFrame(K))]
  PROVE  IInv(K)'
<1>1. created \in Nat
  BY Numbers DEF IInv
<1>2. /\ Seq(FitReaction(K)) \subseteq Seq(FitReaction(K)')
      /\ Seq(FitJob(K)) \subseteq Seq(FitJob(K)')
      /\ Seq(FitFrame(K)) \subseteq Seq(FitFrame(K)')
  BY <1>1, FitGrows
<1>3. /\ reactions' \in [Promises -> Seq(FitReaction(K)')]
      /\ queue' \in Seq(FitJob(K)')
      /\ stack' \in [Threads -> Seq(FitFrame(K)')]
  BY <1>2 DEF IInv
<1>4. ScalarsOK' /\ BornInOrder' /\ SettledHasNoReactions' /\ FulfilledIsPlain'
  BY DEF IInv, ScalarsOK, BornInOrder, SettledHasNoReactions, FulfilledIsPlain, Existing
<1>5. NativeReactions(K)' /\ exposed' \cap K.own = {}
  BY DEF IInv, NativeReactions
<1>. QED  BY <1>3, <1>4, <1>5 DEF IInv

(* then() keeps a pair of reactions with the pending promise p.             *)
KeepsPair(K, p) ==
  \E r \in FitReaction(K)' :
    /\ state[p] = "Pending"
    /\ NativeFits(K, p, "fulfilled", r.onFulfilled, r.to)
    /\ NativeFits(K, p, "rejected", r.onRejected, r.to)
    /\ reactions' = [reactions EXCEPT ![p] = Append(@, r)]

(* A step that makes the next promise, in any state, and may keep reactions *)
(* for one that is pending.                                                *)
LEMMA BirthStep ==
  ASSUME NEW K, IsMore(K), IInv(K), created < MaxPromises,
         NEW born \in {"Pending", "Fulfilled", "Rejected"}, NEW v \in Value,
         born = "Fulfilled" => v \in Plain,
         created' = created + 1,
         state' = [state EXCEPT ![created + 1] = born],
         \/ born = "Pending" /\ UNCHANGED result
         \/ result' = [result EXCEPT ![created + 1] = v],
         NEW p \in Promises,
         UNCHANGED reactions \/ KeepsPair(K, p),
         UNCHANGED lock,
         exposed' \subseteq Existing' \ K.own, budget' \in 0..MaxPromises,
         awaits' \in [Promises -> Promises \cup {NoPromise}],
         queue' \in Seq(FitJob(K)'),
         stack' \in [Threads -> Seq(FitFrame(K)')]
  PROVE  IInv(K)'
<1>1. created + 1 \in Promises /\ created \in Nat
  BY PromiseAssumption DEF IInv, ScalarsOK, Promises
<1>2. state[created + 1] = "Unborn"
  BY <1>1 DEF IInv, BornInOrder, Promises
<1>3. ScalarsOK'
  <2>1. created' \in 0..MaxPromises
    BY <1>1 DEF IInv, ScalarsOK, Promises
  <2>2. /\ state' \in [Promises -> {"Unborn", "Pending", "Fulfilled", "Rejected"}]
        /\ result' \in [Promises -> Value]
    BY <1>1 DEF IInv, ScalarsOK
  <2>. QED  BY <2>1, <2>2 DEF IInv, ScalarsOK
<1>4. BornInOrder'
  <2>. SUFFICES ASSUME NEW q \in Promises
                PROVE  state'[q] = "Unborn" <=> q > created'
    BY DEF BornInOrder
  <2>. q \in Nat
    BY DEF Promises
  <2>1. CASE q = created + 1
    BY <2>1, <1>1 DEF IInv, ScalarsOK
  <2>2. CASE q # created + 1
    BY <2>2, <1>1 DEF IInv, ScalarsOK, BornInOrder
  <2>. QED  BY <2>1, <2>2
<1>5. reactions' \in [Promises -> Seq(FitReaction(K)')]
  <2>1. reactions \in [Promises -> Seq(FitReaction(K)')]
    <3>1. \A q \in Promises : IsSettled(q) => state'[q] = state[q] /\ result'[q] = result[q]
      BY <1>1, <1>2 DEF IInv, ScalarsOK, IsSettled
    <3>2. Seq(FitReaction(K)) \subseteq Seq(FitReaction(K)')
      BY <1>1, <3>1, FitGrows
    <3>. QED  BY <3>2 DEF IInv
  <2>2. CASE KeepsPair(K, p)
    <3>1. PICK r \in FitReaction(K)' : reactions' = [reactions EXCEPT ![p] = Append(@, r)]
      BY <2>2 DEF KeepsPair
    <3>2. Append(reactions[p], r) \in Seq(FitReaction(K)')
      BY <2>1, AppendProperties
    <3>. QED  BY <2>1, <3>1, <3>2
  <2>. QED  BY <2>1, <2>2
<1>6. SettledHasNoReactions'
  <2>. SUFFICES ASSUME NEW q \in Promises, state'[q] # "Pending"
                PROVE  reactions'[q] = <<>>
    BY DEF SettledHasNoReactions
  <2>1. state[q] # "Pending"
    BY <1>1, <1>2 DEF IInv, ScalarsOK
  <2>2. reactions'[q] = reactions[q]
    BY <2>1 DEF IInv, KeepsPair
  <2>. QED  BY <2>1, <2>2 DEF IInv, SettledHasNoReactions
<1>7. FulfilledIsPlain'
  <2>. SUFFICES ASSUME NEW q \in Promises, state'[q] = "Fulfilled"
                PROVE  result'[q] \in Plain
    BY DEF FulfilledIsPlain
  <2>1. CASE q = created + 1
    BY <2>1, <1>1 DEF IInv, ScalarsOK
  <2>2. CASE q # created + 1
    BY <2>2, <1>1 DEF IInv, ScalarsOK, FulfilledIsPlain
  <2>. QED  BY <2>1, <2>2
<1>8. NativeReactions(K)'
  <2>1. CASE UNCHANGED reactions
    BY <2>1 DEF IInv, NativeReactions
  <2>2. CASE KeepsPair(K, p)
    <3>1. PICK r : /\ NativeFits(K, p, "fulfilled", r.onFulfilled, r.to)
                   /\ NativeFits(K, p, "rejected", r.onRejected, r.to)
                   /\ reactions' = [reactions EXCEPT ![p] = Append(@, r)]
      BY <2>2 DEF KeepsPair
    <3>2. \A q \in Promises : q # p => reactions'[q] = reactions[q]
      BY <3>1 DEF IInv
    <3>3. PICK rs, new : rs = reactions[p] /\ new = reactions'[p]
      OBVIOUS
    <3>4. rs \in Seq(FitReaction(K)) /\ new = Append(rs, r)
      BY <3>1, <3>3 DEF IInv
    <3>5. /\ Len(new) = Len(rs) + 1 /\ Len(rs) \in Nat /\ new[Len(rs) + 1] = r
          /\ \A i \in 1..Len(rs) : new[i] = rs[i]
      BY <3>4, AppendProperties, LenProperties
    <3>6. \A i \in 1..Len(new) : i = Len(rs) + 1 \/ i \in 1..Len(rs)
      BY <3>5
    <3>7. \A i \in 1..Len(new) : /\ NativeFits(K, p, "fulfilled", new[i].onFulfilled, new[i].to)
                                 /\ NativeFits(K, p, "rejected", new[i].onRejected, new[i].to)
      BY <3>1, <3>3, <3>5, <3>6 DEF IInv, NativeReactions
    <3>. QED  BY <3>2, <3>3, <3>7 DEF IInv, NativeReactions
  <2>. QED  BY <2>1, <2>2
<1>9. exposed' \cap K.own = {}
  OBVIOUS
<1>. QED  BY <1>3, <1>4, <1>5, <1>6, <1>7, <1>8, <1>9 DEF IInv

(* Making a promise settles no other, and disturbs none that is settled.    *)
LEMMA BirthStable ==
  ASSUME NEW K, IsMore(K), IInv(K), created < MaxPromises, NEW born,
         state' = [state EXCEPT ![created + 1] = born]
  PROVE  \A p \in Promises : IsSettled(p) => /\ p # created + 1
                                           /\ state'[p] = state[p]
<1>1. created + 1 \in Promises /\ state[created + 1] = "Unborn"
  BY PromiseAssumption DEF IInv, ScalarsOK, Promises, BornInOrder
<1>. QED  BY <1>1 DEF IInv, ScalarsOK, IsSettled

LEMMA BirthGrows ==
  ASSUME NEW K, IsMore(K), IInv(K), created < MaxPromises, NEW born,
         created' = created + 1,
         state' = [state EXCEPT ![created + 1] = born],
         NEW v, UNCHANGED result \/ result' = [result EXCEPT ![created + 1] = v]
  PROVE  FitJob(K) \subseteq FitJob(K)' /\ FitFrame(K) \subseteq FitFrame(K)'
<1>1. \A p \in Promises : IsSettled(p) => state'[p] = state[p] /\ result'[p] = result[p]
  BY BirthStable DEF IInv, ScalarsOK
<1>2. created \in Nat /\ created' \in Nat /\ created <= created'
  BY Numbers DEF IInv
<1>. QED  BY <1>1, <1>2, FitGrows

---------------------------------------------------------------------------
(* The actions of scripts.                                                 *)

LEMMA NewPromiseInv ==
  ASSUME NEW K, IsMore(K), IInv(K), NextIsFree(K), NEW t \in Threads, NewPromise(t)
  PROVE  IInv(K)'
<1>. USE DEF NewPromise
<1>1. /\ created + 1 \in Promises /\ budget' \in 0..MaxPromises
      /\ created \in Nat
  BY PromiseAssumption DEF IInv, ScalarsOK, Promises
<1>2. FitJob(K) \subseteq FitJob(K)' /\ FitFrame(K) \subseteq FitFrame(K)'
  BY <1>1, BirthGrows
<1>3. Script(NoPromise, created + 1, "no", Undefined) \in FitFrame(K)'
  BY <1>1, PromiseAssumption DEF Value, Script, ScriptFrame, FitScript, FitFrame
<1>4. stack' \in [Threads -> Seq(FitFrame(K)')]
  BY <1>2, <1>3, PushTyped DEF IInv, Push
<1>5. queue' \in Seq(FitJob(K)')
  BY <1>2, SeqMonotonic DEF IInv
<1>6. /\ exposed' \subseteq Existing' \ K.own
      /\ awaits' \in [Promises -> Promises \cup {NoPromise}]
  <2>1. exposed \subseteq 1..created /\ exposed \cap K.own = {}
    BY DEF IInv, ScalarsOK, Existing
  <2>2. created + 1 \notin K.own /\ exposed' = exposed \cup {created + 1}
    BY DEF NextIsFree
  <2>3. exposed' \subseteq 1..(created + 1)
    BY <1>1, <2>1, <2>2
  <2>. QED  BY <2>1, <2>2, <2>3 DEF IInv, ScalarsOK, Existing
<1>. QED
  BY <1>1, <1>4, <1>5, <1>6, PromiseAssumption, BirthStep DEF Value

(* Spending a part of the budget keeps it in bounds.                        *)
LEMMA CostBounds ==
  ASSUME NEW K, IsMore(K), IInv(K), NEW v \in Value, budget >= Cost(v)
  PROVE  budget - Cost(v) \in 0..MaxPromises
  BY PromiseAssumption DEF IInv, ScalarsOK, Cost

LEMMA CallResolveInv ==
  ASSUME NEW K, IsMore(K), IInv(K), NEW t \in Threads, NEW p \in Promises, NEW v \in ScriptValues,
         CallResolve(t, p, v)
  PROVE  IInv(K)'
<1>. USE DEF CallResolve
<1>1. v \in Value /\ p <= created /\ p \notin K.own
  BY PromiseAssumption, Numbers DEF IInv, ScalarsOK
<1>2. stack' \in [Threads -> Seq(FitFrame(K))]
  BY <1>1, CallTyped, PushTyped DEF IInv, Push
<1>3. budget' \in 0..MaxPromises
  BY <1>1, CostBounds
<1>. QED  BY <1>2, <1>3, StackStep DEF IInv, ScalarsOK

LEMMA CallRejectInv ==
  ASSUME NEW K, IsMore(K), IInv(K), NEW t \in Threads, NEW p \in Promises, NEW e \in Reasons,
         CallReject(t, p, e)
  PROVE  IInv(K)'
<1>. USE DEF CallReject
<1>1. e \in Value /\ p <= created
  BY PromiseAssumption, Numbers DEF IInv, ScalarsOK
<1>2. stack' \in [Threads -> Seq(FitFrame(K))]
  BY <1>1, CallTyped, PushTyped DEF IInv, Push
<1>. QED  BY <1>2, StackStep DEF IInv, ScalarsOK

(* then(): whatever becomes of the pair of reactions, the queue stays typed *)
(* and the next promise is pending.                                        *)
LEMMA RegisterFacts ==
  ASSUME NEW K, IsMore(K), IInv(K), NEW p \in Promises,
         NEW f \in AnyHandler(K), NEW g \in AnyHandler(K),
         f.on = g.on, f.on <= created + 1, f.fn # "reject",
         f.fn \in {"resolve", "reject"} => f.on <= created,
         g.fn \in {"resolve", "reject"} => g.on <= created,
         created + 1 \notin K.own, f.on \notin K.own,
         NativeFits(K, p, "fulfilled", f, created + 1),
         NativeFits(K, p, "rejected", g, created + 1),
         Register(p, f, g), UNCHANGED result
  PROVE  /\ FitJob(K) \subseteq FitJob(K)' /\ FitFrame(K) \subseteq FitFrame(K)'
         /\ queue' \in Seq(FitJob(K)')
         /\ UNCHANGED reactions \/ KeepsPair(K, p)
<1>. USE DEF Register
<1>1. /\ created + 1 \in Promises /\ created \in Nat
      /\ state' = [state EXCEPT ![created + 1] = "Pending"]
      /\ created' = created + 1 /\ created < MaxPromises
  BY Numbers DEF IInv
<1>2. FitJob(K) \subseteq FitJob(K)' /\ FitFrame(K) \subseteq FitFrame(K)'
  BY <1>1, BirthGrows
<1>3. queue \in Seq(FitJob(K)')
  BY <1>2, SeqMonotonic DEF IInv
<1>4. \A q \in Promises : q = created + 1
          => HandlerFits(K, f, q)' /\ HandlerFits(K, g, q)'
  <2>1. f.on \in Nat /\ g.on \in Nat
    BY DEF AnyHandler, Handler, Promises, NoPromise
  <2>. QED  BY <1>1, <2>1 DEF HandlerFits, NativeFits
<1>5. state[p] # "Unborn" => state'[p] = state[p]
  <2>1. state[created + 1] = "Unborn"
    BY <1>1 DEF IInv, BornInOrder
  <2>. QED  BY <1>1, <2>1 DEF IInv, ScalarsOK
<1>6. CASE state[p] = "Pending"
  <2>1. [onFulfilled |-> f, onRejected |-> g, to |-> created + 1] \in FitReaction(K)'
    BY <1>1, <1>4 DEF FitReaction, AnyReaction
  <2>2. KeepsPair(K, p)
    BY <1>6, <2>1 DEF KeepsPair
  <2>. QED  BY <1>2, <1>3, <1>6, <2>2
<1>7. CASE state[p] = "Fulfilled"
  <2>1. ReactionJob("fulfilled", p, f, created + 1) \in FitJob(K)'
    BY <1>1, <1>4, <1>5, <1>7 DEF ReactionJob, AnyJob, FitJob, Fits
  <2>. QED  BY <1>2, <1>3, <1>7, <2>1, AppendProperties
<1>8. CASE state[p] = "Rejected"
  <2>1. ReactionJob("rejected", p, g, created + 1) \in FitJob(K)'
    BY <1>1, <1>4, <1>5, <1>8 DEF ReactionJob, AnyJob, FitJob, Fits
  <2>. QED  BY <1>2, <1>3, <1>8, <2>1, AppendProperties
<1>. QED  BY <1>6, <1>7, <1>8

LEMMA CallThenInv ==
  ASSUME NEW K, IsMore(K), IInv(K), NextIsFree(K), NEW t \in Threads, NEW p \in Promises, NEW pair \in ScriptHandlers,
         CallThen(t, p, pair)
  PROVE  IInv(K)'
<1>. USE DEF CallThen
<1>1. /\ pair[1] \in AnyHandler(K) /\ pair[2] \in AnyHandler(K)
      /\ pair[1].on = 0 /\ pair[2].on = 0
      /\ pair[1].fn \in {"none", "js", "finally"}
      /\ pair[2].fn \in {"none", "js", "finally"}
  BY PromiseAssumption DEF AnyHandler, Handler, None, Js, Finally, NoPromise
<1>2. created \in Nat /\ 0 \notin K.own
  BY Numbers DEF IInv, IsMore
<1>2a. /\ NativeFits(K, p, "fulfilled", pair[1], created + 1)
       /\ NativeFits(K, p, "rejected", pair[2], created + 1)
  BY <1>1 DEF NativeFits, NextIsFree, IsMore, Natives
<1>3. /\ FitFrame(K) \subseteq FitFrame(K)'
      /\ queue' \in Seq(FitJob(K)')
      /\ UNCHANGED reactions \/ KeepsPair(K, p)
  BY <1>1, <1>2, <1>2a, RegisterFacts DEF NextIsFree
<1>4. stack' \in [Threads -> Seq(FitFrame(K)')]
  BY <1>3, SeqMonotonic DEF IInv
<1>5. budget' \in 0..MaxPromises
  BY PromiseAssumption DEF IInv, ScalarsOK
<1>6. /\ created < MaxPromises /\ created' = created + 1
      /\ state' = [state EXCEPT ![created + 1] = "Pending"]
  BY DEF Register
<1>7. /\ exposed' \subseteq Existing' \ K.own
      /\ awaits' \in [Promises -> Promises \cup {NoPromise}]
  BY <1>2, <1>6 DEF IInv, ScalarsOK, Existing
<1>. QED
  BY <1>3, <1>4, <1>5, <1>6, <1>7, PromiseAssumption, BirthStep DEF Value

---------------------------------------------------------------------------
(* The native actions.                                                     *)

(* The jobs a settling call queues fit the outcome it gives the promise.    *)
LEMMA SettleInv ==
  ASSUME NEW K, IsMore(K), IInv(K), NEW t \in Threads, stack[t] # <<>>,
         NEW p \in Promises, state[p] = "Pending",
         NEW how \in {"Fulfilled", "Rejected"},
         NEW v \in Value, how = "Fulfilled" => v \in Plain,
         Settle(t, p, how, v),
         UNCHANGED <<created, lock, queue, exposed, awaits, budget>>
  PROVE  IInv(K)'
<1>. USE DEF Settle
<1>1. \A q \in Promises :
        IsSettled(q) => q # p /\ state'[q] = state[q] /\ result'[q] = result[q]
  BY DEF IInv, ScalarsOK, IsSettled
<1>2. /\ FitJob(K) \subseteq FitJob(K)' /\ FitFrame(K) \subseteq FitFrame(K)'
      /\ Seq(FitReaction(K)) \subseteq Seq(FitReaction(K)')
      /\ FitReaction(K) \subseteq FitReaction(K)'
  <2>1. created \in Nat /\ created' \in Nat /\ created <= created'
    BY Numbers DEF IInv
  <2>. HIDE DEF Settle
  <2>. QED  BY <1>1, <2>1, FitGrows
<1>3. state'[p] = how
  BY DEF IInv, ScalarsOK
<1>. DEFINE kind == IF how = "Fulfilled" THEN "fulfilled" ELSE "rejected"
            job(r) == IF how = "Fulfilled"
                      THEN ReactionJob("fulfilled", p, r.onFulfilled, r.to)
                      ELSE ReactionJob("rejected", p, r.onRejected, r.to)
            jobs == [i \in 1..Len(reactions[p]) |-> job(reactions[p][i])]
<1>4. \A r \in FitReaction(K)' :
        /\ NativeFits(K, p, "fulfilled", r.onFulfilled, r.to)
        /\ NativeFits(K, p, "rejected", r.onRejected, r.to)
        => job(r) \in FitJob(K)'
  BY <1>2, <1>3
  DEF ReactionJob, AnyJob, FitJob, Fits, FitReaction, AnyReaction, NativeFits
<1>5. jobs \in Seq(FitJob(K)')
  <2>1. /\ reactions[p] \in Seq(FitReaction(K))
        /\ Len(reactions[p]) \in Nat
        /\ \A i \in 1..Len(reactions[p]) :
             /\ reactions[p][i] \in FitReaction(K)'
             /\ NativeFits(K, p, "fulfilled", reactions[p][i].onFulfilled, reactions[p][i].to)
             /\ NativeFits(K, p, "rejected", reactions[p][i].onRejected, reactions[p][i].to)
    BY <1>2, LenProperties, ElementOfSeq DEF IInv, NativeReactions
  <2>2. jobs \in [1..Len(reactions[p]) -> FitJob(K)']
    BY <2>1, <1>4
  <2>. HIDE DEF jobs
  <2>. QED  BY <2>1, <2>2, FunctionIsSeq
<1>6. stack' \in [Threads -> Seq(FitFrame(K)')]
  <2>1. stack' = [stack EXCEPT ![t] = <<Jobs("enqueue", jobs)>> \o Tail(@)]
    BY DEF Replace, ReactionJob
  <2>. HIDE DEF jobs
  <2>2. Jobs("enqueue", jobs) \in FitFrame(K)'
    BY <1>5 DEF Jobs, FitFrame
  <2>. QED  BY <2>1, <2>2, <1>2, ShortSeqs, ReplaceTyped DEF IInv
<1>7. queue' \in Seq(FitJob(K)')
  BY <1>2, SeqMonotonic DEF IInv
<1>8. ScalarsOK' /\ reactions' \in [Promises -> Seq(FitReaction(K)')]
  BY <1>2, EmptySeq DEF IInv, ScalarsOK, Existing
<1>9. BornInOrder'
  BY DEF IInv, ScalarsOK, BornInOrder
<1>10. SettledHasNoReactions'
  BY DEF IInv, ScalarsOK, SettledHasNoReactions
<1>11. FulfilledIsPlain'
  BY DEF IInv, ScalarsOK, FulfilledIsPlain
<1>12. NativeReactions(K)'
  <2>1. \A q \in Promises : reactions'[q] = reactions[q] \/ reactions'[q] = <<>>
    BY DEF IInv
  <2>2. Len(<<>>) = 0
    OBVIOUS
  <2>3. \A q \in Promises : Len(reactions'[q]) # 0 => reactions'[q] = reactions[q]
    BY <2>1, <2>2
  <2>. HIDE DEF Settle
  <2>. QED
    <3>. SUFFICES ASSUME NEW q \in Promises, NEW i \in 1..Len(reactions'[q])
                  PROVE  LET r == reactions'[q][i]
                         IN  /\ NativeFits(K, q, "fulfilled", r.onFulfilled, r.to)
                             /\ NativeFits(K, q, "rejected", r.onRejected, r.to)
      BY DEF NativeReactions, NativeFits
    <3>1. reactions'[q] = reactions[q]
      BY <2>3
    <3>. QED  BY <3>1 DEF IInv, NativeReactions
<1>13. exposed' \cap K.own = {}
  BY DEF IInv
<1>. QED  BY <1>6, <1>7, <1>8, <1>9, <1>10, <1>11, <1>12, <1>13 DEF IInv

LEMMA ResolveInv ==
  ASSUME NEW K, IsMore(K), IInv(K), NEW t \in Threads, Resolve(t)  PROVE IInv(K)'
<1>. DEFINE p == Head(stack[t]).on
            v == Head(stack[t]).value
<1>. USE DEF Resolve
<1>1. p \in Promises /\ v \in Value /\ stack[t] # <<>> /\ p <= created
  BY HeadFrame DEF Running
<1>2. CASE state[p] # "Pending" /\ Replace(t, <<>>)
           /\ UNCHANGED <<state, result, reactions, lock, queue>>
  <2>1. stack' \in [Threads -> Seq(FitFrame(K))]
    BY <1>1, <1>2, EmptySeq, ReplaceTyped DEF IInv, Replace
  <2>. QED  BY <1>2, <2>1, StackStep DEF IInv, ScalarsOK
<1>3. CASE /\ lock' = [lock EXCEPT ![p] = t]
           /\ Replace(t, <<Call("reject", p, TypeErr)>>)
           /\ UNCHANGED <<state, result, reactions, queue>>
  <2>1. /\ FitJob(K) \subseteq FitJob(K)' /\ FitFrame(K) \subseteq FitFrame(K)'
        /\ Seq(FitReaction(K)) \subseteq Seq(FitReaction(K)')
    BY <1>3, Numbers, FitGrows DEF IInv
  <2>2. Call("reject", p, TypeErr) \in FitFrame(K)'
    BY <1>1, <2>1, CallTyped, PromiseAssumption DEF Value
  <2>3. stack' \in [Threads -> Seq(FitFrame(K)')]
    BY <1>1, <1>3, <2>1, <2>2, ShortSeqs, ReplaceTyped DEF IInv, Replace
  <2>4. queue' \in Seq(FitJob(K)')
    BY <1>3, <2>1, SeqMonotonic DEF IInv
  <2>5. ScalarsOK'
    BY <1>1, <1>3 DEF IInv, ScalarsOK, Existing
  <2>6. BornInOrder' /\ SettledHasNoReactions' /\ FulfilledIsPlain'
    BY <1>3 DEF IInv, BornInOrder, SettledHasNoReactions, FulfilledIsPlain
  <2>7. reactions' \in [Promises -> Seq(FitReaction(K)')]
    BY <1>3, <2>1 DEF IInv
  <2>8. NativeReactions(K)' /\ exposed' \cap K.own = {}
    BY <1>3 DEF IInv, NativeReactions
  <2>. QED  BY <2>3, <2>4, <2>5, <2>6, <2>7, <2>8 DEF IInv
<1>4. CASE /\ v \in Thenable
           /\ queue' = Append(queue, ThenJob(v, p))
           /\ Replace(t, <<>>)
           /\ UNCHANGED <<state, result, reactions, lock>>
  <2>1. ThenJob(v, p) \in FitJob(K)
    <3>1. 0 \notin K.own /\ p \notin K.own
      BY <1>1, <1>4, HeadFrame, Numbers, PromiseAssumption
      DEF IInv, IsMore, Thenable
    <3>. QED  BY <1>1, <1>4, <3>1, Numbers
    DEF ThenJob, AnyJob, FitJob, Fits, HandlerFits, None, NoPromise,
                        IInv, IsMore, Natives
  <2>2. queue' \in Seq(FitJob(K))
    BY <1>4, <2>1, AppendProperties DEF IInv
  <2>3. stack' \in [Threads -> Seq(FitFrame(K))]
    BY <1>1, <1>4, EmptySeq, ReplaceTyped DEF IInv, Replace
  <2>. QED  BY <1>4, <2>2, <2>3, StackStep DEF IInv, ScalarsOK
<1>5. CASE /\ state[p] = "Pending"
           /\ v \in Plain
           /\ Settle(t, p, "Fulfilled", v)
           /\ UNCHANGED <<lock, queue>>
  BY <1>1, <1>5, SettleInv
<1>. QED  BY <1>2, <1>3, <1>4, <1>5

LEMMA RejectInv ==
  ASSUME NEW K, IsMore(K), IInv(K), NEW t \in Threads, Reject(t)  PROVE IInv(K)'
<1>. DEFINE p == Head(stack[t]).on
            e == Head(stack[t]).value
<1>. USE DEF Reject
<1>1. p \in Promises /\ e \in Value /\ stack[t] # <<>> /\ p <= created
  BY HeadFrame DEF Running
<1>2. CASE Replace(t, <<>>) /\ UNCHANGED <<state, result, reactions>>
  <2>1. stack' \in [Threads -> Seq(FitFrame(K))]
    BY <1>1, <1>2, EmptySeq, ReplaceTyped DEF IInv, Replace
  <2>. QED  BY <1>2, <2>1, StackStep DEF IInv, ScalarsOK
<1>3. CASE state[p] = "Pending" /\ Settle(t, p, "Rejected", e)
  BY <1>1, <1>3, SettleInv
<1>. QED  BY <1>2, <1>3

LEMMA EnqueueInv ==
  ASSUME NEW K, IsMore(K), IInv(K), NEW t \in Threads, Enqueue(t)  PROVE IInv(K)'
<1>. DEFINE jobs == Head(stack[t]).jobs
<1>. USE DEF Enqueue
<1>1. jobs \in Seq(FitJob(K)) /\ stack[t] # <<>>
  BY HeadFrame DEF Running
<1>2. CASE Replace(t, <<>>) /\ UNCHANGED queue
  <2>1. stack' \in [Threads -> Seq(FitFrame(K))]
    BY <1>1, <1>2, EmptySeq, ReplaceTyped DEF IInv, Replace
  <2>. QED  BY <1>2, <2>1, StackStep DEF IInv, ScalarsOK
<1>3. CASE /\ jobs # <<>>
           /\ queue' = Append(queue, Head(jobs))
           /\ Replace(t, <<Jobs("enqueue", Tail(jobs))>>)
  <2>1. Head(jobs) \in FitJob(K) /\ Tail(jobs) \in Seq(FitJob(K))
    BY <1>1, <1>3, HeadTailProperties
  <2>2. queue' \in Seq(FitJob(K))
    BY <1>3, <2>1, AppendProperties DEF IInv
  <2>3. stack' \in [Threads -> Seq(FitFrame(K))]
    BY <1>1, <1>3, <2>1, JobsTyped, ShortSeqs, ReplaceTyped DEF IInv, Replace
  <2>. QED  BY <2>2, <2>3, StackStep DEF IInv, ScalarsOK
<1>. QED  BY <1>2, <1>3

LEMMA ProcessMicrotasksInv ==
  ASSUME NEW K, IsMore(K), IInv(K), NEW t \in Threads, ProcessMicrotasks(t)  PROVE IInv(K)'
<1>. USE DEF ProcessMicrotasks
<1>1. Jobs("batch", queue) \in FitFrame(K)
  BY JobsTyped DEF IInv
<1>2. stack' \in [Threads -> Seq(FitFrame(K))]
  BY <1>1, PushTyped DEF IInv, Push
<1>3. queue' \in Seq(FitJob(K))
  BY EmptySeq
<1>. QED  BY <1>2, <1>3, StackStep DEF IInv, ScalarsOK

(* What a reaction job runs is typed; a `finally` wrapper that runs for a   *)
(* fulfilled promise holds its plain result.                                *)
LEMMA HandlerFramesTyped ==
  ASSUME NEW K, IsMore(K), IInv(K), NEW job \in FitJob(K), job.kind # "then"
  PROVE  HandlerFrames(job) \in Seq(FitFrame(K))
<1>1. /\ job.kind \in {"fulfilled", "rejected"}
      /\ job.src \in Promises /\ job.to \in Promises /\ job.to <= created
      /\ job.handler \in AnyHandler(K) /\ job.handler.on <= created
      /\ job.to \notin K.own /\ job.handler.on \notin K.own
      /\ job.kind = "fulfilled" => state[job.src] = "Fulfilled"
      /\ job.kind = "rejected" => state[job.src] = "Rejected"
  BY DEF FitJob, AnyJob, Fits, HandlerFits
<1>2. /\ result[job.src] \in Value
      /\ job.kind = "fulfilled" => result[job.src] \in Plain
  BY <1>1 DEF IInv, ScalarsOK, FulfilledIsPlain
<1>3. CASE job.handler.fn = "none"
  <2>1. Call(IF job.kind = "fulfilled" THEN "resolve" ELSE "reject", job.to,
             result[job.src]) \in FitFrame(K)
    BY <1>1, <1>2, CallTyped
  <2>. QED  BY <1>3, <2>1, ShortSeqs DEF HandlerFrames
<1>4. CASE job.handler.fn = "js"
  <2>1. Script(job.to, job.to, "no", result[job.src]) \in FitFrame(K)
    BY <1>1, <1>2, ScriptTyped
  <2>. QED  BY <1>4, <2>1, ShortSeqs DEF HandlerFrames
<1>5. CASE job.handler.fn = "finally"
  <2>1. Script(job.to, job.to, job.kind, result[job.src]) \in FitFrame(K)
    <3>1. job.to # NoPromise
      BY <1>1, PromiseAssumption DEF Promises, NoPromise
    <3>. QED  BY <1>1, <1>2, <3>1, ScriptTyped
  <2>. QED  BY <1>5, <2>1, ShortSeqs DEF HandlerFrames
<1>6. CASE job.handler.fn \in {"resolve", "reject"} \cup Natives(K)
  <2>1. job.handler.on \in Promises /\ job.handler.fn \notin {"none", "js", "finally"}
    BY <1>1, <1>6 DEF AnyHandler, Handler, IsMore, Natives
  <2>2. /\ Call(job.handler.fn, job.handler.on, result[job.src]) \in FitFrame(K)
        /\ Call("resolve", job.to, Undefined) \in FitFrame(K)
    <3>1. CASE job.handler.fn \in {"resolve", "reject"}
      BY <1>1, <1>2, <2>1, <3>1, CallTyped, PromiseAssumption DEF Value
    <3>2. CASE job.handler.fn \in Natives(K)
      <4>1. \E n \in K.native : /\ n.fn = job.handler.fn /\ n.on = job.handler.on
                                /\ n.src = job.src /\ n.how = job.kind
        BY <3>2 DEF FitJob, NativeFits
      <4>2. Call(job.handler.fn, job.handler.on, result[job.src]) \in FitNative(K)
        BY <1>1, <1>2, <2>1, <3>2, <4>1 DEF FitNative, Call
      <4>3. Call("resolve", job.to, Undefined) \in FitFrame(K)
        BY <1>1, CallTyped, PromiseAssumption DEF Value
      <4>. QED  BY <4>2, <4>3 DEF FitFrame
    <3>. QED  BY <1>6, <3>1, <3>2
  <2>. QED  BY <2>1, <2>2, ShortSeqs DEF HandlerFrames
<1>. QED  BY <1>1, <1>3, <1>4, <1>5, <1>6 DEF AnyHandler, Handler

LEMMA RunReactionInv ==
  ASSUME NEW K, IsMore(K), IInv(K), NEW t \in Threads, RunReaction(t)  PROVE IInv(K)'
<1>. DEFINE jobs == Head(stack[t]).jobs
<1>. USE DEF RunReaction
<1>1. jobs \in Seq(FitJob(K)) /\ jobs # <<>> /\ stack[t] # <<>>
  BY HeadFrame DEF Running
<1>2. Head(jobs) \in FitJob(K) /\ Tail(jobs) \in Seq(FitJob(K))
  BY <1>1, HeadTailProperties
<1>3. HandlerFrames(Head(jobs)) \in Seq(FitFrame(K))
  BY <1>2, HandlerFramesTyped
<1>4. <<Jobs("batch", Tail(jobs))>> \in Seq(FitFrame(K))
  BY <1>2, JobsTyped, ShortSeqs
<1>5. HandlerFrames(Head(jobs)) \o <<Jobs("batch", Tail(jobs))>> \in Seq(FitFrame(K))
  BY <1>3, <1>4, ConcatProperties
<1>6. stack' \in [Threads -> Seq(FitFrame(K))]
  BY <1>1, <1>5, ReplaceTyped DEF IInv, Replace
<1>. QED  BY <1>6, StackStep DEF IInv, ScalarsOK

LEMMA RunThenInv ==
  ASSUME NEW K, IsMore(K), IInv(K), NextIsFree(K), NEW t \in Threads, RunThen(t)  PROVE IInv(K)'
<1>. DEFINE jobs == Head(stack[t]).jobs
            job  == Head(jobs)
            rest == Jobs("batch", Tail(jobs))
<1>. USE DEF RunThen
<1>1. jobs \in Seq(FitJob(K)) /\ jobs # <<>> /\ stack[t] # <<>>
  BY HeadFrame DEF Running
<1>2. job \in FitJob(K) /\ Tail(jobs) \in Seq(FitJob(K))
  BY <1>1, HeadTailProperties
<1>3. /\ job.to \in Promises /\ job.to <= created /\ job.to \notin K.own
      /\ created \in Nat
  BY <1>2, Numbers DEF FitJob, AnyJob, HandlerFits, IInv
<1>4. CASE /\ job.src \in Promises
           /\ Register(job.src, ResolveFn(job.to), RejectFn(job.to))
           /\ Replace(t, <<rest>>)
           /\ UNCHANGED exposed
  <2>1. /\ ResolveFn(job.to) \in AnyHandler(K) /\ RejectFn(job.to) \in AnyHandler(K)
        /\ ResolveFn(job.to).on = job.to /\ RejectFn(job.to).on = job.to
        /\ ResolveFn(job.to).fn = "resolve" /\ RejectFn(job.to).fn = "reject"
        /\ job.to <= created + 1
    BY <1>3 DEF ResolveFn, RejectFn, AnyHandler, Handler, Promises
  <2>1a. /\ NativeFits(K, job.src, "fulfilled", ResolveFn(job.to), created + 1)
         /\ NativeFits(K, job.src, "rejected", RejectFn(job.to), created + 1)
    <3>1. "resolve" \notin Natives(K) /\ "reject" \notin Natives(K)
      BY DEF IsMore, Natives
    <3>. HIDE DEF job, jobs, rest
    <3>. QED  BY <2>1, <3>1 DEF NativeFits, NextIsFree
  <2>2. /\ FitJob(K) \subseteq FitJob(K)' /\ FitFrame(K) \subseteq FitFrame(K)'
        /\ queue' \in Seq(FitJob(K)')
        /\ UNCHANGED reactions \/ KeepsPair(K, job.src)
    <3>. HIDE DEF rest, job, jobs
    <3>. QED  BY <1>3, <1>4, <2>1, <2>1a, RegisterFacts DEF NextIsFree
  <2>3. rest \in FitFrame(K)'
    BY <1>2, <2>2, JobsTyped
  <2>4. stack' \in [Threads -> Seq(FitFrame(K)')]
    BY <1>1, <1>4, <2>2, <2>3, ShortSeqs, ReplaceTyped DEF IInv, Replace
  <2>5. /\ created < MaxPromises /\ created' = created + 1
        /\ state' = [state EXCEPT ![created + 1] = "Pending"]
    BY <1>4 DEF Register
  <2>6. /\ exposed' \subseteq Existing' \ K.own /\ budget' \in 0..MaxPromises
        /\ awaits' \in [Promises -> Promises \cup {NoPromise}]
        /\ UNCHANGED <<result, lock>>
    BY <1>3, <1>4, <2>5 DEF IInv, ScalarsOK, Existing
  <2>. HIDE DEF rest, job, jobs
  <2>. QED
    BY <1>4, <2>2, <2>4, <2>5, <2>6, PromiseAssumption, BirthStep DEF Value
<1>5. CASE /\ exposed' = exposed \cup {job.to}
           /\ Replace(t, <<Script(NoPromise, job.to, "no", Undefined), rest>>)
           /\ UNCHANGED <<created, state, reactions, queue>>
  <2>1. Script(NoPromise, job.to, "no", Undefined) \in FitFrame(K)
    BY <1>3, ScriptTyped, PromiseAssumption DEF Value
  <2>2. rest \in FitFrame(K)
    BY <1>2, JobsTyped
  <2>3. stack' \in [Threads -> Seq(FitFrame(K))]
    BY <1>1, <1>5, <2>1, <2>2, ShortSeqs, ReplaceTyped DEF IInv, Replace
  <2>4. exposed' \subseteq Existing \ K.own
    <3>1. job.to \in Existing
      BY <1>3 DEF Existing, Promises
    <3>2. job.to \notin K.own
      BY <1>3
    <3>. HIDE DEF job
    <3>. QED  BY <1>5, <3>1, <3>2 DEF IInv, ScalarsOK
  <2>. QED  BY <1>5, <2>3, <2>4, StackStep DEF IInv, ScalarsOK
<1>. QED  BY <1>4, <1>5

LEMMA EndBatchInv ==
  ASSUME NEW K, IsMore(K), IInv(K), NEW t \in Threads, EndBatch(t)  PROVE IInv(K)'
<1>. USE DEF EndBatch
<1>1. stack' \in [Threads -> Seq(FitFrame(K))]
  BY EmptySeq, ReplaceTyped DEF IInv, Replace, Running
<1>. QED  BY <1>1, StackStep DEF IInv, ScalarsOK

---------------------------------------------------------------------------
(* The ends of a script frame.                                             *)

LEMMA ReturnIgnoredInv ==
  ASSUME NEW K, IsMore(K), IInv(K), NEW t \in Threads, ReturnIgnored(t)  PROVE IInv(K)'
<1>. USE DEF ReturnIgnored
<1>1. stack' \in [Threads -> Seq(FitFrame(K))]
  BY EmptySeq, ReplaceTyped DEF IInv, Replace, Running
<1>. QED  BY <1>1, StackStep DEF IInv, ScalarsOK

(* Each other end replaces the frame by one call.                           *)
LEMMA ReplaceByCall ==
  ASSUME NEW K, IsMore(K), IInv(K), NEW t \in Threads, stack[t] # <<>>,
         FitFrame(K) \subseteq FitFrame(K)',
         NEW fn \in {"resolve", "reject"}, NEW p \in Promises, NEW v \in Value,
         p <= created', p \notin K.own,
         Replace(t, <<Call(fn, p, v)>>)
  PROVE  stack' \in [Threads -> Seq(FitFrame(K)')]
<1>1. Call(fn, p, v) \in FitFrame(K)'
  BY DEF Call, FitCall, FitFrame
<1>. QED  BY <1>1, ShortSeqs, ReplaceTyped DEF IInv, Replace

LEMMA ReturnValueInv ==
  ASSUME NEW K, IsMore(K), IInv(K), NEW t \in Threads, NEW v \in ScriptValues, ReturnValue(t, v)
  PROVE  IInv(K)'
<1>. USE DEF ReturnValue
<1>1. /\ v \in Value /\ stack[t] # <<>>
      /\ Head(stack[t]).ret \in Promises /\ Head(stack[t]).ret <= created
      /\ Head(stack[t]).ret \notin K.own
  BY HeadFrame, PromiseAssumption, Numbers DEF Running, IInv
<1>2. stack' \in [Threads -> Seq(FitFrame(K))]
  BY <1>1, CallTyped, ShortSeqs, ReplaceTyped DEF IInv, Replace
<1>3. budget' \in 0..MaxPromises
  BY <1>1, CostBounds
<1>. QED  BY <1>2, <1>3, StackStep DEF IInv, ScalarsOK

LEMMA ReturnFinallyInv ==
  ASSUME NEW K, IsMore(K), IInv(K), NEW t \in Threads, NEW v \in ScriptValues, ReturnFinally(t, v)
  PROVE  IInv(K)'
<1>. USE DEF ReturnFinally
<1>1. /\ Head(stack[t]).arg \in Value
      /\ Head(stack[t]).ret \in Promises /\ stack[t] # <<>>
      /\ Head(stack[t]).ret <= created
      /\ Head(stack[t]).ret \notin K.own
  BY HeadFrame, Numbers DEF Running, IInv
<1>2. stack' \in [Threads -> Seq(FitFrame(K))]
  BY <1>1, CallTyped, ShortSeqs, ReplaceTyped DEF IInv, Replace
<1>. QED  BY <1>2, StackStep DEF IInv, ScalarsOK

LEMMA ReturnFinallyPromiseInv ==
  ASSUME NEW K, IsMore(K), IInv(K), NextIsFree(K), NEW t \in Threads, NEW v \in ScriptValues,
         ReturnFinallyPromise(t, v)
  PROVE  IInv(K)'
<1>. DEFINE f    == Head(stack[t])
            born == IF f.wrapper = "fulfilled" THEN "Fulfilled" ELSE "Rejected"
<1>. USE DEF ReturnFinallyPromise
<1>1. /\ f.arg \in Value /\ f.ret \in Promises /\ stack[t] # <<>>
      /\ f.ret <= created /\ f.ret \notin K.own
      /\ born = "Fulfilled" => f.arg \in Plain
  BY HeadFrame DEF Running, NoPromise, Promises
<1>2. created + 1 \in Promises /\ v \in Promises /\ created \in Nat
  BY Numbers DEF IInv
<1>3. FitJob(K) \subseteq FitJob(K)' /\ FitFrame(K) \subseteq FitFrame(K)'
  BY <1>2, BirthGrows
<1>4. stack' \in [Threads -> Seq(FitFrame(K)')]
  <2>1. f.ret <= created' /\ created + 1 \in Value
    BY <1>1, <1>2 DEF Promises, Value
  <2>. QED  BY <1>1, <1>3, <2>1, ReplaceByCall
<1>5. queue' \in Seq(FitJob(K)')
  BY <1>3, SeqMonotonic DEF IInv
<1>6. budget' \in 0..MaxPromises
  BY PromiseAssumption DEF IInv, ScalarsOK
<1>7. awaits' \in [Promises -> Promises \cup {NoPromise}] /\ exposed' \subseteq Existing' \ K.own
  BY <1>1, <1>2 DEF IInv, ScalarsOK, Existing, NextIsFree
<1>8. /\ born \in {"Pending", "Fulfilled", "Rejected"}
      /\ created < MaxPromises /\ created' = created + 1
      /\ state' = [state EXCEPT ![created + 1] = born]
      /\ result' = [result EXCEPT ![created + 1] = f.arg]
      /\ UNCHANGED <<reactions, lock>>
  OBVIOUS
<1>. HIDE DEF f, born, ReturnFinallyPromise
<1>. QED  BY <1>1, <1>2, <1>4, <1>5, <1>6, <1>7, <1>8, BirthStep

LEMMA ThrowInv ==
  ASSUME NEW K, IsMore(K), IInv(K), NEW t \in Threads, NEW e \in Reasons, Throw(t, e)
  PROVE  IInv(K)'
<1>. USE DEF Throw
<1>1. /\ e \in Value /\ stack[t] # <<>>
      /\ Head(stack[t]).thr \in Promises /\ Head(stack[t]).thr <= created
  BY HeadFrame, PromiseAssumption DEF Running
<1>2. stack' \in [Threads -> Seq(FitFrame(K))]
  BY <1>1, CallTyped, ShortSeqs, ReplaceTyped DEF IInv, Replace
<1>. QED  BY <1>2, StackStep DEF IInv, ScalarsOK

---------------------------------------------------------------------------
(* The specification.                                                      *)

LEMMA NextInv ==
  ASSUME NEW K, IsMore(K), IInv(K), NextIsFree(K), [Next]_vars  PROVE IInv(K)'
<1>1. CASE UNCHANGED vars
  <2>1. /\ queue' \in Seq(FitJob(K))
        /\ stack' \in [Threads -> Seq(FitFrame(K))]
        /\ exposed' \subseteq Existing \ K.own /\ budget' \in 0..MaxPromises
    BY <1>1 DEF IInv, ScalarsOK, vars
  <2>. QED  BY <1>1, <2>1, StackStep DEF vars
<1>2. ASSUME NEW t \in Threads, Api(t)  PROVE IInv(K)'
  BY <1>2, NewPromiseInv, CallResolveInv, CallRejectInv, CallThenInv DEF Api
<1>3. ASSUME NEW t \in Threads, Native(t)  PROVE IInv(K)'
  BY <1>3, ResolveInv, RejectInv, EnqueueInv, RunReactionInv, RunThenInv,
     EndBatchInv DEF Native
<1>4. ASSUME NEW t \in Threads, EndScript(t)  PROVE IInv(K)'
  BY <1>4, ReturnIgnoredInv, ReturnValueInv, ReturnFinallyInv,
     ReturnFinallyPromiseInv, ThrowInv DEF EndScript
<1>. QED
  BY <1>1, <1>2, <1>3, <1>4, ProcessMicrotasksInv DEF Next

(* Promise on its own: nothing is added.                                    *)
Alone == [native |-> {}, own |-> {}]

LEMMA NoMore ==
  /\ IsMore(Alone) /\ NextIsFree(Alone)
  /\ AnyHandler(Alone) = Handler /\ AnyReaction(Alone) = Reaction /\ AnyJob(Alone) = Job
  BY DEF Alone, IsMore, NextIsFree, Reserved, Natives, AnyHandler, AnyReaction, AnyJob,
         Reaction, Job

THEOREM Invariance == Spec => []IInv(Alone)
<1>1. Init => IInv(Alone)
  BY InitInv
<1>2. IInv(Alone) /\ [Next]_vars => IInv(Alone)'
  BY NextInv, NoMore
<1>. QED  BY <1>1, <1>2, PTL DEF Spec

(* Every variable keeps its type: no job or frame is malformed, no promise  *)
(* is settled with something that is not a value.                          *)
THEOREM TypeCorrect == Spec => []TypeOK
<1>1. FitJob(Alone) \subseteq Job /\ FitReaction(Alone) \subseteq Reaction
  BY NoMore DEF FitJob, FitReaction
<1>2. Seq(FitJob(Alone)) \subseteq Seq(Job) /\ Seq(FitReaction(Alone)) \subseteq Seq(Reaction)
  BY <1>1, SeqMonotonic
<1>3. FitFrame(Alone) \subseteq Frame
  BY <1>2 DEF FitFrame, FitCall, FitNative, FitScript, Frame, CallFrame, JobsFrame,
              Alone, Natives
<1>4. IInv(Alone) => TypeOK
  <2>. SUFFICES ASSUME IInv(Alone)  PROVE TypeOK
    OBVIOUS
  <2>1. queue \in Seq(Job) /\ reactions \in [Promises -> Seq(Reaction)]
    BY <1>2 DEF IInv
  <2>2. stack \in [Threads -> Seq(Frame)]
    BY <1>3, SeqMonotonic DEF IInv
  <2>3. exposed \subseteq Promises
    BY Numbers DEF IInv, ScalarsOK
  <2>. QED  BY <2>1, <2>2, <2>3 DEF IInv, ScalarsOK, TypeOK
<1>. QED  BY Invariance, <1>4, PTL

(* No reaction is left on a promise that is settled: then(), resolve() and  *)
(* reject() agree, whatever the interleaving, on who delivers it.           *)
THEOREM NoReactionStranded == Spec => []SettledHasNoReactions
<1>1. IInv(Alone) => SettledHasNoReactions
  BY DEF IInv
<1>. QED  BY Invariance, <1>1, PTL

(* A fulfilled promise never holds a thenable, not even one that a          *)
(* `finally` wrapper settles directly.                                      *)
THEOREM FulfilledPlain == Spec => []FulfilledIsPlain
<1>1. IInv(Alone) => FulfilledIsPlain
  BY DEF IInv
<1>. QED  BY Invariance, <1>1, PTL

(* The jobs of a frame.                                                     *)
LEMMA FrameJobsTyped ==
  ASSUME NEW K, IsMore(K), IInv(K), NEW t \in Threads, NEW k \in 1..Len(stack[t])
  PROVE  /\ stack[t][k] \in FitFrame(K)
         /\ FrameJobs(t, k) \in Seq(FitJob(K))
<1>1. stack[t][k] \in FitFrame(K)
  BY ElementOfSeq DEF IInv
<1>. QED  BY <1>1, EmptySeq DEF FrameJobs, FitFrame, FitCall, FitNative, FitScript, ScriptFrame,
                             IsMore, Natives

(* Wherever a reaction job waits, it fits the outcome of its promise.       *)
THEOREM JobsFit == Spec => []JobsFitOutcome
<1>1. IInv(Alone) => JobsFitOutcome
  <2>. SUFFICES ASSUME IInv(Alone)  PROVE JobsFitOutcome
    OBVIOUS
  <2>1. \A i \in 1..Len(queue) : Fits(queue[i])
    BY ElementOfSeq DEF IInv, FitJob
  <2>2. ASSUME NEW t \in Threads, NEW k \in 1..Len(stack[t]),
               NEW i \in 1..Len(FrameJobs(t, k))
        PROVE  Fits(FrameJobs(t, k)[i])
    <3>1. FrameJobs(t, k) \in Seq(FitJob(Alone))
      BY NoMore, FrameJobsTyped
    <3>. QED  BY <3>1, ElementOfSeq DEF FitJob
  <2>. QED  BY <2>1, <2>2 DEF JobsFitOutcome
<1>. QED  BY Invariance, <1>1, PTL

---------------------------------------------------------------------------
(* A settled promise is never settled again.                               *)

LEMMA SettleStable ==
  ASSUME NEW K, IsMore(K), IInv(K), NEW t, NEW p \in Promises, state[p] = "Pending",
         NEW how, NEW v, Settle(t, p, how, v)
  PROVE  \A q \in Promises :
           IsSettled(q) => state'[q] = state[q] /\ result'[q] = result[q]
  BY DEF Settle, IsSettled, IInv, ScalarsOK

LEMMA StepStable ==
  ASSUME NEW K, IsMore(K), IInv(K), [Next]_vars
  PROVE  \A p \in Promises :
           IsSettled(p) => state'[p] = state[p] /\ result'[p] = result[p]
<1>. DEFINE Stable == \A p \in Promises :
                        IsSettled(p) => state'[p] = state[p] /\ result'[p] = result[p]
<1>1. ASSUME NEW p \in Promises, NEW f, NEW g, Register(p, f, g), UNCHANGED result
      PROVE  Stable
  BY <1>1, BirthStable DEF Register
<1>2. ASSUME NEW t \in Threads, NewPromise(t)  PROVE Stable
  BY <1>2, BirthStable DEF NewPromise
<1>3. ASSUME NEW t \in Threads, Resolve(t)  PROVE Stable
  <2>1. Head(stack[t]).on \in Promises
    BY <1>3, HeadFrame DEF Resolve, Running
  <2>. QED  BY <1>3, <2>1, SettleStable DEF Resolve
<1>4. ASSUME NEW t \in Threads, Reject(t)  PROVE Stable
  <2>1. Head(stack[t]).on \in Promises
    BY <1>4, HeadFrame DEF Reject, Running
  <2>. QED  BY <1>4, <2>1, SettleStable DEF Reject
<1>5. ASSUME NEW t \in Threads, NEW v \in ScriptValues, ReturnFinallyPromise(t, v)
      PROVE  Stable
  <2>1. \A p \in Promises : IsSettled(p) => p # created + 1 /\ state'[p] = state[p]
    BY <1>5, BirthStable DEF ReturnFinallyPromise
  <2>2. \A p \in Promises : p # created + 1 => result'[p] = result[p]
    BY <1>5 DEF ReturnFinallyPromise, IInv, ScalarsOK
  <2>. QED  BY <2>1, <2>2
<1>6. ASSUME NEW t \in Threads, RunThen(t)  PROVE Stable
  <2>. USE DEF RunThen
  <2>1. CASE UNCHANGED state
    BY <1>6, <2>1
  <2>2. CASE ~ UNCHANGED state
    BY <1>6, <2>2, <1>1
  <2>. QED  BY <2>1, <2>2
<1>7. ASSUME NEW t \in Threads, Api(t)  PROVE Stable
  BY <1>7, <1>1, <1>2 DEF Api, CallThen, CallResolve, CallReject
<1>8. ASSUME NEW t \in Threads, Native(t)  PROVE Stable
  BY <1>8, <1>3, <1>4, <1>6 DEF Native, Enqueue, RunReaction, EndBatch
<1>9. ASSUME NEW t \in Threads, EndScript(t)  PROVE Stable
  BY <1>9, <1>5 DEF EndScript, ReturnIgnored, ReturnValue, ReturnFinally, Throw
<1>10. CASE UNCHANGED vars
  BY <1>10 DEF vars
<1>. QED
  BY <1>7, <1>8, <1>9, <1>10 DEF Next, ProcessMicrotasks

(* Whatever scripts, handlers and threads race to settle a promise, the     *)
(* first outcome stands.                                                   *)
THEOREM SettledOnce == Spec => SettleOnce
<1>1. IInv(Alone) /\ [Next]_vars
        => [\A p \in Promises : state[p] \in {"Fulfilled", "Rejected"}
              => state'[p] = state[p] /\ result'[p] = result[p]]_vars
  BY StepStable, NoMore DEF IsSettled
<1>. QED  BY Invariance, <1>1, PTL DEF Spec, SettleOnce
=============================================================================
