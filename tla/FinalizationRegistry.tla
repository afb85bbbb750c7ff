----------------------- MODULE FinalizationRegistry -----------------------
(***************************************************************************)
(* One FinalizationRegistryObject of                                       *)
(* runtime/builtins/finalization/finalization_registry.cpp: the vector of  *)
(* entries, the map from unregister tokens to indices, the queue of        *)
(* indices to clean up, and the threads that call register, unregister and *)
(* cleanupSome while the collector reports dead targets.                   *)
(*                                                                         *)
(* A registration is a number, in the order they are made: it stands for   *)
(* its target and its held value.  Indices start at 1 here, at 0 in the    *)
(* code.  One step is one critical section of m_mutex or one access to     *)
(* shared state outside it.                                                *)
(***************************************************************************)
EXTENDS Integers, Sequences, FiniteSets

CONSTANTS
  Threads,
  Tokens,           (* unregister tokens                                    *)
  NoToken,          (* the token undefined                                  *)
  MaxRegistrations  (* bounds the model: calls of register_ that succeed    *)

ASSUME RegistryAssumption ==
  /\ MaxRegistrations \in Nat
  /\ NoToken \notin Tokens

VARIABLES
  entries,      (* m_entries: id, token and isTargetAlive of each           *)
  tokenMap,     (* m_tokenMap, 0 where the token is absent                  *)
  cleanupQueue, (* m_cleanupQueue                                           *)
  inProgress,   (* m_isCleanupInProgress                                    *)
  phase,        (* where each thread is in cleanupSome, "idle" outside      *)
  index,        (* the local `index` of cleanupSome                         *)
  held,         (* the local heldValue, 0 for undefined                     *)
  leaving,      (* the token whose unregister is between its two locks      *)
  registered,   (* history: registrations made so far                       *)
  collected,    (* targets the collector has collected: their WeakHandle is *)
                (* null                                                     *)
  called,       (* history: registrations the callback was called for       *)
  released      (* history: registrations unregistered by their own token   *)

vars == <<entries, tokenMap, cleanupQueue, inProgress, phase, index, held,
          leaving, registered, collected, called, released>>

Ids      == 1..MaxRegistrations
Indices  == 1..Len(entries)
Entry    == [id : Ids, token : Tokens \cup {NoToken}, alive : BOOLEAN]
Phases   == {"idle", "look", "scan", "check", "take", "read", "callback", "remove"}
Cleaning(t) == phase[t] # "idle"

(* A thread runs JavaScript outside cleanupSome and in its callback.       *)
InScript(t) == phase[t] \in {"idle", "callback"} /\ leaving[t] = NoToken

(* The indices in S, in the order a loop over m_entries meets them.         *)
InOrder(S) ==
  LET upTo[n \in 0..Len(entries)] ==
        IF n = 0 THEN <<>>
        ELSE upTo[n - 1] \o (IF n \in S THEN <<n>> ELSE <<>>)
  IN  upTo[Len(entries)]

(* Indices of the entries whose target is flagged dead, and of those that   *)
(* died since postGCCallback last looked.                                   *)
DeadIndices  == InOrder({i \in Indices : ~ entries[i].alive})
NewlyDead    == {i \in Indices : entries[i].alive /\ entries[i].id \in collected}

Init ==
  /\ entries = <<>>
  /\ tokenMap = [token \in Tokens |-> 0]
  /\ cleanupQueue = <<>>
  /\ inProgress = FALSE
  /\ phase = [t \in Threads |-> "idle"]
  /\ index = [t \in Threads |-> 0]
  /\ held = [t \in Threads |-> 0]
  /\ leaving = [t \in Threads |-> NoToken]
  /\ registered = 0
  /\ collected = {} /\ called = {} /\ released = {}

---------------------------------------------------------------------------
(* register_ and unregister.                                               *)

(* Mutation: the flag keeps the false its constructor gives it.            *)
RegisterUnflagged(t, token) ==
  /\ InScript(t)
  /\ registered < MaxRegistrations
  /\ registered' = registered + 1
  /\ entries' = Append(entries, [id |-> registered + 1, token |-> token, alive |-> FALSE])
  /\ UNCHANGED <<tokenMap, cleanupQueue, inProgress, phase, index, held, leaving,
                 collected, called, released>>

Register(t, token) ==
  /\ InScript(t)
  /\ registered < MaxRegistrations
  /\ registered' = registered + 1
  /\ entries' = Append(entries, [id |-> registered + 1, token |-> token, alive |-> TRUE])
  /\ tokenMap' = IF token = NoToken THEN tokenMap
                 ELSE [tokenMap EXCEPT ![token] = Len(entries) + 1]
  /\ UNCHANGED <<cleanupQueue, inProgress, phase, index, held, leaving,
                 collected, called, released>>

(* unregister looks the token up under the shared lock and goes on only if *)
(* it is there.                                                            *)
BeginUnregister(t, token) ==
  /\ InScript(t)
  /\ tokenMap[token] # 0
  /\ leaving' = [leaving EXCEPT ![t] = token]
  /\ UNCHANGED <<entries, tokenMap, cleanupQueue, inProgress, phase, index, held,
                 registered, collected, called, released>>

(* Mutation: the last entry is popped but not moved.                       *)
PopUnmoved(i) ==
  /\ entries' = SubSeq(entries, 1, Len(entries) - 1)
  /\ UNCHANGED tokenMap

(* safeRemoveEntry: the last entry takes the place of entry i.  The token   *)
(* erased from the map is read after the move: it is the moved entry's.    *)
SafeRemoveEntry(i) ==
  LET last == entries[Len(entries)]
  IN  /\ entries' = SubSeq([entries EXCEPT ![i] = last], 1, Len(entries) - 1)
      /\ tokenMap' = IF last.token = NoToken THEN tokenMap
                     ELSE [tokenMap EXCEPT ![last.token] = 0]

(* Under the exclusive lock the token is looked up again.                  *)
FinishUnregister(t) ==
  /\ leaving[t] # NoToken
  /\ leaving' = [leaving EXCEPT ![t] = NoToken]
  /\ LET token == leaving[t]
         i     == tokenMap[token]
     IN  \/ /\ i = 0
            /\ UNCHANGED <<entries, tokenMap, released>>
         \/ /\ i > Len(entries)
            /\ tokenMap' = [tokenMap EXCEPT ![token] = 0]
            /\ UNCHANGED <<entries, released>>
         \/ /\ i \in Indices
            /\ SafeRemoveEntry(i)
            /\ released' = IF entries[i].token = token
                           THEN released \cup {entries[i].id} ELSE released
  /\ UNCHANGED <<cleanupQueue, inProgress, phase, index, held, registered,
                 collected, called>>

---------------------------------------------------------------------------
(* The collector.                                                          *)

(* A target nobody refers to is collected and its WeakHandle cleared.       *)
Collect(id) ==
  /\ id \in 1..registered /\ id \notin collected
  /\ collected' = collected \cup {id}
  /\ UNCHANGED <<entries, tokenMap, cleanupQueue, inProgress, phase, index, held,
                 leaving, registered, called, released>>

(* Mutation: indices are queued one too low.                               *)
PostGCOffByOne ==
  /\ \E i \in Indices : entries[i].alive /\ entries[i].id \in collected
  /\ entries' = [i \in Indices |->
                   [entries[i] EXCEPT !.alive = entries[i].id \notin collected]]
  /\ cleanupQueue' = cleanupQueue \o
       SelectSeq([i \in Indices |-> i - 1],
                 LAMBDA i : entries[i + 1].alive /\ entries[i + 1].id \in collected)
  /\ UNCHANGED <<tokenMap, inProgress, phase, index, held, leaving, registered,
                 collected, called, released>>

(* postGCCallback: every entry's flag follows its WeakHandle; the indices  *)
(* of those that died since the last time are queued.                      *)
PostGC ==
  /\ NewlyDead # {}
  /\ entries' = [i \in Indices |->
                   [entries[i] EXCEPT !.alive = entries[i].id \notin collected]]
  /\ cleanupQueue' = cleanupQueue \o InOrder(NewlyDead)
  /\ UNCHANGED <<tokenMap, inProgress, phase, index, held, leaving, registered,
                 collected, called, released>>

---------------------------------------------------------------------------
(* cleanupSome.                                                            *)

Goto(t, p) == phase' = [phase EXCEPT ![t] = p]

(* The flag keeps other threads, and the callback's own calls, out.        *)
Begin(t) ==
  /\ InScript(t) /\ ~ Cleaning(t)
  /\ ~ inProgress
  /\ inProgress' = TRUE
  /\ Goto(t, "look")
  /\ UNCHANGED <<entries, tokenMap, cleanupQueue, index, held, leaving,
                 registered, collected, called, released>>

(* The queue is first looked at without the lock.                          *)
Look(t) ==
  /\ phase[t] = "look"
  /\ Goto(t, IF cleanupQueue = <<>> THEN "scan" ELSE "check")
  /\ UNCHANGED <<entries, tokenMap, cleanupQueue, inProgress, index, held,
                 leaving, registered, collected, called, released>>

(* Mutation: only what postGCCallback queued is cleaned up.                *)
ScanNothing(t) ==
  /\ phase[t] = "scan"
  /\ Goto(t, "check")
  /\ UNCHANGED <<entries, tokenMap, cleanupQueue, inProgress, index, held, leaving,
                 registered, collected, called, released>>

Scan(t) ==
  /\ phase[t] = "scan"
  /\ cleanupQueue' = cleanupQueue \o DeadIndices
  /\ Goto(t, "check")
  /\ UNCHANGED <<entries, tokenMap, inProgress, index, held, leaving,
                 registered, collected, called, released>>

Check(t) ==
  /\ phase[t] = "check"
  /\ Goto(t, IF cleanupQueue = <<>> THEN "idle" ELSE "take")
  /\ inProgress' = (cleanupQueue # <<>>)
  /\ UNCHANGED <<entries, tokenMap, cleanupQueue, index, held, leaving,
                 registered, collected, called, released>>

(* Mutation: the early return of a stale index leaves the flag up.         *)
TakeLeaving(t) ==
  /\ phase[t] = "take"
  /\ cleanupQueue # <<>>
  /\ cleanupQueue' = Tail(cleanupQueue)
  /\ LET i == Head(cleanupQueue)
         ready == i \in Indices /\ ~ entries[i].alive
     IN  /\ Goto(t, IF ready THEN "read" ELSE "idle")
         /\ index' = IF ready THEN [index EXCEPT ![t] = i] ELSE index
  /\ UNCHANGED <<entries, tokenMap, inProgress, held, leaving, registered,
                 collected, called, released>>

(* Under the shared lock the first index is taken; one that is out of      *)
(* range by now, or whose entry is alive, ends the call.                   *)
Take(t) ==
  /\ phase[t] = "take"
  /\ cleanupQueue # <<>>
  /\ cleanupQueue' = Tail(cleanupQueue)
  /\ LET i == Head(cleanupQueue)
     IN  \/ /\ i \in Indices => entries[i].alive
            /\ inProgress' = FALSE
            /\ Goto(t, "idle")
            /\ UNCHANGED index
         \/ /\ i \in Indices /\ ~ entries[i].alive
            /\ index' = [index EXCEPT ![t] = i]
            /\ Goto(t, "read")
            /\ UNCHANGED inProgress
  /\ UNCHANGED <<entries, tokenMap, held, leaving, registered, collected,
                 called, released>>

(* The held value is read under a second shared lock, and the callback is  *)
(* called with it once that is released.                                   *)
Read(t) ==
  /\ phase[t] = "read"
  /\ LET v == IF index[t] \in Indices THEN entries[index[t]].id ELSE 0
     IN  /\ held' = [held EXCEPT ![t] = v]
         /\ called' = called \cup ({v} \ {0})
  /\ Goto(t, "callback")
  /\ UNCHANGED <<entries, tokenMap, cleanupQueue, inProgress, index, leaving,
                 registered, collected, released>>

(* The callback returns, or throws a JavaScript exception that is reported. *)
EndCallback(t) ==
  /\ phase[t] = "callback" /\ leaving[t] = NoToken
  /\ Goto(t, "remove")
  /\ UNCHANGED <<entries, tokenMap, cleanupQueue, inProgress, index, held,
                 leaving, registered, collected, called, released>>

(* Any other exception ends the call in the outer handler.                 *)
AbortCallback(t) ==
  /\ phase[t] = "callback" /\ leaving[t] = NoToken
  /\ inProgress' = FALSE
  /\ Goto(t, "idle")
  /\ held' = [held EXCEPT ![t] = 0]
  /\ index' = [index EXCEPT ![t] = 0]
  /\ UNCHANGED <<entries, tokenMap, cleanupQueue, leaving, registered,
                 collected, called, released>>

(* Mutation: the entry at the index is not looked at again.                *)
RemoveUnchecked(t) ==
  /\ phase[t] = "remove"
  /\ IF index[t] \in Indices
     THEN SafeRemoveEntry(index[t])
     ELSE UNCHANGED <<entries, tokenMap>>
  /\ inProgress' = FALSE
  /\ Goto(t, "idle")
  /\ held' = [held EXCEPT ![t] = 0]
  /\ index' = [index EXCEPT ![t] = 0]
  /\ UNCHANGED <<cleanupQueue, leaving, registered, collected, called, released>>

(* The entry at the index is removed if it is dead, whichever it is now.   *)
Remove(t) ==
  /\ phase[t] = "remove"
  /\ IF index[t] \in Indices /\ ~ entries[index[t]].alive
     THEN SafeRemoveEntry(index[t])
     ELSE UNCHANGED <<entries, tokenMap>>
  /\ inProgress' = FALSE
  /\ Goto(t, "idle")
  /\ held' = [held EXCEPT ![t] = 0]
  /\ index' = [index EXCEPT ![t] = 0]
  /\ UNCHANGED <<cleanupQueue, leaving, registered, collected, called, released>>

---------------------------------------------------------------------------
Cleanup(t) == Look(t) \/ Scan(t) \/ Check(t) \/ Take(t) \/ Read(t) \/ Remove(t)

EndCallbackSomehow(t) == EndCallback(t) \/ AbortCallback(t)

Next ==
  \/ \E t \in Threads :
       \/ \E token \in Tokens \cup {NoToken} : Register(t, token)
       \/ \E token \in Tokens : BeginUnregister(t, token)
       \/ FinishUnregister(t)
       \/ Begin(t) \/ Cleanup(t) \/ EndCallbackSomehow(t)
  \/ \E id \in Ids : Collect(id)
  \/ PostGC

Spec == Init /\ [][Next]_vars

(* Threads are scheduled fairly, callbacks end, every collection is         *)
(* reported, and every thread calls cleanupSome again and again: the        *)
(* registry never does so by itself.  Another thread may be cleaning up     *)
(* whenever one tries, and the callback may keep calling unregister, hence  *)
(* strong fairness of both.                                                *)
FairSpec ==
  /\ Spec
  /\ WF_vars(PostGC)
  /\ \A t \in Threads : /\ WF_vars(Cleanup(t) \/ FinishUnregister(t))
                        /\ SF_vars(EndCallbackSomehow(t))
                        /\ SF_vars(Begin(t))

---------------------------------------------------------------------------
(* Properties.                                                             *)

TypeOK ==
  /\ entries \in Seq(Entry)
  /\ tokenMap \in [Tokens -> 0..MaxRegistrations]
  /\ cleanupQueue \in Seq(1..MaxRegistrations)
  /\ inProgress \in BOOLEAN
  /\ phase \in [Threads -> Phases]
  /\ index \in [Threads -> 0..MaxRegistrations]
  /\ held \in [Threads -> 0..MaxRegistrations]
  /\ leaving \in [Threads -> Tokens \cup {NoToken}]
  /\ registered \in 0..MaxRegistrations
  /\ collected \subseteq Ids /\ called \subseteq Ids /\ released \subseteq Ids

(* One thread at a time cleans up, and every way out of cleanupSome, early  *)
(* or late, gives the flag back: it is up exactly while a thread is inside. *)
CleanupExclusive ==
  /\ \A t, u \in Threads : Cleaning(t) /\ Cleaning(u) => t = u
  /\ inProgress <=> \E t \in Threads : Cleaning(t)

(* Removal moves the last entry into a gap whose index was found under an    *)
(* earlier lock, or before a callback.  Yet in no step does a registration  *)
(* get lost but the one unregister's token maps to under its exclusive      *)
(* lock, or the one at cleanupSome's index, and that only if its target was *)
(* collected; and none is held twice, or comes back.                       *)
InRegistry(id) == \E i \in Indices : entries[i].id = id
HeldOnce(id)   == \E i \in Indices : \A j \in Indices : entries[j].id = id <=> j = i

UnregisteredBy(t, id) ==
  /\ leaving[t] # NoToken /\ leaving'[t] = NoToken
  /\ LET i == tokenMap[leaving[t]] IN i \in Indices /\ entries[i].id = id

CleanedUpBy(t, id) ==
  /\ phase[t] = "remove" /\ phase'[t] = "idle"
  /\ index[t] \in Indices /\ entries[index[t]].id = id
  /\ id \in collected

NoOtherLeaves ==
  [][\A id \in Ids :
       /\ InRegistry(id)' => HeldOnce(id)' /\ (InRegistry(id) \/ id > registered)
       /\ InRegistry(id) /\ ~ InRegistry(id)' =>
            \E t \in Threads : UnregisteredBy(t, id) \/ CleanedUpBy(t, id)]_vars

(* cleanupSome relies on the flag alone, which postGCCallback sets and       *)
(* removals move about with the entry: an entry flagged dead has a target   *)
(* that was collected.                                                     *)
DeadIsCollected ==
  \A i \in Indices : ~ entries[i].alive => entries[i].id \in collected

(* Liveness: an entry whose target was collected does not wait for ever:    *)
(* its callback is called or it leaves the registry, although indices in    *)
(* the queue go stale and removals move entries about.                     *)
Finalized ==
  \A id \in Ids : (id \in collected /\ InRegistry(id))
                    ~> (id \in called \/ ~ InRegistry(id))

(* "Runs cleanup code after the object was garbage collected"               *)
(* (finalization_registry.h:44): the held value the callback is called with  *)
(* is that of a registration whose target was collected.                   *)
HeldIsCollected ==
  \A t \in Threads : phase[t] = "callback" /\ held[t] # 0 => held[t] \in collected

(* "Map used to find entries by their unregisterToken"                      *)
(* (finalization_registry.h:150): a registration leaves the registry only   *)
(* after its callback was called, or by its own token.                     *)
KeptUntilDone ==
  \A id \in 1..registered : InRegistry(id) \/ id \in called \/ id \in released
=============================================================================
