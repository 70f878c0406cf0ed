----------------------------- MODULE StateStore -----------------------------
(***************************************************************************)
(* Resumable state synchronization (tascarrel-store).  A Store owns a      *)
(* value, a stamp and a bounded journal of mutations.  A consumer keeps a  *)
(* Cache, subscribes with the stamp of what it holds, and applies the      *)
(* events in the order it receives them.  Subscriptions end when the store *)
(* is dropped or the consumer loses its connection; the consumer then      *)
(* subscribes again, possibly to a store created anew.                     *)
(*                                                                         *)
(* The reducer is a parameter.  The store's lock makes apply one step;     *)
(* subscribing and waking up are two steps each, since the watch channel   *)
(* is read before the lock is taken.  A generation stands for a fresh      *)
(* UUID and is numbered in the order of creation; past records every state *)
(* the store was in, and is read by no action.                             *)
(***************************************************************************)
EXTENDS Naturals, Sequences

CONSTANTS
    Consumers,      \* consumers, each with one cache and one subscription at a time
    Values,         \* values of the state
    Initial,        \* values a store may be created with
    Mutations,
    Reduce(_, _),   \* Reduce(v, m): the reducer
    HistoryLimit,   \* history_limit
    MaxVersion,     \* the largest version, u64::MAX in the code
    Window,         \* events received from the subscription and not yet applied
    MaxChanges,     \* bound: mutations applied
    MaxRestarts,    \* bound: times the store is created anew
    MaxLosses       \* bound: subscriptions dropped by the consumer's side

ASSUME StoreAssumption ==
    /\ Initial \subseteq Values
    /\ \A v \in Values, m \in Mutations : Reduce(v, m) \in Values
    /\ HistoryLimit \in Nat \ {0} /\ MaxVersion \in Nat \ {0} /\ Window \in Nat \ {0}
    /\ {MaxChanges, MaxRestarts, MaxLosses} \subseteq Nat

VARIABLES
    store,     \* StoreState: generation, version, value, history
    sub,       \* the SubscriptionState of each consumer
    unseen,    \* the watch channel holds a stamp the subscription has not seen
    inbox,     \* events received and not yet applied
    cache,     \* the snapshot in each cache, or Empty
    error,     \* the CacheError a cache has reported, or "none"
    past,      \* every state the store has been in
    changes, restarts, losses

vars == <<store, sub, unseen, inbox, cache, error, past, changes, restarts, losses>>

Empty == [generation |-> 0, version |-> 0]
Stamps == [generation : Nat, version : Nat]
Snapshots == [generation : Nat \ {0}, version : Nat, value : Values]
StampOf(x) == [generation |-> x.generation, version |-> x.version]

Snapshot(s) == [kind |-> "snapshot", generation |-> s.generation, version |-> s.version,
                value |-> s.value]
Mutation(s, v, m) == [kind |-> "mutation", generation |-> s.generation, version |-> v,
                      mutation |-> m]
Events ==
    [kind : {"snapshot"}, generation : Nat \ {0}, version : Nat, value : Values]
        \cup [kind : {"mutation"}, generation : Nat \ {0}, version : Nat, mutation : Mutations]

State(s) == [generation |-> s.generation, version |-> s.version, value |-> s.value]
NewStore(g, v) == [generation |-> g, version |-> 0, value |-> v, history |-> << >>]
NoSubscription == [phase |-> "none", cursor |-> Empty, pending |-> << >>]

Init ==
    /\ \E v \in Initial : store = NewStore(1, v)
    /\ sub = [c \in Consumers |-> NoSubscription]
    /\ unseen = [c \in Consumers |-> FALSE]
    /\ inbox = [c \in Consumers |-> << >>]
    /\ cache = [c \in Consumers |-> Empty]
    /\ error = [c \in Consumers |-> "none"]
    /\ past = {State(store)}
    /\ changes = 0 /\ restarts = 0 /\ losses = 0

-----------------------------------------------------------------------------
(* The store.                                                              *)

\* The journal keeps the last HistoryLimit mutations.
Journal(h, m) ==
    LET full == Append(h, m) IN IF Len(full) > HistoryLimit THEN Tail(full) ELSE full

Applied(m) ==
    LET v == Reduce(store.value, m) IN
    IF store.version = MaxVersion
    THEN [generation |-> store.generation + 1, version |-> 1, value |-> v,
          history |-> Journal(<< >>, m)]
    ELSE [generation |-> store.generation, version |-> store.version + 1, value |-> v,
          history |-> Journal(store.history, m)]

Apply(m) ==
    /\ changes < MaxChanges /\ changes' = changes + 1
    /\ store' = Applied(m)
    /\ unseen' = [c \in Consumers |-> TRUE]
    /\ past' = past \cup {State(store')}
    /\ UNCHANGED <<sub, inbox, cache, error, restarts, losses>>

(* The store is dropped and created anew, with what its service restored.  *)
(* subscribe borrows the store, so no call of it is in progress.           *)
Restart(v) ==
    /\ restarts < MaxRestarts /\ restarts' = restarts + 1
    /\ \A c \in Consumers : sub[c].phase # "opening"
    /\ store' = NewStore(store.generation + 1, v)
    /\ sub' = [c \in Consumers |->
                IF sub[c].phase = "none" THEN sub[c] ELSE [sub[c] EXCEPT !.phase = "orphan"]]
    /\ past' = past \cup {State(store')}
    /\ UNCHANGED <<unseen, inbox, cache, error, changes, losses>>

\* Mutant: the generation of the stamp is not compared.
EventsAfterAnyGeneration(after) ==
    LET base == store.version - Len(store.history) IN
    IF after = Empty \/ after.version > store.version \/ after.version < base
    THEN << Snapshot(store) >>
    ELSE [i \in 1 .. store.version - after.version |->
            Mutation(store, after.version + i, store.history[after.version - base + i])]

\* Mutant: the journal is replayed from its start.
EventsAfterFromStart(after) ==
    IF \/ after.generation # store.generation
       \/ after.version > store.version
       \/ after.version < store.version - Len(store.history)
    THEN << Snapshot(store) >>
    ELSE [i \in 1 .. store.version - after.version |->
            Mutation(store, after.version + i, store.history[i])]

\* The shortest catch-up after a consumer's stamp; Empty stands for no stamp.
EventsAfter(after) ==
    LET base == store.version - Len(store.history)
        offset == after.version - base
    IN  IF \/ after.generation # store.generation
           \/ after.version > store.version
           \/ after.version < base
        THEN << Snapshot(store) >>
        ELSE [i \in 1 .. store.version - after.version |->
                Mutation(store, after.version + i, store.history[offset + i])]

-----------------------------------------------------------------------------
(* Subscriptions.                                                          *)

\* Store::subscribe, up to the lock: what is in the watch channel is seen.
SubscribeChanges(c) ==
    /\ sub[c].phase = "none" /\ inbox[c] = << >> /\ error[c] = "none"
    /\ sub' = [sub EXCEPT ![c] = [phase |-> "opening", cursor |-> StampOf(cache[c]),
                                  pending |-> << >>]]
    /\ unseen' = [unseen EXCEPT ![c] = FALSE]
    /\ UNCHANGED <<store, inbox, cache, error, past, changes, restarts, losses>>

\* Mutant: a consumer that resumes gets no catch-up, only later changes.
SubscribeCollectFreshOnly(c) ==
    /\ sub[c].phase = "opening"
    /\ sub' = [sub EXCEPT ![c].phase = "live",
                          ![c].pending = IF cache[c] = Empty THEN EventsAfter(Empty) ELSE << >>]
    /\ UNCHANGED <<store, unseen, inbox, cache, error, past, changes, restarts, losses>>

SubscribeCollect(c) ==
    /\ sub[c].phase = "opening"
    /\ sub' = [sub EXCEPT ![c].phase = "live", ![c].pending = EventsAfter(sub[c].cursor)]
    /\ UNCHANGED <<store, unseen, inbox, cache, error, past, changes, restarts, losses>>

\* A pending event is received; it moves the cursor.
Receive(c) ==
    LET event == Head(sub[c].pending) IN
    /\ sub[c].phase \in {"live", "orphan"} /\ sub[c].pending # << >>
    /\ Len(inbox[c]) < Window
    /\ sub' = [sub EXCEPT ![c].cursor = StampOf(event), ![c].pending = Tail(@)]
    /\ inbox' = [inbox EXCEPT ![c] = Append(@, event)]
    /\ UNCHANGED <<store, unseen, cache, error, past, changes, restarts, losses>>

\* Nothing is pending and the watch channel has changed.
Wake(c) ==
    /\ sub[c].phase = "live" /\ sub[c].pending = << >> /\ unseen[c]
    /\ sub' = [sub EXCEPT ![c].phase = "woken"]
    /\ unseen' = [unseen EXCEPT ![c] = FALSE]
    /\ UNCHANGED <<store, inbox, cache, error, past, changes, restarts, losses>>

Collect(c) ==
    /\ sub[c].phase = "woken"
    /\ sub' = [sub EXCEPT ![c].phase = "live", ![c].pending = EventsAfter(sub[c].cursor)]
    /\ UNCHANGED <<store, unseen, inbox, cache, error, past, changes, restarts, losses>>

\* The stream of a dropped store ends after its pending events.
End(c) ==
    /\ sub[c].phase = "orphan" /\ sub[c].pending = << >>
    /\ sub' = [sub EXCEPT ![c] = NoSubscription]
    /\ UNCHANGED <<store, unseen, inbox, cache, error, past, changes, restarts, losses>>

\* The consumer's side is gone, with every event it has not applied.
Lose(c) ==
    /\ losses < MaxLosses /\ losses' = losses + 1
    /\ sub[c].phase \notin {"none", "opening"}
    /\ sub' = [sub EXCEPT ![c] = NoSubscription]
    /\ inbox' = [inbox EXCEPT ![c] = << >>]
    /\ UNCHANGED <<store, unseen, cache, error, past, changes, restarts>>

-----------------------------------------------------------------------------
(* The cache.                                                              *)

\* Why a cache refuses an event.
CacheError(held, event) ==
    IF event.kind = "snapshot" THEN "none"
    ELSE IF held = Empty THEN "MissingSnapshot"
    ELSE IF held.generation # event.generation THEN "GenerationMismatch"
    ELSE IF event.version > held.version + 1 THEN "VersionGap"
    ELSE "none"

\* What a cache holds after an event: duplicates and older ones are ignored.
CacheAfter(held, event) ==
    IF \/ CacheError(held, event) # "none"
       \/ held.generation = event.generation /\ event.version <= held.version
    THEN held
    ELSE [generation |-> event.generation, version |-> event.version,
          value |-> IF event.kind = "snapshot" THEN event.value
                    ELSE Reduce(held.value, event.mutation)]

CacheApply(c) ==
    LET event == Head(inbox[c]) IN
    /\ inbox[c] # << >> /\ error[c] = "none"
    /\ inbox' = [inbox EXCEPT ![c] = Tail(@)]
    /\ cache' = [cache EXCEPT ![c] = CacheAfter(@, event)]
    /\ error' = [error EXCEPT ![c] = CacheError(cache[c], event)]
    /\ UNCHANGED <<store, sub, unseen, past, changes, restarts, losses>>

-----------------------------------------------------------------------------
ConsumerStep(c) ==
    SubscribeChanges(c) \/ SubscribeCollect(c) \/ Receive(c) \/ Wake(c)
        \/ Collect(c) \/ End(c) \/ CacheApply(c)

Next ==
    \/ \E m \in Mutations : Apply(m)
    \/ \E v \in Initial : Restart(v)
    \/ \E c \in Consumers : ConsumerStep(c) \/ Lose(c)

Spec == Init /\ [][Next]_vars

(* A consumer resubscribes when its stream ends, and its task is polled    *)
(* whenever the stream or the watch channel is ready.                      *)
FairSpec == Spec /\ \A c \in Consumers : WF_vars(ConsumerStep(c))

-----------------------------------------------------------------------------
(* Types; the journal never exceeds its limit nor reaches back before the  *)
(* first version of its generation (Store::apply).                         *)
StoreTypeOK ==
    /\ store \in [generation : Nat \ {0}, version : 0 .. MaxVersion, value : Values,
                  history : Seq(Mutations)]
    /\ Len(store.history) <= HistoryLimit /\ Len(store.history) <= store.version
    /\ sub \in [Consumers -> [phase : {"none", "opening", "live", "woken", "orphan"},
                              cursor : Stamps, pending : Seq(Events)]]
    /\ unseen \in [Consumers -> BOOLEAN]
    /\ inbox \in [Consumers -> Seq(Events)]
    /\ \A c \in Consumers : Len(inbox[c]) <= Window
    /\ cache \in [Consumers -> Snapshots \cup {Empty}]
    /\ error \in [Consumers -> {"none", "MissingSnapshot", "GenerationMismatch", "VersionGap"}]
    /\ past \subseteq Snapshots
    /\ changes \in Nat /\ restarts \in Nat /\ losses \in Nat

(* A cache fed from one subscription at a time never refuses an event,     *)
(* whatever was lost and whichever generation the store is in: no mutation *)
(* reaches it without its base (CacheError).                               *)
NoCacheError == \A c \in Consumers : error[c] = "none"

(* Every cache holds a state the store was in under that very stamp, and   *)
(* moves only forward through them: replaying mutations onto a resumed     *)
(* stamp never mixes two histories (StoreReplica).                         *)
Replica == INSTANCE StoreReplica WITH replica <- cache
ReplicaSpec == Replica!Spec

(* Once the store stops changing and no more subscriptions are lost, every *)
(* cache ends up with the store's current state: coalesced notifications   *)
(* lose nothing (Subscription::new).                                       *)
CatchesUp == \A c \in Consumers : <>[](cache[c] = State(store))

=============================================================================
