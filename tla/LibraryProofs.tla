--------------------------- MODULE LibraryProofs ----------------------------
(***************************************************************************)
(* Proofs about parts of two libraries: the resumable store of             *)
(* tascarrel-store (StateStore), and of tascarrel-mux the synchronization  *)
(* of a transport (MuxProbe) and the writer's choice of frames             *)
(* (MuxScheduler).                                                         *)
(***************************************************************************)
EXTENDS StateStore, MuxProbe, MuxScheduler, TLAPS

(***************************************************************************)
(* The store: for every set of consumers, every reducer and every limit,   *)
(* no cache refuses an event, and the store with its caches implements     *)
(* StoreReplica.                                                           *)
(*                                                                         *)
(* The inductive invariant says that the journal explains the last states  *)
(* of the current generation, that every event on its way is explained by  *)
(* the past in the same sense, and that the events on their way to one     *)
(* cache form a chain: from what the cache holds, through its inbox, to    *)
(* the cursor, and on through what is pending.                             *)
(***************************************************************************)

(* Stamp a is before stamp b, or not after it.                             *)
Earlier(a, b) ==
    \/ a.generation < b.generation
    \/ a.generation = b.generation /\ a.version < b.version
AtMost(a, b) ==
    \/ a.generation < b.generation
    \/ a.generation = b.generation /\ a.version <= b.version

(* Mutation m leads from version v - 1 to version v of generation g in P.  *)
Explains(P, g, v, m) ==
    /\ \E s \in P : s.generation = g /\ s.version = v
    /\ \A r, s \in P :
        (/\ r.generation = g /\ r.version + 1 = v
         /\ s.generation = g /\ s.version = v) => s.value = Reduce(r.value, m)

EventOK(P, e) ==
    /\ e.kind = "snapshot" => State(e) \in P
    /\ e.kind = "mutation" => Explains(P, e.generation, e.version, e.mutation)

(* Event e may be applied to a cache with the stamp of x.                  *)
Follows(x, e) ==
    /\ e.kind = "snapshot" => Earlier(x, e)
    /\ e.kind = "mutation" => x.generation = e.generation /\ x.version + 1 = e.version

Chain(P, x, q) ==
    /\ \A i \in 1 .. Len(q) : EventOK(P, q[i])
    /\ q # << >> => Follows(x, q[1])
    /\ \A i \in 1 .. Len(q) - 1 : Follows(q[i], q[i + 1])

Last(x, q) == IF q = << >> THEN StampOf(x) ELSE StampOf(q[Len(q)])

PastOK ==
    /\ State(store) \in past
    /\ \A r \in past : AtMost(r, store)
    /\ \A r, s \in past : r.generation = s.generation /\ r.version = s.version => r = s

JournalOK ==
    \A i \in 1 .. Len(store.history) :
        Explains(past, store.generation, store.version - Len(store.history) + i,
                 store.history[i])

ConsumerOK(c) ==
    /\ error[c] = "none"
    /\ cache[c] = Empty \/ cache[c] \in past
    /\ Chain(past, cache[c], inbox[c])
    /\ sub[c].phase # "none" =>
        /\ sub[c].cursor = Last(cache[c], inbox[c])
        /\ AtMost(sub[c].cursor, store)
        /\ Chain(past, sub[c].cursor, sub[c].pending)

IInv == StoreTypeOK /\ PastOK /\ JournalOK /\ \A c \in Consumers : ConsumerOK(c)

-----------------------------------------------------------------------------
(* The fields of events and snapshots.                                     *)
LEMMA EventFields ==
    ASSUME NEW e \in Events
    PROVE  /\ e.generation \in Nat \ {0} /\ e.version \in Nat
           /\ e.kind \in {"snapshot", "mutation"}
           /\ e.kind = "snapshot" => e.value \in Values
           /\ e.kind = "mutation" => e.mutation \in Mutations
           /\ StampOf(e) \in Stamps
BY Zenon DEF Events, StampOf, Stamps

(* What an event says of the past stays true when a later state is added.  *)
LEMMA ExplainsGrows ==
    ASSUME NEW P, P \subseteq Snapshots, NEW t \in Snapshots, \A r \in P : Earlier(r, t),
           NEW g \in Nat, NEW v \in Nat, NEW m, Explains(P, g, v, m)
    PROVE  Explains(P \cup {t}, g, v, m)
<1>1. PICK s0 \in P : s0.generation = g /\ s0.version = v
  BY Zenon DEF Explains
<1>2. Earlier(s0, t)
  BY <1>1, Zenon
<1>3. t.generation \in Nat /\ t.version \in Nat
  BY Zenon DEF Snapshots
<1>4. ~(t.generation = g /\ t.version = v)
  BY <1>1, <1>2, <1>3 DEF Earlier
<1>5. ~(t.generation = g /\ t.version + 1 = v)
  BY <1>1, <1>2, <1>3 DEF Earlier
<1>6. \A r, s \in P \cup {t} :
        (/\ r.generation = g /\ r.version + 1 = v
         /\ s.generation = g /\ s.version = v) => r \in P /\ s \in P
  BY <1>4, <1>5, Zenon
<1> QED
  BY <1>1, <1>6, Zenon DEF Explains

LEMMA ChainGrows ==
    ASSUME NEW P, P \subseteq Snapshots, NEW t \in Snapshots, \A r \in P : Earlier(r, t),
           NEW x, NEW q \in Seq(Events), Chain(P, x, q)
    PROVE  Chain(P \cup {t}, x, q)
<1>1. ASSUME NEW i \in 1 .. Len(q) PROVE EventOK(P \cup {t}, q[i])
  <2>1. q[i] \in Events
    OBVIOUS
  <2>2. EventOK(P, q[i])
    BY Zenon DEF Chain
  <2>3. q[i].generation \in Nat /\ q[i].version \in Nat
    BY <2>1, EventFields, Zenon
  <2>4. q[i].kind = "mutation" =>
            Explains(P \cup {t}, q[i].generation, q[i].version, q[i].mutation)
    BY <2>2, <2>3, ExplainsGrows, Zenon DEF EventOK
  <2> QED
    BY <2>2, <2>4, Zenon DEF EventOK
<1> QED
  BY <1>1, Zenon DEF Chain

(* A chain takes one more event at its end.                                *)
LEMMA ChainAppend ==
    ASSUME NEW P, NEW x, NEW q \in Seq(Events), NEW e \in Events,
           Chain(P, x, q), EventOK(P, e), Follows(Last(x, q), e)
    PROVE  Chain(P, x, Append(q, e)) /\ Last(x, Append(q, e)) = StampOf(e)
<1> DEFINE n == Len(q)
           w == Append(q, e)
<1>1. /\ n \in Nat /\ Len(w) = n + 1 /\ w[n + 1] = e /\ w # << >>
      /\ \A i \in 1 .. n : w[i] = q[i]
  OBVIOUS
<1>2. \A i \in 1 .. n + 1 : EventOK(P, w[i])
  BY <1>1 DEF Chain
<1>3. Follows(x, w[1])
  <2>1. CASE q = << >>
    BY <1>1, <2>1 DEF Last, Follows, StampOf, Earlier
  <2>2. CASE q # << >>
    BY <1>1, <2>2 DEF Chain
  <2> QED
    BY <2>1, <2>2, Zenon
<1>4. ASSUME NEW i \in 1 .. n PROVE Follows(w[i], w[i + 1])
  <2>1. CASE i = n
    <3>1. q # << >> /\ w[i] = q[n] /\ w[i + 1] = e
      BY <1>1, <2>1
    <3> QED
      BY <3>1, Zenon DEF Last, Follows, StampOf, Earlier
  <2>2. CASE i # n
    <3>1. i \in 1 .. n - 1 /\ i + 1 \in 1 .. n
      BY <1>1, <2>2
    <3> QED
      BY <1>1, <3>1, Zenon DEF Chain
  <2> QED
    BY <2>1, <2>2, Zenon
<1>5. Last(x, w) = StampOf(e)
  BY <1>1, Zenon DEF Last
<1>6. Chain(P, x, w)
  <2> HIDE DEF w, n
  <2>1. Len(w) - 1 = n
    BY <1>1
  <2> QED
    BY <1>1, <1>2, <1>3, <1>4, <2>1, Zenon DEF Chain
<1> QED
  BY <1>5, <1>6, Zenon

(* A chain loses its first event to whatever takes that event's stamp.     *)
LEMMA ChainTail ==
    ASSUME NEW P, NEW x, NEW q \in Seq(Events), q # << >>, Chain(P, x, q),
           NEW y, StampOf(y) = StampOf(Head(q))
    PROVE  Chain(P, y, Tail(q)) /\ Last(y, Tail(q)) = Last(x, q)
<1> DEFINE n == Len(q)
           w == Tail(q)
<1>1. /\ n \in Nat /\ n >= 1 /\ Len(w) = n - 1 /\ Head(q) = q[1] /\ w \in Seq(Events)
      /\ \A i \in 1 .. n - 1 : w[i] = q[i + 1]
  OBVIOUS
<1>2. y.generation = q[1].generation /\ y.version = q[1].version
  BY <1>1, Zenon DEF StampOf
<1>3. \A i \in 1 .. n - 1 : EventOK(P, w[i])
  BY <1>1 DEF Chain
<1>4. w # << >> => n >= 2
  BY <1>1
<1>5. w # << >> => Follows(y, w[1])
  <2>1. SUFFICES ASSUME w # << >> PROVE Follows(y, w[1])
    BY Zenon
  <2>2. w[1] = q[2] /\ 1 \in 1 .. n - 1
    BY <1>1, <1>4, <2>1
  <2>3. Follows(q[1], q[2])
    BY <2>2 DEF Chain
  <2> QED
    BY <1>2, <2>2, <2>3, Zenon DEF Follows, Earlier
<1>6. ASSUME NEW i \in 1 .. (n - 1) - 1 PROVE Follows(w[i], w[i + 1])
  <2>1. i + 1 \in 1 .. n - 1 /\ i \in 1 .. n - 1
    BY <1>1
  <2>2. w[i] = q[i + 1] /\ w[i + 1] = q[(i + 1) + 1]
    BY <1>1, <2>1, Zenon
  <2> QED
    BY <2>1, <2>2, Zenon DEF Chain
<1>7. Last(y, w) = Last(x, q)
  <2>0. w = << >> <=> n = 1
    <3> HIDE DEF w, n
    <3> QED
      BY <1>1
  <2>1. CASE n = 1
    <3>1. w = << >>
      BY <2>0, <2>1, Zenon
    <3>2. Last(y, w) = StampOf(y)
      BY <3>1, Zenon DEF Last
    <3>3. Last(x, q) = StampOf(q[1])
      BY <2>1, Zenon DEF Last
    <3> QED
      BY <1>1, <3>2, <3>3, Zenon
  <2>2. CASE n # 1
    <3>1. w # << >>
      BY <2>0, <2>2, Zenon
    <3>2. w[n - 1] = q[n]
      <4> HIDE DEF w, n
      <4>1. n - 1 \in 1 .. n - 1 /\ (n - 1) + 1 = n
        BY <1>1, <2>2
      <4> QED
        BY <1>1, <4>1, Zenon
    <3>3. Last(y, w) = StampOf(w[Len(w)])
      BY <3>1, Zenon DEF Last
    <3>4. Last(x, q) = StampOf(q[n])
      BY Zenon DEF Last
    <3> QED
      BY <1>1, <3>2, <3>3, <3>4, Zenon
  <2> QED
    BY <2>1, <2>2, Zenon
<1>8. Chain(P, y, w)
  <2> HIDE DEF w, n
  <2>1. Len(w) - 1 = (n - 1) - 1
    BY <1>1, Zenon
  <2> QED
    BY <1>1, <1>3, <1>5, <1>6, <2>1, Zenon DEF Chain
<1> QED
  BY <1>7, <1>8, Zenon

-----------------------------------------------------------------------------
(* The fields of the store.                                                *)
LEMMA StoreFields ==
    ASSUME StoreTypeOK
    PROVE  /\ store.generation \in Nat \ {0} /\ store.version \in Nat
           /\ store.version <= MaxVersion /\ store.value \in Values
           /\ store.history \in Seq(Mutations) /\ Len(store.history) \in Nat
           /\ Len(store.history) <= store.version /\ Len(store.history) <= HistoryLimit
           /\ past \subseteq Snapshots
BY StoreAssumption DEF StoreTypeOK

(* What collect_events_after returns is a chain from the consumer's stamp. *)
LEMMA CatchUp ==
    ASSUME IInv, NEW after \in Stamps, AtMost(after, store)
    PROVE  EventsAfter(after) \in Seq(Events) /\ Chain(past, after, EventsAfter(after))
<1> DEFINE n == Len(store.history)
           base == store.version - n
           rebase == \/ after.generation # store.generation
                     \/ after.version > store.version
                     \/ after.version < base
<1>1. /\ store.generation \in Nat \ {0} /\ store.version \in Nat /\ store.value \in Values
      /\ n \in Nat /\ n <= store.version /\ store.history \in Seq(Mutations)
      /\ after.generation \in Nat /\ after.version \in Nat
  BY StoreFields, Zenon DEF IInv, Stamps
<1>2. CASE rebase
  <2> DEFINE e == Snapshot(store)
             q == << e >>
  <2>1. EventsAfter(after) = q
    BY <1>2, Zenon DEF EventsAfter
  <2>2. e \in Events
    BY <1>1, Zenon DEF Snapshot, Events
  <2>3. q \in Seq(Events) /\ Len(q) = 1 /\ q[1] = e
    BY <2>2
  <2>4. Earlier(after, e)
    BY <1>1, <1>2 DEF AtMost, Earlier, Snapshot
  <2>5. EventOK(past, e)
    BY Zenon DEF EventOK, IInv, PastOK, State, Snapshot
  <2>6. Follows(after, e)
    BY <2>4, Zenon DEF Follows, Snapshot
  <2> HIDE DEF q, e
  <2>7. Chain(past, after, q)
    BY <2>3, <2>5, <2>6 DEF Chain
  <2> QED
    BY <2>1, <2>3, <2>7, Zenon
<1>3. CASE ~rebase
  <2> DEFINE k == store.version - after.version
             off == after.version - base
             q == [i \in 1 .. k |->
                     Mutation(store, after.version + i, store.history[off + i])]
  <2>1. EventsAfter(after) = q
    BY <1>3, Zenon DEF EventsAfter
  <2>2. k \in Nat /\ off \in Nat /\ off + k = n /\ after.generation = store.generation
    BY <1>1, <1>3
  <2>3. ASSUME NEW i \in 1 .. k
        PROVE  /\ q[i] \in Events /\ EventOK(past, q[i]) /\ q[i].kind = "mutation"
               /\ q[i].generation = store.generation /\ q[i].version = after.version + i
    <3>1. i \in Nat /\ off + i \in 1 .. n /\ after.version + i \in Nat
      <4> HIDE DEF k, off, base, n
      <4> QED
        BY <1>1, <2>2
    <3>2. base + (off + i) = after.version + i
      BY SMTT(30), <1>1, <3>1
    <3>3. store.history[off + i] \in Mutations
      BY <1>1, <3>1
    <3>4. q[i] = Mutation(store, after.version + i, store.history[off + i])
      BY Zenon
    <3>5. Explains(past, store.generation, base + (off + i), store.history[off + i])
      BY <3>1, Zenon DEF IInv, JournalOK
    <3> HIDE DEF q, off, base, n
    <3>6. Explains(past, store.generation, after.version + i, store.history[off + i])
      BY <3>2, <3>5, Zenon
    <3>f. /\ q[i].kind = "mutation" /\ q[i].generation = store.generation
          /\ q[i].version = after.version + i /\ q[i].mutation = store.history[off + i]
      BY <3>4 DEF Mutation
    <3>7. EventOK(past, q[i])
      BY <3>f, <3>6, Zenon DEF EventOK
    <3> QED
      BY <1>1, <3>1, <3>3, <3>4, <3>7 DEF Mutation, Events
  <2>4. q \in Seq(Events) /\ Len(q) = k
    <3>1. q \in [1 .. k -> Events]
      BY <2>3, Zenon
    <3> HIDE DEF q, k
    <3> QED
      BY <2>2, <3>1
  <2> HIDE DEF q, off
  <2>5. q # << >> => k >= 1
    BY <2>2, <2>4
  <2>6. q # << >> => Follows(after, q[1])
    BY <1>1, <2>2, <2>3, <2>5 DEF Follows
  <2>7. ASSUME NEW i \in 1 .. k - 1 PROVE Follows(q[i], q[i + 1])
    <3>1. i \in 1 .. k /\ i + 1 \in 1 .. k /\ after.version + (i + 1) = (after.version + i) + 1
      <4> HIDE DEF k
      <4> QED
        BY <1>1, <2>2
    <3> QED
      BY <2>3, <3>1, Zenon DEF Follows
  <2>8. Chain(past, after, q)
    BY <2>3, <2>4, <2>6, <2>7, Zenon DEF Chain
  <2> QED
    BY <2>1, <2>4, <2>8, Zenon
<1> QED
  BY <1>2, <1>3, Zenon

-----------------------------------------------------------------------------
(* The store moves to a later state; consumers keep what they have.        *)
LEMMA StoreMoves ==
    ASSUME IInv, NEW t \in Snapshots, t = State(store'), past' = past \cup {t},
           Earlier(store, t), UNCHANGED <<inbox, cache, error>>,
           \A c \in Consumers :
                /\ sub'[c].cursor = sub[c].cursor /\ sub'[c].pending = sub[c].pending
                /\ sub'[c].phase # "none" => sub[c].phase # "none"
    PROVE  /\ \A r \in past : Earlier(r, t)
           /\ PastOK' /\ \A c \in Consumers : ConsumerOK(c)'
<1>1. /\ t.generation = store'.generation /\ t.version = store'.version
      /\ t.generation \in Nat /\ t.version \in Nat
  BY Zenon DEF State, Snapshots
<1>2. /\ store.generation \in Nat /\ store.version \in Nat /\ past \subseteq Snapshots
      /\ \A r \in past : r.generation \in Nat /\ r.version \in Nat
  BY StoreFields, Zenon DEF IInv, Snapshots
<1>3. \A r \in past : Earlier(r, t)
  BY <1>1, <1>2 DEF IInv, PastOK, AtMost, Earlier
<1>4. PastOK'
  <2>1. (State(store) \in past)'
    BY Zenon
  <2>2. \A r \in past' : AtMost(r, store')
    BY <1>1, <1>2, <1>3 DEF Earlier, AtMost
  <2>3. \A r, s \in past' :
            r.generation = s.generation /\ r.version = s.version => r = s
    BY <1>1, <1>2, <1>3 DEF Earlier, IInv, PastOK
  <2> QED
    BY <2>1, <2>2, <2>3, Zenon DEF PastOK
<1>5. ASSUME NEW c \in Consumers PROVE ConsumerOK(c)'
  <2>1. /\ inbox[c] \in Seq(Events) /\ sub[c].pending \in Seq(Events)
        /\ sub[c].cursor \in Stamps
    BY Zenon DEF IInv, StoreTypeOK
  <2>2. ConsumerOK(c)
    BY Zenon DEF IInv
  <2>3. Chain(past', cache[c], inbox[c])
    BY <1>2, <1>3, <2>1, <2>2, ChainGrows, Zenon DEF ConsumerOK
  <2>4. ASSUME sub[c].phase # "none"
        PROVE  AtMost(sub[c].cursor, store') /\ Chain(past', sub[c].cursor, sub[c].pending)
    <3>1. AtMost(sub[c].cursor, store) /\ Chain(past, sub[c].cursor, sub[c].pending)
      BY <2>2, <2>4, Zenon DEF ConsumerOK
    <3>2. sub[c].cursor.generation \in Nat /\ sub[c].cursor.version \in Nat
      BY <2>1, Zenon DEF Stamps
    <3>3. AtMost(sub[c].cursor, store')
      BY <1>1, <1>2, <3>1, <3>2 DEF AtMost, Earlier
    <3>4. Chain(past', sub[c].cursor, sub[c].pending)
      BY <1>2, <1>3, <2>1, <3>1, ChainGrows, Zenon
    <3> QED
      BY <3>3, <3>4, Zenon
  <2>5. cache[c] = Empty \/ cache[c] \in past'
    BY <2>2, Zenon DEF ConsumerOK
  <2> QED
    BY <2>2, <2>3, <2>4, <2>5, Zenon DEF ConsumerOK
<1> QED
  BY <1>3, <1>4, <1>5, Zenon

(* Appending a mutation to the journal keeps it an explanation.            *)
LEMMA JournalMoves ==
    ASSUME IInv, NEW m \in Mutations, store.version # MaxVersion,
           NEW t \in Snapshots, past' = past \cup {t}, \A r \in past : Earlier(r, t),
           t.generation = store.generation, t.version = store.version + 1,
           t.value = Reduce(store.value, m),
           NEW j \in 1 .. Len(store.history) + 1
    PROVE  Explains(past', store.generation, store.version - Len(store.history) + j,
                    Append(store.history, m)[j])
<1> DEFINE n == Len(store.history)
           v == store.version - n + j
<1>1. /\ store.generation \in Nat /\ store.version \in Nat /\ n \in Nat /\ n <= store.version
      /\ store.history \in Seq(Mutations) /\ past \subseteq Snapshots
  BY StoreFields, Zenon DEF IInv
<1>2. CASE j \in 1 .. n
  <2>1. Append(store.history, m)[j] = store.history[j]
    BY <1>1, <1>2
  <2>2. Explains(past, store.generation, v, store.history[j])
    BY <1>2, Zenon DEF IInv, JournalOK
  <2>3. v \in Nat
    BY <1>1
  <2> HIDE DEF v
  <2>4. Explains(past', store.generation, v, store.history[j])
    BY <1>1, <2>2, <2>3, ExplainsGrows, Zenon
  <2> QED
    BY <2>1, <2>4, Zenon DEF v
<1>3. CASE j = n + 1
  <2>1. Append(store.history, m)[j] = m
    BY <1>1, <1>3
  <2>2. v = store.version + 1
    BY <1>1, <1>3
  <2>3. \A r \in past : AtMost(r, store) /\ r.generation \in Nat /\ r.version \in Nat
    BY <1>1, Zenon DEF IInv, PastOK, Snapshots
  <2>4. \A s \in past' : s.generation = store.generation /\ s.version = store.version + 1 => s = t
    BY <1>1, <2>3 DEF AtMost
  <2>5. \A r \in past' :
            r.generation = store.generation /\ r.version + 1 = store.version + 1
                => r.value = store.value
    <3>1. SUFFICES ASSUME NEW r \in past', r.generation = store.generation,
                          r.version + 1 = store.version + 1
                   PROVE  r.value = store.value
      BY Zenon
    <3>2. r \in past /\ r.version = store.version
      BY <1>1, <2>3, <3>1
    <3>3. /\ State(store) \in past /\ State(store).generation = store.generation
          /\ State(store).version = store.version /\ State(store).value = store.value
      BY Zenon DEF IInv, PastOK, State
    <3> QED
      BY <3>1, <3>2, <3>3, Zenon DEF IInv, PastOK
  <2>6. Explains(past', store.generation, store.version + 1, m)
    BY <2>4, <2>5, Zenon DEF Explains
  <2> QED
    BY <2>1, <2>2, <2>6, Zenon
<1> QED
  BY <1>1, <1>2, <1>3

(* The parts of the type invariant that concern the consumers.             *)
ConsumerTypes ==
    /\ sub \in [Consumers -> [phase : {"none", "opening", "live", "woken", "orphan"},
                              cursor : Stamps, pending : Seq(Events)]]
    /\ unseen \in [Consumers -> BOOLEAN]
    /\ inbox \in [Consumers -> Seq(Events)]
    /\ \A c \in Consumers : Len(inbox[c]) <= Window
    /\ cache \in [Consumers -> Snapshots \cup {Empty}]
    /\ error \in [Consumers -> {"none", "MissingSnapshot", "GenerationMismatch", "VersionGap"}]

StoreTypes ==
    /\ store \in [generation : Nat \ {0}, version : 0 .. MaxVersion, value : Values,
                  history : Seq(Mutations)]
    /\ Len(store.history) <= HistoryLimit /\ Len(store.history) <= store.version
    /\ past \subseteq Snapshots
    /\ changes \in Nat /\ restarts \in Nat /\ losses \in Nat

LEMMA Types == StoreTypeOK <=> ConsumerTypes /\ StoreTypes
BY Zenon DEF StoreTypeOK, ConsumerTypes, StoreTypes

LEMMA InitIInv == Init => IInv
<1> SUFFICES ASSUME Init PROVE IInv
  BY Zenon
<1>1. PICK v \in Initial : store = NewStore(1, v)
  BY Zenon DEF Init
<1>2. /\ store.generation = 1 /\ store.version = 0 /\ store.value = v /\ store.history = << >>
      /\ v \in Values
  BY <1>1, StoreAssumption, Zenon DEF NewStore
<1>3. StoreTypes
  BY <1>1, <1>2, StoreAssumption DEF Init, NewStore, StoreTypes, State, Snapshots
<1>4. ConsumerTypes
  BY StoreAssumption DEF Init, ConsumerTypes, NoSubscription, Empty, Stamps
<1>5. PastOK
  BY <1>2 DEF Init, PastOK, State, AtMost
<1>6. JournalOK
  BY <1>2 DEF JournalOK
<1>7. ASSUME NEW c \in Consumers PROVE ConsumerOK(c)
  <2>1. /\ error[c] = "none" /\ cache[c] = Empty /\ inbox[c] = << >>
        /\ sub[c].phase = "none"
    BY Zenon DEF Init, NoSubscription
  <2>2. Chain(past, cache[c], << >>)
    BY DEF Chain
  <2> QED
    BY <2>1, <2>2, Zenon DEF ConsumerOK
<1> QED
  BY <1>3, <1>4, <1>5, <1>6, <1>7, Types, Zenon DEF IInv

LEMMA ApplyIInv ==
    ASSUME IInv, NEW m \in Mutations, Apply(m)
    PROVE  IInv' /\ Earlier(store, State(store')) /\ State(store') \in Snapshots
<1> DEFINE t == State(store')
           h == store.history
           n == Len(h)
           w == Append(h, m)
           v == Reduce(store.value, m)
<1>1. /\ store.generation \in Nat \ {0} /\ store.version \in Nat /\ store.version <= MaxVersion
      /\ h \in Seq(Mutations) /\ n \in Nat /\ n <= store.version /\ n <= HistoryLimit
      /\ past \subseteq Snapshots /\ v \in Values
  BY StoreFields, StoreAssumption, Zenon DEF IInv
<1>2. /\ store' = Applied(m) /\ past' = past \cup {t}
      /\ UNCHANGED <<sub, inbox, cache, error, restarts, losses>>
      /\ changes' = changes + 1 /\ unseen' = [c \in Consumers |-> TRUE]
  BY Zenon DEF Apply
<1>3. /\ w \in Seq(Mutations) /\ Len(w) = n + 1 /\ Tail(w) \in Seq(Mutations)
      /\ Len(Tail(w)) = n /\ \A i \in 1 .. n : Tail(w)[i] = w[i + 1]
  BY <1>1
<1>4. /\ HistoryLimit \in Nat \ {0} /\ MaxVersion \in Nat \ {0}
  BY StoreAssumption, Zenon
<1>c. ConsumerTypes'
  BY <1>2, Zenon DEF IInv, StoreTypeOK, ConsumerTypes
<1>5. /\ store'.generation \in Nat \ {0} /\ store'.version \in 0 .. MaxVersion
      /\ store'.value = v /\ store'.history \in Seq(Mutations)
      /\ Len(store'.history) <= HistoryLimit /\ Len(store'.history) <= store'.version
      /\ store' \in [generation : Nat \ {0}, version : 0 .. MaxVersion, value : Values,
                     history : Seq(Mutations)]
      /\ Earlier(store, store')
  <2>1. CASE store.version = MaxVersion
    <3>1. store' = [generation |-> store.generation + 1, version |-> 1, value |-> v,
                    history |-> << m >>]
      <4>1. Journal(<< >>, m) = << m >>
        BY <1>4 DEF Journal
      <4> QED
        BY <1>2, <2>1, <4>1, Zenon DEF Applied
    <3>2. << m >> \in Seq(Mutations) /\ Len(<< m >>) = 1
      OBVIOUS
    <3> QED
      BY <1>1, <1>4, <3>1, <3>2 DEF Earlier
  <2>2. CASE store.version # MaxVersion
    <3>1. store' = [generation |-> store.generation, version |-> store.version + 1, value |-> v,
                    history |-> Journal(h, m)]
      BY <1>2, <2>2, Zenon DEF Applied
    <3>2. /\ Journal(h, m) \in Seq(Mutations) /\ Len(Journal(h, m)) <= HistoryLimit
          /\ Len(Journal(h, m)) <= store.version + 1
      <4> HIDE DEF w, n
      <4>1. Journal(h, m) = IF Len(w) > HistoryLimit THEN Tail(w) ELSE w
        BY Zenon DEF Journal, w
      <4> QED
        BY <1>1, <1>3, <1>4, <4>1
    <3> HIDE DEF h
    <3> QED
      BY <1>1, <1>4, <2>2, <3>1, <3>2 DEF Earlier
  <2> QED
    BY <2>1, <2>2, Zenon
<1>6. t \in Snapshots /\ Earlier(store, t)
  BY <1>1, <1>4, <1>5 DEF State, Snapshots, Earlier
<1>7. StoreTypes'
  BY <1>1, <1>2, <1>5, <1>6 DEF IInv, StoreTypeOK, StoreTypes
<1>8. /\ \A r \in past : Earlier(r, t)
      /\ PastOK' /\ \A c \in Consumers : ConsumerOK(c)'
  BY <1>2, <1>6, StoreMoves, Zenon
<1>9. JournalOK'
  <2>1. CASE store.version = MaxVersion
    <3>1. store' = [generation |-> store.generation + 1, version |-> 1, value |-> v,
                    history |-> << m >>]
      <4>1. Journal(<< >>, m) = << m >>
        BY <1>4 DEF Journal
      <4> QED
        BY <1>2, <2>1, <4>1, Zenon DEF Applied
    <3>2. \A r \in past : r.generation \in Nat /\ r.generation <= store.generation
      BY <1>1 DEF IInv, PastOK, AtMost, Snapshots
    <3>3. t.generation = store.generation + 1 /\ t.version = 1
      BY <3>1, Zenon DEF State
    <3>4. Explains(past', store.generation + 1, 1, m)
      BY <1>1, <1>2, <3>2, <3>3 DEF Explains
    <3>5. /\ store'.history = << m >> /\ store'.version - 1 + 1 = 1 /\ Len(<< m >>) = 1
          /\ store'.generation = store.generation + 1 /\ << m >>[1] = m
      BY <3>1
    <3> QED
      BY <3>4, <3>5 DEF JournalOK
  <2>2. CASE store.version # MaxVersion
    <3>1. /\ store'.generation = store.generation /\ store'.version = store.version + 1
          /\ store'.history = IF Len(w) > HistoryLimit THEN Tail(w) ELSE w
          /\ t.generation = store.generation /\ t.version = store.version + 1 /\ t.value = v
      BY <1>2, <2>2, Zenon DEF Applied, Journal, State
    <3>2. \A j \in 1 .. n + 1 : Explains(past', store.generation, store.version - n + j, w[j])
      BY <1>2, <1>6, <1>8, <2>2, <3>1, JournalMoves, Zenon
    <3> HIDE DEF w, n, t
    <3>3. CASE Len(w) > HistoryLimit
      <4>1. store'.history = Tail(w) /\ Len(store'.history) = n
        BY <1>3, <3>1, <3>3, Zenon
      <4>2. SUFFICES ASSUME NEW i \in 1 .. n
                     PROVE  Explains(past', store.generation, (store.version + 1) - n + i, Tail(w)[i])
        BY <3>1, <4>1, Zenon DEF JournalOK
      <4>3. i + 1 \in 1 .. n + 1 /\ (store.version + 1) - n + i = store.version - n + (i + 1)
        <5>1. n \in Nat /\ store.version \in Nat
          BY <1>1, Zenon
        <5>2. i + 1 \in 1 .. n + 1
          BY <5>1
        <5>3. (store.version + 1) - n + i = store.version - n + (i + 1)
          BY <5>1
        <5> QED
          BY <5>2, <5>3, Zenon
      <4>4. Tail(w)[i] = w[i + 1]
        BY <1>3, Zenon
      <4> QED
        BY <3>2, <4>3, <4>4, Zenon
    <3>4. CASE ~(Len(w) > HistoryLimit)
      <4>1. store'.history = w /\ Len(store'.history) = n + 1
        BY <1>3, <3>1, <3>4, Zenon
      <4>2. SUFFICES ASSUME NEW i \in 1 .. n + 1
                     PROVE  Explains(past', store.generation, (store.version + 1) - (n + 1) + i, w[i])
        BY <3>1, <4>1, Zenon DEF JournalOK
      <4>3. (store.version + 1) - (n + 1) + i = store.version - n + i
        BY <1>1
      <4> QED
        BY <3>2, <4>3, Zenon
    <3> QED
      BY <3>3, <3>4, Zenon
  <2> QED
    BY <2>1, <2>2, Zenon
<1>10. StoreTypeOK'
  BY <1>7, <1>c, Types, PTL
<1> QED
  BY <1>6, <1>8, <1>9, <1>10, Zenon DEF IInv

LEMMA RestartIInv ==
    ASSUME IInv, NEW v \in Initial, Restart(v)
    PROVE  IInv' /\ Earlier(store, State(store')) /\ State(store') \in Snapshots
<1> DEFINE t == State(store')
<1>1. /\ store.generation \in Nat \ {0} /\ store.version \in Nat /\ v \in Values
      /\ past \subseteq Snapshots /\ MaxVersion \in Nat \ {0} /\ HistoryLimit \in Nat
  BY StoreFields, StoreAssumption, Zenon DEF IInv
<1>2. /\ past' = past \cup {t} /\ UNCHANGED <<unseen, inbox, cache, error, changes, losses>>
      /\ restarts' = restarts + 1
      /\ sub' = [c \in Consumers |-> IF sub[c].phase = "none" THEN sub[c]
                                      ELSE [sub[c] EXCEPT !.phase = "orphan"]]
  BY Zenon DEF Restart
<1>3. /\ store' = NewStore(store.generation + 1, v)
      /\ store'.generation = store.generation + 1 /\ store'.version = 0 /\ store'.value = v
      /\ store'.history = << >>
  BY Zenon DEF Restart, NewStore
<1>4. t \in Snapshots /\ Earlier(store, t)
  BY <1>1, <1>3 DEF State, Snapshots, Earlier
<1>5. ASSUME NEW c \in Consumers
      PROVE  /\ sub'[c].cursor = sub[c].cursor /\ sub'[c].pending = sub[c].pending
             /\ sub'[c].phase # "none" => sub[c].phase # "none"
             /\ sub'[c] \in [phase : {"none", "opening", "live", "woken", "orphan"},
                              cursor : Stamps, pending : Seq(Events)]
  <2>1. sub[c] \in [phase : {"none", "opening", "live", "woken", "orphan"},
                     cursor : Stamps, pending : Seq(Events)]
    BY Zenon DEF IInv, StoreTypeOK
  <2> QED
    BY <1>2, <2>1, Zenon
<1>6. PastOK' /\ \A c \in Consumers : ConsumerOK(c)'
  BY <1>2, <1>4, <1>5, StoreMoves, Zenon
<1>7. JournalOK'
  BY <1>3 DEF JournalOK
<1>8. ConsumerTypes'
  <2>1. sub' \in [Consumers -> [phase : {"none", "opening", "live", "woken", "orphan"},
                                cursor : Stamps, pending : Seq(Events)]]
    BY <1>2, <1>5, Zenon
  <2> QED
    BY <1>2, <2>1, Zenon DEF IInv, StoreTypeOK, ConsumerTypes
<1>9. StoreTypes'
  <2>1. store' \in [generation : Nat \ {0}, version : 0 .. MaxVersion, value : Values,
                    history : Seq(Mutations)]
    BY <1>1, <1>3 DEF NewStore
  <2> QED
    BY SMTT(30), <1>1, <1>2, <1>3, <1>4, <2>1 DEF IInv, StoreTypeOK, StoreTypes
<1>10. StoreTypeOK'
  BY <1>8, <1>9, Types, PTL
<1> QED
  BY <1>4, <1>6, <1>7, <1>10, Zenon DEF IInv

-----------------------------------------------------------------------------
(* A step of one consumer leaves the store and the others as they are.     *)
Others(c) ==
    /\ UNCHANGED <<store, past, changes, restarts>>
    /\ \A d \in Consumers \ {c} :
        /\ sub'[d] = sub[d] /\ inbox'[d] = inbox[d] /\ cache'[d] = cache[d]
        /\ error'[d] = error[d]

LEMMA OneConsumer ==
    ASSUME IInv, NEW c \in Consumers, Others(c), losses' \in Nat, ConsumerTypes',
           ConsumerOK(c)'
    PROVE  IInv'
<1>1. StoreTypes'
  BY Zenon DEF IInv, StoreTypeOK, StoreTypes, Others
<1>2. StoreTypeOK'
  BY <1>1, Types, PTL
<1>3. PastOK' /\ JournalOK'
  BY Zenon DEF IInv, PastOK, JournalOK, Others
<1>4. ASSUME NEW d \in Consumers PROVE ConsumerOK(d)'
  <2>1. CASE d = c
    BY <2>1, Zenon
  <2>2. CASE d # c
    <3>1. /\ sub'[d] = sub[d] /\ inbox'[d] = inbox[d] /\ cache'[d] = cache[d]
          /\ error'[d] = error[d] /\ store' = store /\ past' = past
      BY <2>2, Zenon DEF Others
    <3>2. ConsumerOK(d)
      BY Zenon DEF IInv
    <3> QED
      BY <3>1, <3>2, Zenon DEF ConsumerOK
  <2> QED
    BY <2>1, <2>2, Zenon
<1> QED
  BY <1>2, <1>3, <1>4, Zenon DEF IInv

(* What is known of one consumer before its step.                          *)
LEMMA ConsumerFields ==
    ASSUME IInv, NEW c \in Consumers
    PROVE  /\ ConsumerOK(c) /\ ConsumerTypes /\ losses \in Nat
           /\ sub[c].phase \in {"none", "opening", "live", "woken", "orphan"}
           /\ sub[c].cursor \in Stamps /\ sub[c].pending \in Seq(Events)
           /\ inbox[c] \in Seq(Events) /\ StampOf(cache[c]) \in Stamps
           /\ AtMost(StampOf(cache[c]), store)
<1>1. /\ ConsumerOK(c) /\ ConsumerTypes /\ losses \in Nat
      /\ \A r \in past : AtMost(r, store) /\ r \in Snapshots
      /\ cache[c] \in Snapshots \cup {Empty}
  BY Zenon DEF IInv, StoreTypeOK, ConsumerTypes, PastOK
<1>2. /\ sub[c].phase \in {"none", "opening", "live", "woken", "orphan"}
      /\ sub[c].cursor \in Stamps /\ sub[c].pending \in Seq(Events)
      /\ inbox[c] \in Seq(Events)
  BY <1>1, Zenon DEF ConsumerTypes
<1>3. StampOf(cache[c]) \in Stamps
  BY <1>1 DEF StampOf, Stamps, Snapshots, Empty
<1>4. AtMost(StampOf(cache[c]), store)
  <2>1. CASE cache[c] = Empty
    BY <2>1, StoreFields DEF IInv, StampOf, Empty, AtMost
  <2>2. CASE cache[c] \in past
    BY <1>1, <2>2, Zenon DEF StampOf, AtMost
  <2> QED
    BY <1>1, <2>1, <2>2, Zenon DEF ConsumerOK
<1> QED
  BY <1>1, <1>2, <1>3, <1>4, Zenon

(* Steps that change one subscription and nothing its events depend on.    *)
LEMMA SubscriptionStep ==
    ASSUME IInv, NEW c \in Consumers, NEW new,
           sub' = [sub EXCEPT ![c] = new],
           new \in [phase : {"none", "opening", "live", "woken", "orphan"},
                    cursor : Stamps, pending : Seq(Events)],
           unseen' \in [Consumers -> BOOLEAN],
           UNCHANGED <<store, inbox, cache, error, past, changes, restarts, losses>>,
           new.phase # "none" =>
               /\ new.cursor = Last(cache[c], inbox[c])
               /\ AtMost(new.cursor, store)
               /\ Chain(past, new.cursor, new.pending)
    PROVE  IInv'
<1>1. ConsumerTypes /\ ConsumerOK(c) /\ losses \in Nat
  BY ConsumerFields, Zenon
<1>2. sub'[c] = new /\ \A d \in Consumers \ {c} : sub'[d] = sub[d]
  BY <1>1, Zenon DEF ConsumerTypes
<1>3. ConsumerTypes'
  BY <1>1, Zenon DEF ConsumerTypes
<1>4. Others(c)
  BY <1>2, Zenon DEF Others
<1>5. ConsumerOK(c)'
  BY <1>1, <1>2, Zenon DEF ConsumerOK
<1> QED
  BY <1>1, <1>3, <1>4, <1>5, OneConsumer, Zenon

LEMMA SubscribeChangesIInv ==
    ASSUME IInv, NEW c \in Consumers, SubscribeChanges(c)
    PROVE  IInv'
<1> DEFINE new == [phase |-> "opening", cursor |-> StampOf(cache[c]), pending |-> << >>]
<1>1. /\ sub' = [sub EXCEPT ![c] = new] /\ inbox[c] = << >>
      /\ unseen' = [unseen EXCEPT ![c] = FALSE]
      /\ UNCHANGED <<store, inbox, cache, error, past, changes, restarts, losses>>
  BY Zenon DEF SubscribeChanges
<1>2. ConsumerTypes /\ StampOf(cache[c]) \in Stamps /\ AtMost(StampOf(cache[c]), store)
  BY ConsumerFields, Zenon
<1>3. unseen' \in [Consumers -> BOOLEAN]
  BY <1>1, <1>2, Zenon DEF ConsumerTypes
<1>4. new \in [phase : {"none", "opening", "live", "woken", "orphan"},
               cursor : Stamps, pending : Seq(Events)]
  BY <1>2
<1>5. /\ new.cursor = StampOf(cache[c]) /\ new.pending = << >>
      /\ Last(cache[c], inbox[c]) = StampOf(cache[c])
  BY <1>1, Zenon DEF Last
<1>6. Chain(past, new.cursor, new.pending)
  BY <1>5 DEF Chain
<1> HIDE DEF new
<1> QED
  BY <1>1, <1>2, <1>3, <1>4, <1>5, <1>6, SubscriptionStep, Zenon

(* SubscribeCollect and Collect: the pending events continue the chain.    *)
LEMMA CollectIInv ==
    ASSUME IInv, NEW c \in Consumers, SubscribeCollect(c) \/ Collect(c)
    PROVE  IInv'
<1> DEFINE e == EventsAfter(sub[c].cursor)
           new == [sub[c] EXCEPT !.phase = "live", !.pending = e]
<1>1. /\ ConsumerOK(c) /\ ConsumerTypes /\ sub[c].cursor \in Stamps
  BY ConsumerFields, Zenon
<1>2. /\ sub[c].phase # "none"
      /\ UNCHANGED <<store, unseen, inbox, cache, error, past, changes, restarts, losses>>
      /\ sub' = [sub EXCEPT ![c].phase = "live", ![c].pending = e]
  BY Zenon DEF SubscribeCollect, Collect
<1>3. sub' = [sub EXCEPT ![c] = new]
  <2>1. sub[c] \in [phase : {"none", "opening", "live", "woken", "orphan"},
                     cursor : Stamps, pending : Seq(Events)]
    BY <1>1, Zenon DEF ConsumerTypes
  <2> HIDE DEF e
  <2> QED
    BY <1>1, <1>2, <2>1, Zenon DEF ConsumerTypes
<1>4. /\ sub[c].cursor = Last(cache[c], inbox[c]) /\ AtMost(sub[c].cursor, store)
  BY <1>1, <1>2, Zenon DEF ConsumerOK
<1>5. e \in Seq(Events) /\ Chain(past, sub[c].cursor, e)
  BY <1>1, <1>4, CatchUp, Zenon
<1> HIDE DEF e
<1>6. /\ new \in [phase : {"none", "opening", "live", "woken", "orphan"},
                  cursor : Stamps, pending : Seq(Events)]
      /\ new.cursor = sub[c].cursor /\ new.pending = e
  <2>1. sub[c] \in [phase : {"none", "opening", "live", "woken", "orphan"},
                     cursor : Stamps, pending : Seq(Events)]
    BY <1>1, Zenon DEF ConsumerTypes
  <2> QED
    BY <1>5, <2>1, Zenon
<1>7. unseen' \in [Consumers -> BOOLEAN]
  BY <1>1, <1>2, Zenon DEF ConsumerTypes
<1> HIDE DEF new
<1> QED
  BY <1>2, <1>3, <1>4, <1>5, <1>6, <1>7, SubscriptionStep, Zenon

LEMMA WakeIInv ==
    ASSUME IInv, NEW c \in Consumers, Wake(c)
    PROVE  IInv'
<1> DEFINE new == [sub[c] EXCEPT !.phase = "woken"]
<1>1. /\ ConsumerOK(c) /\ ConsumerTypes
  BY ConsumerFields, Zenon
<1>2. /\ sub[c].phase # "none" /\ sub' = [sub EXCEPT ![c] = new]
      /\ unseen' = [unseen EXCEPT ![c] = FALSE]
      /\ UNCHANGED <<store, inbox, cache, error, past, changes, restarts, losses>>
  BY Zenon DEF Wake
<1>3. unseen' \in [Consumers -> BOOLEAN]
  BY <1>1, <1>2, Zenon DEF ConsumerTypes
<1>4. sub[c] \in [phase : {"none", "opening", "live", "woken", "orphan"},
                   cursor : Stamps, pending : Seq(Events)]
  BY <1>1, Zenon DEF ConsumerTypes
<1>5. /\ new \in [phase : {"none", "opening", "live", "woken", "orphan"},
                  cursor : Stamps, pending : Seq(Events)]
      /\ new.cursor = sub[c].cursor /\ new.pending = sub[c].pending
  BY <1>4, Zenon
<1> HIDE DEF new
<1>6. /\ new.cursor = Last(cache[c], inbox[c])
      /\ AtMost(new.cursor, store)
      /\ Chain(past, new.cursor, new.pending)
  BY <1>1, <1>2, <1>5, Zenon DEF ConsumerOK
<1> QED
  BY <1>2, <1>3, <1>5, <1>6, SubscriptionStep, Zenon

LEMMA EndIInv ==
    ASSUME IInv, NEW c \in Consumers, End(c)
    PROVE  IInv'
<1>1. /\ ConsumerTypes
  BY ConsumerFields, Zenon
<1>2. /\ sub' = [sub EXCEPT ![c] = NoSubscription]
      /\ UNCHANGED <<store, unseen, inbox, cache, error, past, changes, restarts, losses>>
  BY Zenon DEF End
<1>3. unseen' \in [Consumers -> BOOLEAN]
  BY <1>1, <1>2, Zenon DEF ConsumerTypes
<1>4. /\ NoSubscription \in [phase : {"none", "opening", "live", "woken", "orphan"},
                             cursor : Stamps, pending : Seq(Events)]
      /\ NoSubscription.phase = "none"
  BY DEF NoSubscription, Stamps, Empty
<1> QED
  BY <1>2, <1>3, <1>4, SubscriptionStep, Zenon

LEMMA LoseIInv ==
    ASSUME IInv, NEW c \in Consumers, Lose(c)
    PROVE  IInv'
<1>1. /\ ConsumerTypes /\ ConsumerOK(c) /\ losses \in Nat
  BY ConsumerFields, Zenon
<1>2. /\ sub' = [sub EXCEPT ![c] = NoSubscription]
      /\ inbox' = [inbox EXCEPT ![c] = << >>] /\ losses' = losses + 1
      /\ UNCHANGED <<store, unseen, cache, error, past, changes, restarts>>
  BY Zenon DEF Lose
<1>3. /\ NoSubscription \in [phase : {"none", "opening", "live", "woken", "orphan"},
                             cursor : Stamps, pending : Seq(Events)]
      /\ NoSubscription.phase = "none"
  BY DEF NoSubscription, Stamps, Empty
<1>4. /\ sub'[c] = NoSubscription /\ inbox'[c] = << >>
      /\ \A d \in Consumers \ {c} : sub'[d] = sub[d] /\ inbox'[d] = inbox[d]
  BY <1>1, <1>2, Zenon DEF ConsumerTypes
<1>5. ConsumerTypes'
  <2>1. << >> \in Seq(Events) /\ Len(<< >>) <= Window
    BY StoreAssumption
  <2> QED
    BY <1>1, <1>2, <1>3, <2>1, Zenon DEF ConsumerTypes
<1>6. Others(c)
  BY <1>2, <1>4, Zenon DEF Others
<1>7. Chain(past, cache[c], << >>)
  BY DEF Chain
<1>8. ConsumerOK(c)'
  BY <1>1, <1>2, <1>3, <1>4, <1>7, Zenon DEF ConsumerOK
<1> QED
  BY <1>1, <1>2, <1>5, <1>6, <1>8, OneConsumer

LEMMA ReceiveIInv ==
    ASSUME IInv, NEW c \in Consumers, Receive(c)
    PROVE  IInv'
<1> DEFINE p == sub[c].pending
           e == Head(p)
           w == Append(inbox[c], e)
<1>1. /\ ConsumerTypes /\ ConsumerOK(c) /\ losses \in Nat /\ p \in Seq(Events)
      /\ inbox[c] \in Seq(Events) /\ sub[c].cursor \in Stamps
  BY ConsumerFields, Zenon
<1>2. /\ sub[c].phase # "none" /\ p # << >> /\ Len(inbox[c]) < Window
      /\ sub' = [sub EXCEPT ![c].cursor = StampOf(e), ![c].pending = Tail(@)]
      /\ inbox' = [inbox EXCEPT ![c] = w]
      /\ UNCHANGED <<store, unseen, cache, error, past, changes, restarts, losses>>
  BY Zenon DEF Receive
<1>3. /\ sub[c].cursor = Last(cache[c], inbox[c])
      /\ Chain(past, cache[c], inbox[c]) /\ Chain(past, sub[c].cursor, p)
  BY <1>1, <1>2, Zenon DEF ConsumerOK
<1>4. /\ e \in Events /\ e = p[1] /\ 1 \in 1 .. Len(p) /\ Tail(p) \in Seq(Events)
  BY <1>1, <1>2
<1>5. EventOK(past, e) /\ Follows(sub[c].cursor, e)
  BY <1>2, <1>3, <1>4, Zenon DEF Chain
<1>6. Chain(past, cache[c], w) /\ Last(cache[c], w) = StampOf(e)
  BY SMTT(30), <1>1, <1>3, <1>4, <1>5, ChainAppend
<1>7. Chain(past, StampOf(e), Tail(p))
  <2>1. StampOf(StampOf(e)) = StampOf(Head(p))
    BY Zenon DEF StampOf
  <2> QED
    BY <1>1, <1>2, <1>3, <2>1, ChainTail, Zenon
<1>8. StampOf(e) \in Stamps
  BY <1>4, EventFields, Zenon
<1>9. AtMost(StampOf(e), store)
  <2>1. \A r \in past : AtMost(r, store)
    BY Zenon DEF IInv, PastOK
  <2>2. \E r \in past : r.generation = e.generation /\ r.version = e.version
    BY <1>4, <1>5, EventFields, Zenon DEF EventOK, Explains, State
  <2> QED
    BY <2>1, <2>2, Zenon DEF AtMost, StampOf
<1>10. /\ sub'[c].cursor = StampOf(e) /\ sub'[c].pending = Tail(p)
       /\ inbox'[c] = w
       /\ \A d \in Consumers \ {c} : sub'[d] = sub[d] /\ inbox'[d] = inbox[d]
  <2>1. sub[c] \in [phase : {"none", "opening", "live", "woken", "orphan"},
                     cursor : Stamps, pending : Seq(Events)]
    BY <1>1, Zenon DEF ConsumerTypes
  <2> HIDE DEF e, w
  <2> QED
    BY <1>1, <1>2, <2>1, Zenon DEF ConsumerTypes
<1>11. w \in Seq(Events) /\ Len(w) <= Window
  BY <1>1, <1>2, <1>4, StoreAssumption
<1>12. ConsumerTypes'
  <2> HIDE DEF e, w
  <2>1. sub' \in [Consumers -> [phase : {"none", "opening", "live", "woken", "orphan"},
                                cursor : Stamps, pending : Seq(Events)]]
    <3> DEFINE new == [sub[c] EXCEPT !.cursor = StampOf(e), !.pending = Tail(p)]
    <3>1. sub[c] \in [phase : {"none", "opening", "live", "woken", "orphan"},
                       cursor : Stamps, pending : Seq(Events)]
      BY <1>1, Zenon DEF ConsumerTypes
    <3>2. sub' = [sub EXCEPT ![c] = new]
      BY <1>1, <1>2, <3>1, Zenon DEF ConsumerTypes
    <3>3. new \in [phase : {"none", "opening", "live", "woken", "orphan"},
                   cursor : Stamps, pending : Seq(Events)]
      BY <1>4, <1>8, <3>1, Zenon
    <3> HIDE DEF new
    <3> QED
      BY <1>1, <3>2, <3>3, Zenon DEF ConsumerTypes
  <2> QED
    BY <1>1, <1>2, <1>11, <2>1, Zenon DEF ConsumerTypes
<1>13. Others(c)
  BY <1>2, <1>10, Zenon DEF Others
<1>14. ConsumerOK(c)'
  <2> HIDE DEF e, w, p
  <2> QED
    BY <1>1, <1>2, <1>6, <1>7, <1>9, <1>10, Zenon DEF ConsumerOK
<1> QED
  BY <1>1, <1>2, <1>12, <1>13, <1>14, OneConsumer, Zenon

(* An event that follows what the cache holds is accepted, and takes the   *)
(* cache to the state of the past that has the event's stamp.              *)
LEMMA CacheMoves ==
    ASSUME IInv, NEW x \in Snapshots \cup {Empty}, x = Empty \/ x \in past,
           NEW e \in Events, EventOK(past, e), Follows(x, e)
    PROVE  /\ CacheError(x, e) = "none"
           /\ CacheAfter(x, e) \in past
           /\ Earlier(x, CacheAfter(x, e))
           /\ StampOf(CacheAfter(x, e)) = StampOf(e)
<1>1. /\ e.generation \in Nat \ {0} /\ e.version \in Nat
      /\ e.kind \in {"snapshot", "mutation"}
  BY EventFields, Zenon
<1>a. x \in Snapshots => x.generation \in Nat \ {0} /\ x.version \in Nat
  BY Zenon DEF Snapshots
<1>b. Empty.generation = 0 /\ Empty.version = 0
  BY Zenon DEF Empty
<1>c. past \subseteq Snapshots
  BY StoreFields, Zenon DEF IInv
<1>2. /\ x.generation \in Nat /\ x.version \in Nat /\ (x = Empty => x.generation = 0)
      /\ past \subseteq Snapshots
  BY <1>a, <1>b, <1>c
<1>3. CASE e.kind = "snapshot"
  <2>1. Earlier(x, e) /\ State(e) \in past
    BY <1>3, Zenon DEF Follows, EventOK
  <2>2. CacheError(x, e) = "none"
    BY <1>3, Zenon DEF CacheError
  <2>3. ~(x.generation = e.generation /\ e.version <= x.version)
    BY <1>1, <1>2, <2>1 DEF Earlier
  <2>4. CacheAfter(x, e) = State(e)
    BY <1>3, <2>2, <2>3, Zenon DEF CacheAfter, State
  <2>5. Earlier(x, State(e)) /\ StampOf(State(e)) = StampOf(e)
    BY <2>1, Zenon DEF Earlier, State, StampOf
  <2> QED
    BY <2>1, <2>2, <2>4, <2>5, Zenon
<1>4. CASE e.kind = "mutation"
  <2>1. /\ x.generation = e.generation /\ x.version + 1 = e.version
        /\ Explains(past, e.generation, e.version, e.mutation)
    BY <1>4, Zenon DEF Follows, EventOK
  <2>2. x # Empty /\ x \in past
    BY <1>1, <1>2, <2>1, Zenon
  <2>3. CacheError(x, e) = "none"
    BY <1>1, <1>2, <1>4, <2>1, <2>2 DEF CacheError
  <2>4. ~(e.version <= x.version)
    BY <1>1, <1>2, <2>1
  <2>5. CacheAfter(x, e) = [generation |-> e.generation, version |-> e.version,
                            value |-> Reduce(x.value, e.mutation)]
    BY <1>4, <2>3, <2>4, Zenon DEF CacheAfter
  <2>6. PICK s \in past : s.generation = e.generation /\ s.version = e.version
    BY <2>1, Zenon DEF Explains
  <2>7. s.value = Reduce(x.value, e.mutation)
    BY <2>1, <2>2, <2>6, Zenon DEF Explains
  <2>8. s = [generation |-> e.generation, version |-> e.version,
             value |-> Reduce(x.value, e.mutation)]
    BY <1>2, <2>6, <2>7, Zenon DEF Snapshots
  <2>9. Earlier(x, s) /\ StampOf(s) = StampOf(e)
    BY <1>1, <1>2, <2>1, <2>6 DEF Earlier, StampOf
  <2> QED
    BY <2>3, <2>5, <2>6, <2>8, <2>9, Zenon
<1> QED
  BY <1>1, <1>3, <1>4, Zenon

LEMMA CacheApplyIInv ==
    ASSUME IInv, NEW c \in Consumers, CacheApply(c)
    PROVE  /\ IInv' /\ cache'[c] \in past /\ Earlier(cache[c], cache'[c])
           /\ cache' = [cache EXCEPT ![c] = cache'[c]]
<1> DEFINE q == inbox[c]
           e == Head(q)
           y == CacheAfter(cache[c], e)
<1>1. /\ ConsumerTypes /\ ConsumerOK(c) /\ losses \in Nat /\ q \in Seq(Events)
      /\ sub[c].cursor \in Stamps /\ sub[c].pending \in Seq(Events)
      /\ cache[c] \in Snapshots \cup {Empty}
  BY ConsumerFields, Zenon DEF ConsumerTypes
<1>2. /\ q # << >> /\ inbox' = [inbox EXCEPT ![c] = Tail(q)]
      /\ cache' = [cache EXCEPT ![c] = y]
      /\ error' = [error EXCEPT ![c] = CacheError(cache[c], e)]
      /\ UNCHANGED <<store, sub, unseen, past, changes, restarts, losses>>
  BY Zenon DEF CacheApply
<1>3. /\ e \in Events /\ e = q[1] /\ 1 \in 1 .. Len(q) /\ Tail(q) \in Seq(Events)
      /\ Len(Tail(q)) = Len(q) - 1 /\ Len(q) \in Nat
  BY <1>1, <1>2
<1>4. Chain(past, cache[c], q) /\ (cache[c] = Empty \/ cache[c] \in past)
  BY <1>1, Zenon DEF ConsumerOK
<1>5. EventOK(past, e) /\ Follows(cache[c], e)
  BY <1>2, <1>3, <1>4, Zenon DEF Chain
<1>6. /\ CacheError(cache[c], e) = "none" /\ y \in past
      /\ Earlier(cache[c], y) /\ StampOf(y) = StampOf(e)
  BY <1>1, <1>3, <1>4, <1>5, CacheMoves, Zenon
<1>7. Chain(past, y, Tail(q)) /\ Last(y, Tail(q)) = Last(cache[c], q)
  BY <1>1, <1>2, <1>4, <1>6, ChainTail
<1>8. past \subseteq Snapshots
  BY StoreFields, Zenon DEF IInv
<1> HIDE DEF y, e
<1>9. /\ cache'[c] = y /\ inbox'[c] = Tail(q) /\ error'[c] = "none"
      /\ \A d \in Consumers \ {c} :
            cache'[d] = cache[d] /\ inbox'[d] = inbox[d] /\ error'[d] = error[d]
  BY <1>1, <1>2, <1>6, Zenon DEF ConsumerTypes
<1>10. ConsumerTypes'
  <2>1. Len(q) <= Window
    BY <1>1, Zenon DEF ConsumerTypes
  <2>2. Len(Tail(q)) <= Window
    BY <1>3, <2>1, StoreAssumption
  <2>3. /\ cache' \in [Consumers -> Snapshots \cup {Empty}]
        /\ error' \in [Consumers -> {"none", "MissingSnapshot", "GenerationMismatch", "VersionGap"}]
    BY <1>1, <1>2, <1>6, <1>8, Zenon DEF ConsumerTypes
  <2>4. /\ inbox' \in [Consumers -> Seq(Events)]
        /\ \A d \in Consumers : Len(inbox'[d]) <= Window
    BY <1>1, <1>2, <1>3, <1>9, <2>2, Zenon DEF ConsumerTypes
  <2> QED
    BY <1>1, <1>2, <2>3, <2>4, Zenon DEF ConsumerTypes
<1>11. Others(c)
  BY <1>2, <1>9, Zenon DEF Others
<1>12. ConsumerOK(c)'
  <2> HIDE DEF q
  <2>1. sub'[c] = sub[c] /\ past' = past /\ store' = store
    BY <1>2, Zenon
  <2>2. sub[c].phase # "none" =>
            /\ sub[c].cursor = Last(cache[c], q)
            /\ AtMost(sub[c].cursor, store)
            /\ Chain(past, sub[c].cursor, sub[c].pending)
    BY <1>1, Zenon DEF ConsumerOK, q
  <2> QED
    BY <1>6, <1>7, <1>9, <2>1, <2>2, Zenon DEF ConsumerOK
<1>13. IInv'
  BY <1>1, <1>2, <1>10, <1>11, <1>12, OneConsumer, Zenon
<1> QED
  BY <1>2, <1>6, <1>9, <1>13, Zenon

-----------------------------------------------------------------------------
LEMMA NextIInv == IInv /\ [Next]_vars => IInv'
<1> SUFFICES ASSUME IInv, [Next]_vars PROVE IInv'
  BY Zenon
<1>1. CASE UNCHANGED vars
  BY <1>1, Zenon DEF vars, IInv, StoreTypeOK, PastOK, JournalOK, ConsumerOK
<1>2. ASSUME NEW m \in Mutations, Apply(m) PROVE IInv'
  BY <1>2, ApplyIInv, Zenon
<1>3. ASSUME NEW v \in Initial, Restart(v) PROVE IInv'
  BY <1>3, RestartIInv, Zenon
<1>4. ASSUME NEW c \in Consumers, ConsumerStep(c) \/ Lose(c) PROVE IInv'
  BY <1>4, SubscribeChangesIInv, CollectIInv, ReceiveIInv, WakeIInv, EndIInv,
     CacheApplyIInv, LoseIInv, Zenon DEF ConsumerStep
<1> QED
  BY <1>1, <1>2, <1>3, <1>4, Zenon DEF Next

(* The invariant holds in every reachable state of tascarrel-store, for    *)
(* any number of consumers and any limits.                                 *)
THEOREM StoreInvariant == Spec => []IInv
<1>1. Init => IInv
  BY InitIInv, Zenon
<1>2. IInv /\ [Next]_vars => IInv'
  BY NextIInv, Zenon
<1> QED
  BY <1>1, <1>2, PTL DEF Spec

(* Cache::apply never returns a CacheError for events of one subscription  *)
(* at a time.                                                              *)
THEOREM CacheNeverRefuses == Spec => []NoCacheError
<1>1. IInv => NoCacheError
  BY Zenon DEF IInv, ConsumerOK, NoCacheError
<1> QED
  BY <1>1, StoreInvariant, PTL

(* The store and its caches implement StoreReplica: a cache only ever      *)
(* holds states the store was in, and only moves forward through them.     *)
THEOREM StoreImplementsReplica == Spec => ReplicaSpec
<1>1. Init => Replica!Init
  <2> SUFFICES ASSUME Init PROVE Replica!Init
    BY Zenon
  <2>1. past = {State(store)} /\ cache = [c \in Consumers |-> Empty]
    BY Zenon DEF Init
  <2>2. past \subseteq Snapshots
    BY InitIInv, StoreFields, Zenon DEF IInv
  <2> QED
    BY <2>1, <2>2, Zenon DEF Replica!Init, Replica!States, Replica!Empty, Snapshots, Empty
<1>2. IInv /\ [Next]_vars => [Replica!Next]_<<past, cache>>
  <2> SUFFICES ASSUME IInv, [Next]_vars, ~(UNCHANGED <<past, cache>>) PROVE Replica!Next
    BY Zenon
  <2>1. ASSUME Earlier(store, State(store')), State(store') \in Snapshots,
               past' = past \cup {State(store')}, cache' = cache
        PROVE  Replica!Next
    <3>1. /\ store.generation \in Nat /\ store.version \in Nat
          /\ \A r \in past : /\ AtMost(r, store)
                             /\ r.generation \in Nat /\ r.version \in Nat
      BY StoreFields, Zenon DEF IInv, PastOK, Snapshots
    <3>2. /\ State(store').generation \in Nat /\ State(store').version \in Nat
      BY <2>1, Zenon DEF Snapshots
    <3>3. \A r \in past : Earlier(r, State(store'))
      <4> DEFINE t == State(store')
      <4> HIDE DEF t
      <4>1. Earlier(store, t) /\ t.generation \in Nat /\ t.version \in Nat
        BY <2>1, <3>2, Zenon DEF t
      <4>2. \A r \in past : Earlier(r, t)
        BY <3>1, <4>1 DEF AtMost, Earlier
      <4> QED
        BY <4>2, Zenon DEF t
    <3>4. Replica!Change
      BY <2>1, <3>3, Zenon DEF Replica!Change, Replica!Before, Replica!States, Snapshots, Earlier
    <3> QED
      BY <3>4, Zenon DEF Replica!Next
  <2>2. ASSUME NEW m \in Mutations, Apply(m) PROVE Replica!Next
    BY <2>1, <2>2, ApplyIInv, Zenon DEF Apply
  <2>3. ASSUME NEW v \in Initial, Restart(v) PROVE Replica!Next
    BY <2>1, <2>3, RestartIInv, Zenon DEF Restart
  <2>4. ASSUME NEW c \in Consumers, CacheApply(c) PROVE Replica!Next
    <3>1. /\ cache'[c] \in past /\ Earlier(cache[c], cache'[c])
          /\ cache' = [cache EXCEPT ![c] = cache'[c]] /\ past' = past
      BY <2>4, CacheApplyIInv, Zenon DEF CacheApply
    <3>2. Replica!Advance(c)
      BY <3>1, Zenon DEF Replica!Advance, Replica!Before, Earlier
    <3> QED
      BY <3>2, Zenon DEF Replica!Next
  <2>5. ASSUME NEW c \in Consumers, ConsumerStep(c) \/ Lose(c), ~CacheApply(c)
        PROVE  UNCHANGED <<past, cache>>
    BY <2>5, Zenon DEF ConsumerStep, SubscribeChanges, SubscribeCollect, Receive, Wake,
       Collect, End, Lose
  <2>6. UNCHANGED vars => UNCHANGED <<past, cache>>
    BY Zenon DEF vars
  <2> QED
    BY <2>2, <2>3, <2>4, <2>5, <2>6, Zenon DEF Next
<1> QED
  BY <1>1, <1>2, StoreInvariant, PTL DEF Spec, ReplicaSpec, Replica!Spec

-----------------------------------------------------------------------------
(***************************************************************************)
(* Synchronization, for every buffer capacity and every number of stale    *)
(* probes: a peer that is in framed mode writes to an established          *)
(* direction, and no peer reads a frame before a probe.                    *)
(***************************************************************************)

\* The peer has not read a probe yet.
Unsynchronized(p) == pc[p] \in {"write", "poll", "wait"}

PathInv ==
    \A p \in Sides : /\ pc[p] = "reply" => owed[p]
                     /\ pc[p] = "framed" => open[p]

HeadInv ==
    \A p \in Sides :
        Unsynchronized(p) =>
            /\ stream[OtherSide(p)] = <<>> \/ Head(stream[OtherSide(p)]) = "probe"
            /\ pc[OtherSide(p)] = "framed" => stream[OtherSide(p)] # <<>>

ProbeInv == ProbeTypeOK /\ PathInv /\ HeadInv /\ NoFrameBeforeSynchronization

(* Writing one byte keeps a direction well formed: its contents remain a   *)
(* bounded sequence whose head does not change once it has one.            *)
LEMMA AppendHead ==
    ASSUME NEW S, NEW s \in Seq(S), NEW e \in S
    PROVE  /\ Append(s, e) \in Seq(S)
           /\ Append(s, e) # <<>>
           /\ Len(Append(s, e)) = Len(s) + 1
           /\ s = <<>> => Head(Append(s, e)) = e
           /\ s # <<>> => Head(Append(s, e)) = Head(s)
  OBVIOUS

LEMMA TailTyped ==
    ASSUME NEW S, NEW s \in Seq(S), s # <<>>
    PROVE  /\ Head(s) \in S
           /\ Tail(s) \in Seq(S)
           /\ Len(Tail(s)) = Len(s) - 1
  OBVIOUS

LEMMA ProbeInvInit == ProbeInit => ProbeInv
<1> SUFFICES ASSUME ProbeInit PROVE ProbeInv
  BY Zenon
<1>1. PICK n \in [Sides -> 0 .. StaleProbes] :
        stream = [p \in Sides |-> [i \in 1 .. n[p] |-> "probe"]]
  BY Zenon DEF ProbeInit
<1>2. \A p \in Sides : /\ stream[p] \in Seq({"probe", "frame"})
                       /\ Len(stream[p]) = n[p]
                       /\ stream[p] # <<>> => Head(stream[p]) = "probe"
  BY <1>1, ProbeAssumption
<1>3. ProbeTypeOK
  BY <1>1, <1>2, ProbeAssumption DEF ProbeInit, ProbeTypeOK
<1>4. QED
  BY <1>2, <1>3, Zenon DEF ProbeInit, ProbeInv, PathInv, HeadInv, NoFrameBeforeSynchronization,
                    Sides, OtherSide

(* A write appends to one direction, or loses the byte on a direction that *)
(* is not established; a reciprocal probe owed by the transport opens it.  *)
LEMMA WriteEffect ==
    ASSUME ProbeTypeOK, NEW p \in Sides, NEW byte \in {"probe", "frame"},
           WriteByte(p, byte)
    PROVE  /\ stream' \in [Sides -> Seq({"probe", "frame"})]
           /\ \A q \in Sides : Len(stream'[q]) <= Capacity
           /\ open' \in [Sides -> BOOLEAN]
           /\ \A q \in Sides : open[q] => open'[q]
           /\ \A q \in Sides : q # p => stream'[q] = stream[q]
           /\ stream[p] # <<>> =>
                stream'[p] # <<>> /\ Head(stream'[p]) = Head(stream[p])
           /\ stream[p] = <<>> /\ stream'[p] # <<>> => Head(stream'[p]) = byte
           /\ byte = "probe" /\ owed[p] => open'[p] /\ stream'[p] # <<>>
<1>1. CASE open[p] \/ (byte = "probe" /\ owed[p])
  <2>1. /\ Len(stream[p]) < Capacity
        /\ stream' = [stream EXCEPT ![p] = Append(@, byte)]
        /\ open' = [open EXCEPT ![p] = TRUE]
    BY <1>1, Zenon DEF WriteByte
  <2>2. stream[p] \in Seq({"probe", "frame"})
    BY Zenon DEF ProbeTypeOK
  <2>3. /\ stream'[p] \in Seq({"probe", "frame"})
        /\ stream'[p] # <<>>
        /\ Len(stream'[p]) = Len(stream[p]) + 1
        /\ stream[p] = <<>> => Head(stream'[p]) = byte
        /\ stream[p] # <<>> => Head(stream'[p]) = Head(stream[p])
    <3>1. stream'[p] = Append(stream[p], byte)
      BY <2>1, Zenon DEF ProbeTypeOK
    <3>2. QED
      BY <2>2, <3>1, AppendHead
  <2>4. QED
    BY <2>1, <2>2, <2>3, ProbeAssumption DEF ProbeTypeOK
<1>2. CASE ~(open[p] \/ (byte = "probe" /\ owed[p]))
  BY <1>2, Zenon DEF WriteByte, ProbeTypeOK
<1>3. QED
  BY <1>1, <1>2, Zenon

(* A read takes the first byte of the direction the peer writes.           *)
LEMMA ReadEffect ==
    ASSUME ProbeTypeOK, NEW q \in Sides, stream[q] # <<>>,
           stream' = [stream EXCEPT ![q] = Tail(@)]
    PROVE  /\ stream' \in [Sides -> Seq({"probe", "frame"})]
           /\ \A r \in Sides : Len(stream'[r]) <= Capacity
           /\ \A r \in Sides : r # q => stream'[r] = stream[r]
<1>1. stream[q] \in Seq({"probe", "frame"})
  BY Zenon DEF ProbeTypeOK
<1>2. Tail(stream[q]) \in Seq({"probe", "frame"}) /\ Len(Tail(stream[q])) = Len(stream[q]) - 1
  BY <1>1, TailTyped, Zenon
<1>3. QED
  BY <1>1, <1>2, ProbeAssumption DEF ProbeTypeOK

LEMMA ProbeInvNext == ProbeInv /\ [ProbeNext]_probe_vars => ProbeInv'
<1> SUFFICES ASSUME ProbeInv, [ProbeNext]_probe_vars PROVE ProbeInv'
  BY Zenon
<1> USE DEF ProbeInv
<1>0. \A p \in Sides : OtherSide(p) \in Sides /\ OtherSide(p) # p /\ OtherSide(OtherSide(p)) = p
  BY Zenon DEF Sides, OtherSide
<1>1. ASSUME NEW p \in Sides, WriteProbe(p) PROVE ProbeInv'
  <2>1. WriteByte(p, "probe") /\ pc[p] = "write" /\ pc' = [pc EXCEPT ![p] = "poll"]
        /\ UNCHANGED <<owed, closed, sent>>
    BY <1>1, Zenon DEF WriteProbe
  <2>w. /\ stream' \in [Sides -> Seq({"probe", "frame"})] /\ open' \in [Sides -> BOOLEAN]
        /\ \A q \in Sides : Len(stream'[q]) <= Capacity /\ (open[q] => open'[q])
        /\ \A q \in Sides : q # p => stream'[q] = stream[q]
        /\ stream[p] # <<>> => stream'[p] # <<>> /\ Head(stream'[p]) = Head(stream[p])
        /\ stream[p] = <<>> /\ stream'[p] # <<>> => Head(stream'[p]) = "probe"
        /\ owed[p] => open'[p] /\ stream'[p] # <<>>
    BY <2>1, WriteEffect, Zenon
  <2>2. ProbeTypeOK'
    BY <2>1, <2>w, Zenon DEF ProbeTypeOK
  <2>b. PathInv'
    BY <2>1, <2>w, Zenon DEF ProbeTypeOK, PathInv
  <2>3. PathInv' /\ NoFrameBeforeSynchronization'
    BY <2>1, <2>b, <2>w, Zenon DEF ProbeTypeOK, NoFrameBeforeSynchronization
  <2>4. Unsynchronized(OtherSide(p)) => stream'[p] = <<>> \/ Head(stream'[p]) = "probe"
    BY <2>1, <1>0, <2>w, Zenon DEF HeadInv
  <2>5. stream'[OtherSide(p)] = stream[OtherSide(p)]
    BY <2>1, <1>0, <2>w, Zenon
  <2>6. pc'[p] = "poll" /\ pc'[OtherSide(p)] = pc[OtherSide(p)] /\ Unsynchronized(p)
    BY <2>1, <1>0, Zenon DEF ProbeTypeOK, Unsynchronized
  <2>7. HeadInv'
    BY <2>4, <2>5, <2>6, Zenon DEF HeadInv, Unsynchronized, Sides, OtherSide
  <2>8. QED
    BY <2>2, <2>3, <2>7, Zenon
<1>2. ASSUME NEW p \in Sides, Park(p) PROVE ProbeInv'
  BY <1>2, <1>0, Zenon DEF Park, ProbeTypeOK, PathInv, HeadInv, Unsynchronized,
                    NoFrameBeforeSynchronization
<1>3. ASSUME NEW p \in Sides, ProbeInterval(p) PROVE ProbeInv'
  BY <1>3, <1>0, Zenon DEF ProbeInterval, ProbeTypeOK, PathInv, HeadInv, Unsynchronized,
                    NoFrameBeforeSynchronization
<1>4. ASSUME NEW p \in Sides, ReadProbe(p) PROVE ProbeInv'
  <2>1. /\ Unsynchronized(p) /\ stream[OtherSide(p)] # <<>>
        /\ pc' = [pc EXCEPT ![p] = "reply"]
        /\ stream' = [stream EXCEPT ![OtherSide(p)] = Tail(@)]
        /\ owed' = [owed EXCEPT ![p] = TRUE]
        /\ UNCHANGED <<open, closed, sent>>
    BY <1>4, Zenon DEF ReadProbe, HeadInv, Unsynchronized
  <2>2. ProbeTypeOK'
    BY <2>1, <1>0, ReadEffect, Zenon DEF ProbeTypeOK
  <2>3. PathInv' /\ NoFrameBeforeSynchronization'
    BY <2>1, Zenon DEF ProbeTypeOK, PathInv, NoFrameBeforeSynchronization
  <2>4. stream'[p] = stream[p] /\ pc'[p] = "reply" /\ pc'[OtherSide(p)] = pc[OtherSide(p)]
    BY <2>1, <1>0, Zenon DEF ProbeTypeOK
  <2>5. HeadInv'
    BY <2>4, Zenon DEF HeadInv, Unsynchronized, Sides, OtherSide
  <2>6. QED
    BY <2>2, <2>3, <2>5, Zenon
<1>5. ASSUME NEW p \in Sides, WriteReply(p) PROVE ProbeInv'
  <2>1. WriteByte(p, "probe") /\ pc[p] = "reply" /\ pc' = [pc EXCEPT ![p] = "framed"]
        /\ UNCHANGED <<owed, closed, sent>>
    BY <1>5, Zenon DEF WriteReply
  <2>w. /\ stream' \in [Sides -> Seq({"probe", "frame"})] /\ open' \in [Sides -> BOOLEAN]
        /\ \A q \in Sides : Len(stream'[q]) <= Capacity /\ (open[q] => open'[q])
        /\ \A q \in Sides : q # p => stream'[q] = stream[q]
        /\ stream[p] # <<>> => stream'[p] # <<>> /\ Head(stream'[p]) = Head(stream[p])
        /\ stream[p] = <<>> /\ stream'[p] # <<>> => Head(stream'[p]) = "probe"
        /\ owed[p] => open'[p] /\ stream'[p] # <<>>
    BY <2>1, WriteEffect, Zenon
  <2>2. ProbeTypeOK'
    BY <2>1, <2>w, Zenon DEF ProbeTypeOK
  <2>b. PathInv'
    BY <2>1, <2>w, Zenon DEF ProbeTypeOK, PathInv
  <2>3. PathInv' /\ NoFrameBeforeSynchronization'
    BY <2>1, <2>b, <2>w, Zenon DEF ProbeTypeOK, NoFrameBeforeSynchronization
  <2>4. owed[p]
    BY <2>1, Zenon DEF PathInv
  <2>5. Unsynchronized(OtherSide(p)) => stream'[p] # <<>> /\ Head(stream'[p]) = "probe"
    BY <2>1, <2>4, <1>0, <2>w, Zenon DEF HeadInv
  <2>6. pc'[p] = "framed" /\ pc'[OtherSide(p)] = pc[OtherSide(p)]
    BY <2>1, <1>0, Zenon DEF ProbeTypeOK
  <2>7. HeadInv'
    BY <2>5, <2>6, Zenon DEF HeadInv, Unsynchronized, Sides, OtherSide
  <2>8. QED
    BY <2>2, <2>3, <2>7, Zenon
<1>6. ASSUME NEW p \in Sides, WriteFrame(p) PROVE ProbeInv'
  <2>1. WriteByte(p, "frame") /\ pc[p] = "framed" /\ sent[p] < MaxFrames
        /\ sent' = [sent EXCEPT ![p] = @ + 1]
        /\ UNCHANGED <<pc, owed, closed>>
    BY <1>6, Zenon DEF WriteFrame
  <2>w. /\ stream' \in [Sides -> Seq({"probe", "frame"})] /\ open' \in [Sides -> BOOLEAN]
        /\ \A q \in Sides : Len(stream'[q]) <= Capacity /\ (open[q] => open'[q])
        /\ \A q \in Sides : q # p => stream'[q] = stream[q]
        /\ stream[p] # <<>> => stream'[p] # <<>> /\ Head(stream'[p]) = Head(stream[p])
        /\ stream[p] = <<>> /\ stream'[p] # <<>> => Head(stream'[p]) = "frame"
    BY <2>1, WriteEffect, Zenon
  <2>a. sent' \in [Sides -> 0 .. MaxFrames]
    BY <2>1, ProbeAssumption DEF ProbeTypeOK
  <2>2. ProbeTypeOK'
    BY <2>1, <2>a, <2>w, Zenon DEF ProbeTypeOK
  <2>b. PathInv'
    BY <2>1, <2>w, Zenon DEF ProbeTypeOK, PathInv
  <2>3. PathInv' /\ NoFrameBeforeSynchronization'
    BY <2>1, <2>b, <2>w, Zenon DEF ProbeTypeOK, NoFrameBeforeSynchronization
  <2>4. Unsynchronized(OtherSide(p)) =>
          /\ stream[p] # <<>> /\ Head(stream[p]) = "probe"
          /\ stream'[p] # <<>> /\ Head(stream'[p]) = "probe"
    BY <2>1, <1>0, <2>w, Zenon DEF HeadInv
  <2>5. stream'[OtherSide(p)] = stream[OtherSide(p)]
    BY <2>1, <1>0, <2>w, Zenon
  <2>6. HeadInv'
    BY <2>1, <2>4, <2>5, <1>0, Zenon DEF HeadInv, Unsynchronized, Sides, OtherSide
  <2>7. QED
    BY <2>2, <2>3, <2>6, Zenon
<1>7. ASSUME NEW p \in Sides, ReadFrame(p) PROVE ProbeInv'
  <2>1. /\ pc[p] = "framed" /\ stream[OtherSide(p)] # <<>>
        /\ stream' = [stream EXCEPT ![OtherSide(p)] = Tail(@)]
        /\ UNCHANGED <<pc, open, owed, closed, sent>>
    BY <1>7, Zenon DEF ReadFrame, ProbeTypeOK
  <2>2. ProbeTypeOK'
    BY <2>1, <1>0, ReadEffect, Zenon DEF ProbeTypeOK
  <2>3. PathInv' /\ NoFrameBeforeSynchronization'
    BY <2>1, Zenon DEF PathInv, NoFrameBeforeSynchronization
  <2>4. ~Unsynchronized(p)
    BY <2>1, Zenon DEF Unsynchronized
  <2>5. stream'[p] = stream[p]
    BY <2>1, <1>0, Zenon DEF ProbeTypeOK
  <2>6. HeadInv'
    BY <2>1, <2>4, <2>5, <1>0, Zenon DEF HeadInv, Unsynchronized, Sides, OtherSide
  <2>7. QED
    BY <2>2, <2>3, <2>6, Zenon
<1>8. ASSUME NEW p \in Sides, TransportClosed(p) PROVE ProbeInv'
  BY <1>8, <1>0 DEF TransportClosed, ProbeTypeOK, PathInv, HeadInv, Unsynchronized,
                    NoFrameBeforeSynchronization
<1>9. ASSUME NEW p \in Sides, Close(p) PROVE ProbeInv'
  BY <1>9, <1>0, Zenon DEF Close, ProbeTypeOK, PathInv, HeadInv, Unsynchronized,
                    NoFrameBeforeSynchronization
<1>10. ASSUME NEW p \in Sides, Establish(p) PROVE ProbeInv'
  BY <1>10, <1>0, Zenon DEF Establish, ProbeTypeOK, PathInv, HeadInv, Unsynchronized,
                     NoFrameBeforeSynchronization
<1>11. CASE UNCHANGED probe_vars
  BY <1>11, Zenon DEF probe_vars, ProbeTypeOK, PathInv, HeadInv, Unsynchronized,
               NoFrameBeforeSynchronization
<1>12. QED
  BY <1>1, <1>2, <1>3, <1>4, <1>5, <1>6, <1>7, <1>8, <1>9, <1>10, <1>11, Zenon
     DEF ProbeNext, DriverStep

(* Synchronization is safe for every capacity and every left-over: the     *)
(* state is well typed, framed mode is entered only on an established      *)
(* direction, and the handshake never meets a non-probe byte               *)
(* (protocol.rs probe_handshake).                                          *)
THEOREM ProbeSafety ==
    ProbeSpec => [](ProbeTypeOK /\ FramedOnlyOnOpenPath /\ NoFrameBeforeSynchronization)
<1>1. ProbeInv => ProbeTypeOK /\ FramedOnlyOnOpenPath /\ NoFrameBeforeSynchronization
  BY Zenon DEF ProbeInv, PathInv, FramedOnlyOnOpenPath
<1>2. QED
  BY <1>1, ProbeInvInit, ProbeInvNext, PTL DEF ProbeSpec

-----------------------------------------------------------------------------
(***************************************************************************)
(* The writer's choice of frames, for every control_burst and any set of   *)
(* channels: no channel that has DATA to send is starved, and neither are  *)
(* control frames.                                                         *)
(*                                                                         *)
(* That no channel overtakes another twice needs the cursor: once j was    *)
(* sent ahead of i, i comes before j in the order that starts after the    *)
(* cursor, and keeps doing so until it is served (OvertakenInv).           *)
(***************************************************************************)
INSTANCE WellFoundedInduction

SchedulerType ==
    /\ queued \in BOOLEAN /\ control \subseteq Ids /\ data \subseteq Ids
    /\ data_cursor \in Nat
    /\ control_count \in 0 .. ControlBurst
    /\ overtaken \in [Ids -> [Ids -> Nat]]
    /\ controls_sent \in Nat /\ data_run \in Nat

\* ordered_states visits i before j when it starts after the cursor.
Before(cursor, i, j) ==
    \/ i > cursor /\ (j > cursor => i < j)
    \/ i <= cursor /\ j <= cursor /\ i < j

\* A channel that is not ready has not been overtaken; one that has been is next before
\* the channel that went ahead of it.
OvertakenInv ==
    \A i, j \in Ids :
        /\ overtaken[i][j] <= 1
        /\ i \notin data => overtaken[i][j] = 0
        /\ overtaken[i][j] = 1 => Before(data_cursor, i, j)

\* Control frames sent ahead of DATA are among those counted.
BurstInv == controls_sent <= control_count

\* DATA goes ahead of a control frame only right after a burst.
DataRunInv == data_run <= 1 /\ (data_run = 1 => control_count = 0)

SchedulerInv == SchedulerType /\ OvertakenInv /\ BurstInv /\ DataRunInv

-----------------------------------------------------------------------------
\* A set of naturals that is not empty has a least element.
LEMMA LeastOfNaturals ==
    ASSUME NEW S \in SUBSET Nat, S # {}
    PROVE  Least(S) \in S /\ \A y \in S : Least(S) <= y
<1>1. PICK x \in S : \A y \in S : ~(<<y, x>> \in OpToRel(<, Nat)) BY NatLessThanWellFounded, WFMin, Zenon
<1>2. ASSUME NEW y \in S PROVE x <= y
  <2>1. x \in Nat /\ y \in Nat BY Zenon
  <2>2. ASSUME y < x PROVE FALSE
    <3>1. <<y, x>> \in Nat \X Nat /\ <<y, x>>[1] < <<y, x>>[2] BY <2>1, <2>2, Zenon
    <3>2. <<y, x>> \in OpToRel(<, Nat) BY <3>1, Zenon DEF OpToRel
    <3> QED BY <1>1, <3>2, Zenon
  <2> QED BY <2>1, <2>2
<1>3. \E z \in S : \A y \in S : z <= y BY <1>2, Zenon
<1> QED BY <1>3, Zenon DEF Least

\* The least of two numbers.
LEMMA LeastOfTwo ==
    ASSUME NEW a \in Nat, NEW b \in Nat
    PROVE  Least({a, b}) = IF a <= b THEN a ELSE b
<1>1. Least({a, b}) \in {a, b} /\ Least({a, b}) <= a /\ Least({a, b}) <= b BY LeastOfNaturals, Zenon
<1> QED BY <1>1

\* ordered_states starts with a ready channel, and visits no ready one before it.
LEMMA FirstAfterIsFirst ==
    ASSUME NEW cursor \in Nat, NEW S \in SUBSET Nat, S # {}
    PROVE  /\ FirstAfter(cursor, S) \in S
           /\ \A i \in S : i # FirstAfter(cursor, S) => Before(cursor, FirstAfter(cursor, S), i)
<1> DEFINE after == {id \in S : id > cursor}
<1> DEFINE j == FirstAfter(cursor, S)
<1>1. CASE after # {}
  <2>1. j = Least(after) BY <1>1, Zenon DEF FirstAfter
  <2>2. Least(after) \in after /\ \A y \in after : Least(after) <= y BY <1>1, LeastOfNaturals, Zenon
  <2>3. j \in S /\ j > cursor BY <2>1, <2>2, Zenon
  <2> HIDE DEF j
  <2>4. ASSUME NEW i \in S, i # j, i > cursor PROVE j < i
    <3>1. i \in after BY <2>4, Zenon
    <3>2. j <= i BY <2>1, <2>2, <3>1, Zenon
    <3>3. i \in Nat /\ j \in Nat BY <2>3, Zenon
    <3> QED BY <2>4, <3>2, <3>3
  <2>5. \A i \in S : i # j => Before(cursor, j, i) BY <2>3, <2>4, Zenon DEF Before
  <2> QED BY <2>3, <2>5, Zenon DEF j
<1>2. CASE after = {}
  <2>1. j = Least(S) BY <1>2, Zenon DEF FirstAfter
  <2>2. Least(S) \in S /\ \A y \in S : Least(S) <= y BY LeastOfNaturals, Zenon
  <2>3. \A y \in S : y <= cursor BY <1>2
  <2> HIDE DEF j
  <2>4. j \in S /\ j \in Nat BY <2>1, <2>2, Zenon
  <2>5. ASSUME NEW i \in S, i # j PROVE Before(cursor, j, i)
    <3>1. i \in Nat /\ j <= i /\ i <= cursor /\ j <= cursor BY <2>1, <2>2, <2>3, <2>4, Zenon
    <3> QED BY <2>4, <2>5, <3>1 DEF Before
  <2> QED BY <2>4, <2>5, Zenon DEF j
<1> QED BY <1>1, <1>2, Zenon

\* select_frame: what each source tells about the others.
LEMMA SourceTells ==
    ASSUME NEW q \in BOOLEAN, NEW c, NEW d, NEW n \in Nat
    PROVE  /\ Source(q, c, d, n) = "data" => d # {} /\ (n >= ControlBurst \/ (~q /\ c = {}))
           /\ Source(q, c, d, n) \in {"queue", "control"} => d = {} \/ n < ControlBurst
           /\ Source(q, c, d, n) = "control" => c # {}
<1> DEFINE first(order) == order[Least({i \in 1 .. 3 : order[i].some})].name
<1> DEFINE Q == [name |-> "queue", some |-> q]
<1> DEFINE C == [name |-> "control", some |-> c # {}]
<1> DEFINE D == [name |-> "data", some |-> d # {}]
<1>0. n \in Nat /\ ControlBurst \in Nat BY BurstAssumption, Zenon
<1>1. CASE ~q /\ c = {} /\ d = {} BY <1>1, Zenon DEF Source
<1>2. CASE (q \/ c # {} \/ d # {}) /\ n >= ControlBurst
  <2> DEFINE order == <<D, Q, C>>
  <2> DEFINE S == {i \in 1 .. 3 : order[i].some}
  <2>1. Source(q, c, d, n) = order[Least(S)].name BY <1>2, Zenon DEF Source, force_data
  <2>a. S \in SUBSET Nat /\ S \subseteq 1 .. 3 OBVIOUS
  <2>b. (order[1].some <=> d # {}) /\ (order[2].some <=> q) /\ (order[3].some <=> c # {}) BY Zenon
  <2>c. 1 \in 1 .. 3 /\ 2 \in 1 .. 3 /\ 3 \in 1 .. 3 OBVIOUS
  <2>2. (1 \in S <=> d # {}) /\ (2 \in S <=> q) /\ (3 \in S <=> c # {}) BY <2>b, <2>c, Zenon
  <2>3. order[1].name = "data" /\ order[2].name = "queue" /\ order[3].name = "control" BY Zenon
  <2> HIDE DEF order, S
  <2>4. S # {} BY <1>2, <2>2, Zenon
  <2>5. Least(S) \in S /\ \A y \in S : Least(S) <= y BY <2>a, <2>4, LeastOfNaturals, Zenon
  <2>6. Least(S) \in {1, 2, 3}
    <3>1. Least(S) \in 1 .. 3 BY <2>a, <2>5, Zenon
    <3>2. \A m \in 1 .. 3 : m \in {1, 2, 3} OBVIOUS
    <3> QED BY <3>1, <3>2, Zenon
  <2>7. CASE Least(S) = 1 BY <1>2, <2>1, <2>2, <2>3, <2>5, <2>7, Zenon
  <2>8. CASE Least(S) = 2
    <3>1. d = {} BY <2>2, <2>5, <2>8
    <3> QED BY <2>1, <2>3, <2>8, <3>1, Zenon
  <2>9. CASE Least(S) = 3
    <3>1. d = {} /\ c # {} BY <2>2, <2>5, <2>9
    <3> QED BY <2>1, <2>3, <2>9, <3>1, Zenon
  <2> QED BY <2>6, <2>7, <2>8, <2>9, Zenon
<1>3. CASE (q \/ c # {} \/ d # {}) /\ ~(n >= ControlBurst)
  <2> DEFINE order == <<Q, C, D>>
  <2> DEFINE S == {i \in 1 .. 3 : order[i].some}
  <2>1. Source(q, c, d, n) = order[Least(S)].name BY <1>3, Zenon DEF Source, force_data
  <2>a. S \in SUBSET Nat /\ S \subseteq 1 .. 3 OBVIOUS
  <2>b. (order[1].some <=> q) /\ (order[2].some <=> c # {}) /\ (order[3].some <=> d # {}) BY Zenon
  <2>c. 1 \in 1 .. 3 /\ 2 \in 1 .. 3 /\ 3 \in 1 .. 3 OBVIOUS
  <2>2. (1 \in S <=> q) /\ (2 \in S <=> c # {}) /\ (3 \in S <=> d # {}) BY <2>b, <2>c, Zenon
  <2>3. order[1].name = "queue" /\ order[2].name = "control" /\ order[3].name = "data" BY Zenon
  <2> HIDE DEF order, S
  <2>4. S # {} BY <1>3, <2>2, Zenon
  <2>5. Least(S) \in S /\ \A y \in S : Least(S) <= y BY <2>a, <2>4, LeastOfNaturals, Zenon
  <2>6. Least(S) \in {1, 2, 3}
    <3>1. Least(S) \in 1 .. 3 BY <2>a, <2>5, Zenon
    <3>2. \A m \in 1 .. 3 : m \in {1, 2, 3} OBVIOUS
    <3> QED BY <3>1, <3>2, Zenon
  <2>7. n < ControlBurst BY <1>0, <1>3
  <2>8. CASE Least(S) = 1 BY <2>1, <2>3, <2>7, <2>8, Zenon
  <2>9. CASE Least(S) = 2
    <3>1. c # {} BY <2>2, <2>5, <2>9, Zenon
    <3> QED BY <2>1, <2>3, <2>7, <2>9, <3>1, Zenon
  <2>10. CASE Least(S) = 3
    <3>1. d # {} /\ ~q /\ c = {} BY <2>2, <2>5, <2>10
    <3> QED BY <2>1, <2>3, <2>10, <3>1, Zenon
  <2> QED BY <2>6, <2>8, <2>9, <2>10, Zenon
<1> QED BY <1>1, <1>2, <1>3, Zenon

-----------------------------------------------------------------------------
\* The writer starts with nothing ready and nothing counted.
LEMMA SchedulerInvInit == ASSUME SchedulerInit PROVE SchedulerInv
<1>1. \A i, j \in Ids : overtaken[i][j] = 0 BY Zenon DEF SchedulerInit
<1>2. OvertakenInv BY <1>1 DEF OvertakenInv
<1>3. overtaken \in [Ids -> [Ids -> Nat]] BY Zenon DEF SchedulerInit
<1>4. 0 \in 0 .. ControlBurst BY BurstAssumption
<1>5. SchedulerType BY <1>3, <1>4, Zenon DEF SchedulerInit, SchedulerType
<1>6. BurstInv /\ DataRunInv BY DEF SchedulerInit, BurstInv, DataRunInv
<1> QED BY <1>2, <1>5, <1>6, Zenon DEF SchedulerInv

\* What comes and goes on the channels between two frames.
LEMMA ReadyStep ==
    ASSUME SchedulerInv, Queue \/ (\E i \in Ids : ControlReady(i) \/ DataReady(i) \/ Removed(i))
    PROVE  SchedulerInv'
<1> USE DEF SchedulerInv
<1>1. CASE Queue
  BY <1>1, Zenon DEF Queue, counts, SchedulerType, OvertakenInv, BurstInv, DataRunInv
<1>2. ASSUME NEW i \in Ids, ControlReady(i) PROVE SchedulerInv'
  BY <1>2, Zenon DEF ControlReady, counts, SchedulerType, OvertakenInv, BurstInv, DataRunInv
<1>3. ASSUME NEW i \in Ids, DataReady(i) PROVE SchedulerInv'
  BY <1>3, Zenon DEF DataReady, counts, SchedulerType, OvertakenInv, BurstInv, DataRunInv
<1>4. ASSUME NEW i \in Ids, Removed(i) PROVE SchedulerInv'
  <2>1. SchedulerType' BY <1>4, Zenon DEF Removed, SchedulerType
  <2>2. OvertakenInv' BY <1>4 DEF Removed, SchedulerType, OvertakenInv
  <2>3. BurstInv' BY <1>4 DEF Removed, SchedulerType, BurstInv
  <2>4. DataRunInv' BY <1>4 DEF Removed, SchedulerType, DataRunInv
  <2> QED BY <2>1, <2>2, <2>3, <2>4, Zenon
<1> QED BY <1>1, <1>2, <1>3, <1>4, Zenon

\* A control frame counts towards the burst, and is sent ahead of DATA only within it.
LEMMA ControlCounted ==
    ASSUME SchedulerInv, source \in {"queue", "control"}, NEW kind, kind # "DATA",
           control_count' = CountControl(control_count, kind),
           controls_sent' = IF data = {} THEN 0 ELSE Up(controls_sent, ControlBurst + 1)
    PROVE  control_count' \in 0 .. ControlBurst /\ controls_sent' \in Nat /\ BurstInv'
<1>1. /\ control_count \in Nat /\ control_count <= ControlBurst /\ controls_sent \in Nat
      /\ ControlBurst \in Nat /\ controls_sent <= control_count /\ queued \in BOOLEAN
  BY BurstAssumption DEF SchedulerInv, SchedulerType, BurstInv
<1>2. data = {} \/ control_count < ControlBurst BY <1>1, SourceTells, Zenon DEF source
<1>3. control_count' = IF control_count + 1 <= ControlBurst THEN control_count + 1 ELSE ControlBurst
  BY <1>1, LeastOfTwo DEF CountControl
<1>4. Up(controls_sent, ControlBurst + 1)
        = IF controls_sent + 1 <= ControlBurst + 1 THEN controls_sent + 1 ELSE ControlBurst + 1
  BY <1>1, LeastOfTwo DEF Up
<1> QED BY <1>1, <1>2, <1>3, <1>4 DEF BurstInv

\* A frame of the control queue.
LEMMA SendQueuedStep == ASSUME SchedulerInv, SendQueued PROVE SchedulerInv'
<1>1. control_count' \in 0 .. ControlBurst /\ controls_sent' \in Nat /\ BurstInv'
  BY ControlCounted, Zenon DEF SendQueued
<1>2. SchedulerType' BY <1>1, Zenon DEF SendQueued, SchedulerInv, SchedulerType
<1>3. OvertakenInv' BY Zenon DEF SendQueued, SchedulerInv, OvertakenInv
<1>4. DataRunInv' BY DEF SendQueued, DataRunInv
<1> QED BY <1>1, <1>2, <1>3, <1>4, Zenon DEF SchedulerInv

\* A control frame of a channel.
LEMMA SendControlStep == ASSUME SchedulerInv, SendControl PROVE SchedulerInv'
<1>1. control_count' \in 0 .. ControlBurst /\ controls_sent' \in Nat /\ BurstInv'
  BY ControlCounted, Zenon DEF SendControl
<1>2. SchedulerType' BY <1>1, Zenon DEF SendControl, SchedulerInv, SchedulerType
<1>3. OvertakenInv' BY Zenon DEF SendControl, SchedulerInv, OvertakenInv
<1>4. DataRunInv' BY DEF SendControl, DataRunInv
<1> QED BY <1>1, <1>2, <1>3, <1>4, Zenon DEF SchedulerInv

\* DATA of one channel: the others move up, and DATA goes ahead of a control frame once.
LEMMA SendDataStep == ASSUME SchedulerInv, SendData PROVE SchedulerInv'
<1> DEFINE j == FirstAfter(data_cursor, data)
<1>1. /\ queued \in BOOLEAN /\ control_count \in Nat /\ data_run \in Nat /\ data_cursor \in Nat
      /\ data \subseteq Ids /\ Ids \subseteq Nat /\ data \in SUBSET Nat
      /\ ControlBurst \in Nat \ {0} /\ Overtakes \in Nat \ {0, 1}
      /\ overtaken \in [Ids -> [Ids -> Nat]]
  BY BurstAssumption, IdsAssumption DEF SchedulerInv, SchedulerType
<1>2. /\ data # {}
      /\ control_count >= ControlBurst \/ (~queued /\ control = {})
  BY <1>1, SourceTells, Zenon DEF SendData, source
<1>3. j \in data /\ \A i \in data : i # j => Before(data_cursor, j, i)
  BY <1>1, <1>2, FirstAfterIsFirst, Zenon
<1>4. /\ data_cursor' = j /\ data' \in {data, data \ {j}}
      /\ overtaken' = [i \in Ids |-> IF i = j THEN [k \in Ids |-> 0]
                                     ELSE IF i \in data
                                     THEN [overtaken[i] EXCEPT ![j] = Up(@, Overtakes)]
                                     ELSE overtaken[i]]
      /\ control_count' = 0 /\ controls_sent' = 0
      /\ data_run' = IF queued \/ control # {} THEN Up(data_run, 2) ELSE 0
      /\ queued' = queued /\ control' = control
  BY Zenon DEF SendData, CountControl
<1>5. j \in Ids /\ j \in Nat BY <1>1, <1>3, Zenon
<1> HIDE DEF j
<1>6. \A n \in Nat : Up(n, Overtakes) \in Nat /\ (n = 0 => Up(n, Overtakes) = 1)
  BY <1>1, LeastOfTwo DEF Up
<1>7. DataRunInv' /\ data_run' \in Nat
  <2>1. data_run <= 1 /\ (data_run = 1 => control_count = 0) BY Zenon DEF SchedulerInv, DataRunInv
  <2>2. Up(data_run, 2) = IF data_run + 1 <= 2 THEN data_run + 1 ELSE 2
    BY <1>1, LeastOfTwo DEF Up
  <2>3. CASE queued \/ control # {}
    <3>1. data_run = 0 BY <1>1, <1>2, <2>1, <2>3
    <3> QED BY <1>4, <2>2, <2>3, <3>1 DEF DataRunInv
  <2>4. CASE ~(queued \/ control # {}) BY <1>4, <2>4 DEF DataRunInv
  <2> QED BY <2>3, <2>4, Zenon
<1>8. overtaken' \in [Ids -> [Ids -> Nat]] BY <1>1, <1>4, <1>5, <1>6
<1>9. SchedulerType'
  BY <1>1, <1>4, <1>5, <1>7, <1>8 DEF SchedulerInv, SchedulerType
<1>10. ASSUME NEW i \in Ids, NEW k \in Ids
       PROVE  /\ overtaken'[i][k] <= 1
              /\ i \notin data' => overtaken'[i][k] = 0
              /\ overtaken'[i][k] = 1 => Before(j, i, k)
  <2>1. /\ overtaken[i][k] \in Nat /\ overtaken[i][k] <= 1
        /\ i \notin data => overtaken[i][k] = 0
        /\ overtaken[i][k] = 1 => Before(data_cursor, i, k)
    BY <1>1, Zenon DEF SchedulerInv, OvertakenInv
  <2>2. i \in Nat /\ k \in Nat BY <1>1, Zenon
  <2>3. CASE i = j
    <3>1. overtaken'[i][k] = 0 BY <1>4, <2>3, Zenon
    <3> QED BY <3>1
  <2>4. CASE i # j /\ i \notin data
    <3>1. overtaken'[i][k] = overtaken[i][k] BY <1>4, <2>4, Zenon
    <3> QED BY <2>1, <2>4, <3>1
  <2>5. CASE i # j /\ i \in data
    <3>1. i \in data' BY <1>4, <2>5, Zenon
    <3>2. Before(data_cursor, j, i) BY <1>3, <2>5, Zenon
    <3>3. overtaken'[i] = [overtaken[i] EXCEPT ![j] = Up(@, Overtakes)] BY <1>4, <2>5, Zenon
    <3>4. CASE k = j
      <4>1. ~Before(data_cursor, i, j) BY <1>1, <1>5, <2>2, <2>5, <3>2 DEF Before
      <4>2. overtaken[i][j] = 0 BY <2>1, <3>4, <4>1
      <4>3. overtaken'[i][j] = 1 BY <1>1, <1>5, <1>6, <3>3, <4>2
      <4>4. Before(j, i, j) BY <1>5, <2>2, <2>5 DEF Before
      <4> QED BY <3>1, <3>4, <4>3, <4>4
    <3>5. CASE k # j
      <4>1. overtaken'[i][k] = overtaken[i][k] BY <1>1, <3>3, <3>5, Zenon
      <4>2. ASSUME Before(data_cursor, i, k) PROVE Before(j, i, k)
        BY <1>1, <1>5, <2>2, <2>5, <3>2, <3>5, <4>2 DEF Before
      <4> QED BY <2>1, <3>1, <4>1, <4>2, Zenon
    <3> QED BY <3>4, <3>5, Zenon
  <2> QED BY <2>3, <2>4, <2>5, Zenon
<1>11. OvertakenInv' BY <1>4, <1>10, Zenon DEF OvertakenInv
<1>12. BurstInv' BY <1>4 DEF BurstInv
<1> QED BY <1>7, <1>9, <1>11, <1>12, Zenon DEF SchedulerInv

\* The invariant holds in every state, for every control_burst and all channels.
THEOREM SchedulerInvariant == SchedulerSpec => []SchedulerInv
<1>1. ASSUME SchedulerInv, [SchedulerNext]_scheduler_vars PROVE SchedulerInv'
  <2>1. CASE SchedulerNext BY <1>1, <2>1, ReadyStep, SendQueuedStep, SendControlStep, SendDataStep, Zenon DEF SchedulerNext
  <2>2. CASE UNCHANGED scheduler_vars
    BY <1>1, <2>2, Zenon DEF scheduler_vars, SchedulerInv, SchedulerType, OvertakenInv, BurstInv, DataRunInv
  <2> QED BY <1>1, <2>1, <2>2, Zenon
<1> QED BY <1>1, SchedulerInvInit, PTL DEF SchedulerSpec

\* select_frame and ordered_states starve no channel: see DataNotStarved.
THEOREM SchedulerServesData == SchedulerSpec => []DataNotStarved
<1>1. ASSUME SchedulerInv PROVE DataNotStarved
  <2>1. controls_sent <= ControlBurst
    BY <1>1, BurstAssumption DEF SchedulerInv, SchedulerType, BurstInv
  <2> QED BY <1>1, <2>1, Zenon DEF SchedulerInv, SchedulerType, OvertakenInv, DataNotStarved
<1> QED BY <1>1, SchedulerInvariant, PTL

\* Control frames wait for one DATA frame at most: see ControlNotStarved.
THEOREM SchedulerServesControl == SchedulerSpec => []ControlNotStarved
<1>1. SchedulerInv => ControlNotStarved BY Zenon DEF SchedulerInv, DataRunInv, ControlNotStarved
<1> QED BY <1>1, SchedulerInvariant, PTL

=============================================================================
