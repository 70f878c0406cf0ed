-------------------------- MODULE ControlPlaneProofs --------------------------
(***************************************************************************)
(* What a drained dispatcher leaves behind, proved for every set of        *)
(* operations and every bound of ControlPlane.                             *)
(*                                                                         *)
(* LinkState and the dispatcher know an operation separately: LinkState    *)
(* from its opening until its terminal message is written, the dispatcher  *)
(* from the moment it takes the opening from its queue until it has joined *)
(* the task.  The invariant DrainInv says that the two never lose each     *)
(* other: an operation that LinkState has open is still in the queue, has  *)
(* a task, or is the one whose terminal message the dispatcher is about to *)
(* send.  A dispatcher that is idle and has no task can then only have     *)
(* openings left in its queue.                                             *)
(***************************************************************************)
EXTENDS ControlPlane, TLAPS

(* The messages to the serving end of a link, and the responses to o.      *)
Controls == {"Cancel", "GrantCredit", "Unsubscribe"}
Requests ==
    {Msg("Ping", "heartbeat", 0)}
      \cup {Msg(Opening(o), o, 0) : o \in Ops}
      \cup {Msg(t, o, n) : t \in Controls, o \in Ops, n \in Int}

Replies(o) == IF o \in Rpcs THEN Terminals ELSE Terminals \cup {"Event"}
Answers(o) == {Msg(t, o, n) : t \in Replies(o), n \in Int}
Responses == UNION {Answers(o) : o \in Ops}
Pong == Msg("Pong", "heartbeat", 0)

(* The records of an operation and of its task.                            *)
Stages == {"unknown", "active", "finished", "removed"}
Pcs == {"none", "route", "run", "open_down", "relay", "stopping", "open",
        "stream", "ended"}
Tasks == [pc : Pcs, pending : Int, downstream : Int, buffered : BOOLEAN,
          result : Terminals \cup {"none"}]
Rec(o) == [out : Stages, sent : Int, in : Stages, due : Int, route : BOOLEAN,
           rx : Seq(Answers(o)), handle : {"none", "open", "asked", "gone"},
           listed : BOOLEAN, controls : Seq(Requests), task : Tasks]

(* A task that has ended has a terminal message to give.                   *)
Sound(r, o) ==
    /\ r \in Rec(o)
    /\ r.task.pc = "ended" => r.task.result \in Terminals

(* Only the driver opens an operation, and only the dispatcher removes a   *)
(* task: every other step takes a record r to a record s like this.        *)
Evolves(r, s, o) ==
    /\ Sound(s, o)
    /\ s.in = "active" => r.in = "active"
    /\ r.task.pc # "none" => s.task.pc # "none"

(* In particular a step that touches neither the inbound half nor the task.*)
Keeps(r, s, o) == s \in Rec(o) /\ s.in = r.in /\ s.task = r.task

IsTable(t) == t = [l \in Links |-> [o \in Ops |-> t[l][o]]]

Queues ==
    /\ wire \in [Links -> Seq(Requests)]
    /\ incoming \in [Links -> Seq(Requests)]
    /\ back \in [Links -> Seq(Responses \cup {Pong})]
    /\ arrived \in [Links -> Seq(Responses)]
    /\ dispatch \in [Links -> {Idle, Pong} \cup Requests \cup Responses]
    /\ server \in [Links -> {"up", "down", "drained"}]
    /\ source \in [Ops -> Int]

(* Where an operation that LinkState has open can be.                      *)
Waits(l, o) == \E i \in DOMAIN incoming[l] : incoming[l][i] = Msg(Opening(o), o, 0)
Answering(l, o) == dispatch[l].type \in Terminals /\ dispatch[l].op = o
Tracked(l, o) ==
    (server[l] = "up" /\ op[l][o].in = "active")
      => Waits(l, o) \/ op[l][o].task.pc # "none" \/ Answering(l, o)

DrainInv ==
    /\ IsTable(op)
    /\ Queues
    /\ \A l \in Links, o \in Ops : Sound(op[l][o], o) /\ Tracked(l, o)

-----------------------------------------------------------------------------
(* Messages. *)

(* What the dispatcher can read off a message of LinkState::receive_rpc    *)
(* and receive_subscription.                                               *)
LEMMA RequestFacts ==
    ASSUME NEW m \in Requests
    PROVE  /\ m.type \in {"Ping", "Invoke", "Subscribe"} \cup Controls
           /\ m.type = "Ping" => m.op = "heartbeat"
           /\ m.type # "Ping" => m.op \in Ops
           /\ m.type \in {"Invoke", "Subscribe"} => m = Msg(Opening(m.op), m.op, 0)
           /\ m.n \in Int
<1>1. CASE m = Msg("Ping", "heartbeat", 0)
  BY <1>1 DEF Msg
<1>2. CASE \E o \in Ops : m = Msg(Opening(o), o, 0)
  <2>1. PICK o \in Ops : m = Msg(Opening(o), o, 0)
    BY <1>2
  <2>2. Opening(o) \in {"Invoke", "Subscribe"}
    BY DEF Opening
  <2>3. m.op = o /\ m.type = Opening(o) /\ m.n = 0
    BY <2>1 DEF Msg
  <2> QED BY <2>1, <2>2, <2>3 DEF Controls
<1>3. CASE \E t \in Controls, o \in Ops, n \in Int : m = Msg(t, o, n)
  <2>1. PICK t \in Controls, o \in Ops, n \in Int : m = Msg(t, o, n)
    BY <1>3
  <2>2. m.type = t /\ m.op = o /\ m.n = n
    BY <2>1 DEF Msg
  <2> QED BY <2>1, <2>2 DEF Controls
<1> QED BY <1>1, <1>2, <1>3 DEF Requests

(* The messages a client or a hop sends. *)
LEMMA Request ==
    ASSUME NEW o \in Ops
    PROVE  /\ Msg(Opening(o), o, 0) \in Requests
           /\ o \in Rpcs => Msg("Invoke", o, 0) \in Requests
           /\ o \in Subs => Msg("Subscribe", o, 0) \in Requests
           /\ Msg(Release(o), o, 0) \in Requests
           /\ \A t \in Controls, n \in Int : Msg(t, o, n) \in Requests
<1>1. Msg(Opening(o), o, 0) \in Requests
  BY DEF Requests
<1>2. \A t \in Controls, n \in Int : Msg(t, o, n) \in Requests
  BY DEF Requests
<1>3. Release(o) \in Controls /\ 0 \in Int
  BY DEF Release, Controls
<1>4. (o \in Rpcs => Opening(o) = "Invoke") /\ (o \in Subs => Opening(o) = "Subscribe")
  BY ControlPlaneAssumption DEF Opening
<1> QED BY <1>1, <1>2, <1>3, <1>4, Zenon

(* What OutboundRoutes and the tasks can read off a response. *)
LEMMA ResponseFacts ==
    ASSUME NEW m \in Responses
    PROVE  /\ m.op \in Ops
           /\ m \in Answers(m.op)
           /\ m.type \in Terminals \cup {"Event"}
           /\ m.op \in Rpcs => m.type \in Terminals
<1>1. PICK o \in Ops : m \in Answers(o)
  BY Zenon DEF Responses
<1>2. PICK t \in Replies(o), n \in Int : m = Msg(t, o, n)
  BY <1>1 DEF Answers
<1>3. m.type = t /\ m.op = o
  BY <1>2 DEF Msg
<1>4. t \in Terminals \cup {"Event"} /\ (o \in Rpcs => t \in Terminals)
  BY <1>2 DEF Replies
<1> QED BY <1>1, <1>3, <1>4, Zenon

(* The same of a response in the queue of its operation. *)
LEMMA AnswerFacts ==
    ASSUME NEW o \in Ops, NEW m \in Answers(o)
    PROVE  m \in Responses /\ m.op = o /\ m.type \in Replies(o)
<1>1. PICK t \in Replies(o), n \in Int : m = Msg(t, o, n)
  BY DEF Answers
<1>2. m.type = t /\ m.op = o
  BY <1>1 DEF Msg
<1>3. m \in Responses
  BY Zenon DEF Responses
<1> QED BY <1>1, <1>2, <1>3, Zenon

(* The responses the dispatcher and the tasks send. *)
LEMMA Response ==
    ASSUME NEW o \in Ops
    PROVE  /\ \A t \in Terminals, n \in Int : Msg(t, o, n) \in Responses
           /\ \A n \in Int : o \in Subs => Msg("Event", o, n) \in Responses
<1>1. \A t \in Terminals : t \in Replies(o)
  BY DEF Replies
<1>2. o \in Subs => "Event" \in Replies(o)
  BY ControlPlaneAssumption DEF Replies
<1>3. \A t \in Replies(o), n \in Int : Msg(t, o, n) \in Responses
  BY DEF Responses, Answers
<1> QED BY <1>1, <1>2, <1>3, Zenon

-----------------------------------------------------------------------------
(* Records. *)

(* An assignment to one field of the record of an operation. *)
LEMMA Assigned ==
    ASSUME NEW o, NEW r \in Rec(o), NEW v
    PROVE  /\ v \in Stages => Keeps(r, [r EXCEPT !.out = v], o)
           /\ v \in Int => Keeps(r, [r EXCEPT !.sent = v], o)
           /\ v \in Int => Keeps(r, [r EXCEPT !.due = v], o)
           /\ v \in BOOLEAN => Keeps(r, [r EXCEPT !.route = v], o)
           /\ v \in Seq(Answers(o)) => Keeps(r, [r EXCEPT !.rx = v], o)
           /\ v \in {"none", "open", "asked", "gone"} => Keeps(r, [r EXCEPT !.handle = v], o)
           /\ v \in BOOLEAN => Keeps(r, [r EXCEPT !.listed = v], o)
           /\ v \in Seq(Requests) => Keeps(r, [r EXCEPT !.controls = v], o)
<1>1. v \in Stages => Keeps(r, [r EXCEPT !.out = v], o)
  BY DEF Rec, Keeps
<1>2. v \in Int => Keeps(r, [r EXCEPT !.sent = v], o)
  BY DEF Rec, Keeps
<1>3. v \in Int => Keeps(r, [r EXCEPT !.due = v], o)
  BY DEF Rec, Keeps
<1>4. v \in BOOLEAN => Keeps(r, [r EXCEPT !.route = v], o)
  BY Zenon DEF Rec, Keeps
<1>5. v \in Seq(Answers(o)) => Keeps(r, [r EXCEPT !.rx = v], o)
  BY Zenon DEF Rec, Keeps
<1>6. v \in {"none", "open", "asked", "gone"} => Keeps(r, [r EXCEPT !.handle = v], o)
  BY DEF Rec, Keeps
<1>7. v \in BOOLEAN => Keeps(r, [r EXCEPT !.listed = v], o)
  BY Zenon DEF Rec, Keeps
<1>8. v \in Seq(Requests) => Keeps(r, [r EXCEPT !.controls = v], o)
  BY Zenon DEF Rec, Keeps
<1> QED BY <1>1, <1>2, <1>3, <1>4, <1>5, <1>6, <1>7, <1>8, Zenon

(* The fields of a record. *)
LEMMA Fields ==
    ASSUME NEW o, NEW r \in Rec(o)
    PROVE  /\ r.sent \in Int /\ r.due \in Int /\ r.route \in BOOLEAN /\ r.in \in Stages
           /\ r.rx \in Seq(Answers(o)) /\ r.controls \in Seq(Requests)
           /\ r.handle \in {"none", "open", "asked", "gone"}
           /\ r.task \in Tasks
BY DEF Rec

(* Assignments that touch neither the inbound half nor the task combine. *)
LEMMA Then ==
    ASSUME NEW o, NEW r, NEW d, Keeps(r, d, o), NEW v
    PROVE  /\ v \in BOOLEAN => Keeps(r, [d EXCEPT !.route = v], o)
           /\ v \in Seq(Answers(o)) => Keeps(r, [d EXCEPT !.rx = v], o)
           /\ v \in {"none", "open", "asked", "gone"} => Keeps(r, [d EXCEPT !.handle = v], o)
           /\ v \in Stages => Keeps(r, [d EXCEPT !.out = v], o)
           /\ v \in Seq(Requests) => Keeps(r, [d EXCEPT !.controls = v], o)
<1>1. d \in Rec(o) /\ d.in = r.in /\ d.task = r.task
  BY Zenon DEF Keeps
<1>2. \A e : Keeps(d, e, o) => Keeps(r, e, o)
  BY <1>1, Zenon DEF Keeps
<1> QED BY <1>1, <1>2, Assigned, Zenon

(* LinkState::commit, Peer::invoke and subscribe, the handles, and         *)
(* LinkState's account of a response.                                      *)
LEMMA OpenerRecords ==
    ASSUME NEW o \in Ops, NEW r \in Rec(o)
    PROVE  /\ \A type, n : n \in Int => Keeps(r, Committed(r, type, n), o)
           /\ Keeps(r, Opened(r, o), o)
           /\ Keeps(r, Dropped(r), o)
           /\ r.rx # <<>> => Keeps(r, Popped(r), o)
           /\ \A m : Keeps(r, Accounted(r, m), o)
           /\ \A m \in Answers(o) : Keeps(r, Routed(r, m), o)
<1>0. Keeps(r, r, o)
  BY Zenon DEF Keeps
<1>1. ASSUME NEW d, Keeps(r, d, o), NEW type, NEW n \in Int
      PROVE  Keeps(r, Committed(d, type, n), o)
  <2>1. d \in Rec(o) /\ d.in = r.in /\ d.task = r.task
    BY <1>1, Zenon DEF Keeps
  <2>2. "active" \in Stages /\ d.sent + n \in Int
    BY <2>1, Fields DEF Stages
  <2>3. Keeps(d, [d EXCEPT !.out = "active"], o) /\ Keeps(d, [d EXCEPT !.sent = d.sent + n], o)
    BY <2>1, <2>2, Assigned, Zenon
  <2>4. Keeps(r, [d EXCEPT !.out = "active"], o) /\ Keeps(r, [d EXCEPT !.sent = d.sent + n], o)
    BY <2>1, <2>3, Zenon DEF Keeps
  <2>5. Committed(d, type, n) \in {[d EXCEPT !.out = "active"], [d EXCEPT !.sent = d.sent + n], d}
    BY Zenon DEF Committed
  <2> QED BY <1>1, <2>4, <2>5, Zenon
<1>2. Keeps(r, Opened(r, o), o)
  <2> DEFINE d1 == [r EXCEPT !.route = TRUE]
             d2 == [d1 EXCEPT !.handle = "open"]
  <2>1. Opened(r, o) = Committed(d2, Opening(o), 0)
    BY Zenon DEF Opened
  <2>2. Keeps(r, d1, o)
    BY <1>0, Then, Zenon
  <2> HIDE DEF d1
  <2>3. Keeps(r, d2, o)
    BY <2>2, Then, Zenon
  <2> HIDE DEF d2
  <2>4. 0 \in Int
    OBVIOUS
  <2> QED BY <2>1, <2>3, <2>4, <1>1, Zenon
<1>3. Keeps(r, Dropped(r), o)
  <2> DEFINE d1 == [r EXCEPT !.route = FALSE]
             d2 == [d1 EXCEPT !.rx = <<>>]
             d3 == [d2 EXCEPT !.handle = "gone"]
  <2>1. Dropped(r) = d3
    BY Zenon DEF Dropped
  <2>2. Keeps(r, d1, o)
    BY <1>0, Then, Zenon
  <2> HIDE DEF d1
  <2>3. <<>> \in Seq(Answers(o))
    OBVIOUS
  <2>4. Keeps(r, d2, o)
    BY <2>2, <2>3, Then, Zenon
  <2> HIDE DEF d2
  <2>5. Keeps(r, d3, o)
    BY <2>4, Then, Zenon
  <2> QED BY <2>1, <2>5, Zenon
<1>4. ASSUME r.rx # <<>> PROVE Keeps(r, Popped(r), o)
  <2> DEFINE d1 == [r EXCEPT !.rx = Tail(r.rx)]
             h == IF Head(r.rx).type \in Terminals THEN "gone" ELSE r.handle
             d2 == [d1 EXCEPT !.handle = h]
  <2>1. Popped(r) = d2
    BY Zenon DEF Popped
  <2>2. Tail(r.rx) \in Seq(Answers(o)) /\ h \in {"none", "open", "asked", "gone"}
    BY <1>4, Fields
  <2> HIDE DEF h
  <2>3. Keeps(r, d1, o)
    BY <1>0, <2>2, Then, Zenon
  <2> HIDE DEF d1
  <2>4. Keeps(r, d2, o)
    BY <2>3, <2>2, Then, Zenon
  <2> QED BY <2>1, <2>4, Zenon
<1>5. ASSUME NEW m PROVE Keeps(r, Accounted(r, m), o)
  <2>1. r.sent - 1 \in Int /\ "finished" \in Stages /\ "removed" \in Stages
    BY Fields DEF Stages
  <2>2. /\ Keeps(r, [r EXCEPT !.sent = r.sent - 1], o)
        /\ Keeps(r, [r EXCEPT !.out = "finished"], o)
        /\ Keeps(r, [r EXCEPT !.out = "removed"], o)
    BY <2>1, Assigned, Zenon
  <2>3. Accounted(r, m) \in {[r EXCEPT !.sent = r.sent - 1], [r EXCEPT !.out = "finished"],
                             [r EXCEPT !.out = "removed"]}
    BY Zenon DEF Accounted
  <2> QED BY <2>2, <2>3, Zenon
<1>6. ASSUME NEW m \in Answers(o) PROVE Keeps(r, Routed(r, m), o)
  <2> DEFINE fits == r.route /\ Len(r.rx) < ControlCap
             q == IF fits THEN Append(r.rx, m) ELSE r.rx
             b == fits /\ m.type \notin Terminals
             d1 == [r EXCEPT !.rx = q]
             d2 == [d1 EXCEPT !.route = b]
  <2>1. Routed(r, m) = d2
    BY Zenon DEF Routed
  <2>2. q \in Seq(Answers(o))
    BY Fields
  <2>3. b \in BOOLEAN
    BY Zenon
  <2> HIDE DEF fits, q, b
  <2>4. Keeps(r, d1, o)
    BY <1>0, <2>2, Then, Zenon
  <2> HIDE DEF d1
  <2>5. Keeps(r, d2, o)
    BY <2>4, <2>3, Then, Zenon
  <2> QED BY <2>1, <2>5, Zenon
<1> QED BY <1>0, <1>1, <1>2, <1>3, <1>4, <1>5, <1>6, Zenon

(* Tasks: the fields, and the assignments to one of them. *)
LEMMA TaskFields ==
    ASSUME NEW t \in Tasks
    PROVE  /\ t.pc \in Pcs /\ t.pending \in Int /\ t.downstream \in Int
           /\ t.result \in Terminals \cup {"none"}
BY DEF Tasks

(* Assigning one local of a task. *)
LEMMA TaskAssigned ==
    ASSUME NEW t \in Tasks, NEW v
    PROVE  /\ v \in Pcs => /\ [t EXCEPT !.pc = v] \in Tasks
                           /\ [t EXCEPT !.pc = v].pc = v
                           /\ [t EXCEPT !.pc = v].result = t.result
           /\ v \in Terminals => /\ [t EXCEPT !.result = v] \in Tasks
                                 /\ [t EXCEPT !.result = v].result = v
                                 /\ [t EXCEPT !.result = v].pc = t.pc
           /\ v \in Int => /\ [t EXCEPT !.pending = v] \in Tasks
                           /\ [t EXCEPT !.pending = v].pc = t.pc
                           /\ [t EXCEPT !.pending = v].result = t.result
                           /\ [t EXCEPT !.pending = v].downstream = t.downstream
           /\ v \in Int => /\ [t EXCEPT !.downstream = v] \in Tasks
                           /\ [t EXCEPT !.downstream = v].pc = t.pc
                           /\ [t EXCEPT !.downstream = v].result = t.result
           /\ v \in BOOLEAN => /\ [t EXCEPT !.buffered = v] \in Tasks
                               /\ [t EXCEPT !.buffered = v].pc = t.pc
                               /\ [t EXCEPT !.buffered = v].result = t.result
<1>1. v \in Pcs => /\ [t EXCEPT !.pc = v] \in Tasks
                   /\ [t EXCEPT !.pc = v].pc = v
                   /\ [t EXCEPT !.pc = v].result = t.result
  BY DEF Tasks
<1>2. v \in Terminals => /\ [t EXCEPT !.result = v] \in Tasks
                         /\ [t EXCEPT !.result = v].result = v
                         /\ [t EXCEPT !.result = v].pc = t.pc
  BY DEF Tasks
<1>3. v \in Int => /\ [t EXCEPT !.pending = v] \in Tasks
                   /\ [t EXCEPT !.pending = v].pc = t.pc
                   /\ [t EXCEPT !.pending = v].result = t.result
                   /\ [t EXCEPT !.pending = v].downstream = t.downstream
  BY DEF Tasks
<1>4. v \in Int => /\ [t EXCEPT !.downstream = v] \in Tasks
                   /\ [t EXCEPT !.downstream = v].pc = t.pc
                   /\ [t EXCEPT !.downstream = v].result = t.result
  BY DEF Tasks
<1>5. v \in BOOLEAN => /\ [t EXCEPT !.buffered = v] \in Tasks
                       /\ [t EXCEPT !.buffered = v].pc = t.pc
                       /\ [t EXCEPT !.buffered = v].result = t.result
  BY DEF Tasks
<1> QED BY <1>1, <1>2, <1>3, <1>4, <1>5, Zenon

WithTask(d, t) == [d EXCEPT !.task = t]
WithIn(d, v) == [d EXCEPT !.in = v]

(* Assignments to the task and to the inbound half of a record. *)
LEMMA Halves ==
    ASSUME NEW o, NEW r \in Rec(o), NEW v
    PROVE  /\ v \in Tasks => /\ WithTask(r, v) \in Rec(o)
                             /\ WithTask(r, v).in = r.in
                             /\ WithTask(r, v).task = v
           /\ v \in Stages => /\ WithIn(r, v) \in Rec(o)
                              /\ WithIn(r, v).in = v
                              /\ WithIn(r, v).task = r.task
<1>1. v \in Tasks => /\ WithTask(r, v) \in Rec(o)
                     /\ WithTask(r, v).in = r.in
                     /\ WithTask(r, v).task = v
  BY DEF Rec, WithTask
<1>2. v \in Stages => /\ WithIn(r, v) \in Rec(o)
                      /\ WithIn(r, v).in = v
                      /\ WithIn(r, v).task = r.task
  BY DEF Rec, WithIn
<1> QED BY <1>1, <1>2, Zenon

(* A record with another task. *)
LEMMA TaskChanged ==
    ASSUME NEW o, NEW r, Sound(r, o), NEW d, Keeps(r, d, o), NEW t \in Tasks,
           t.pc = "ended" => t.result \in Terminals,
           r.task.pc # "none" => t.pc # "none"
    PROVE  Evolves(r, WithTask(d, t), o)
<1>1. d \in Rec(o) /\ d.in = r.in
  BY Zenon DEF Keeps
<1>2. /\ WithTask(d, t) \in Rec(o)
      /\ WithTask(d, t).in = d.in
      /\ WithTask(d, t).task = t
  BY <1>1, Halves
<1>3. WithTask(d, t).in = r.in
  BY <1>1, <1>2, Zenon
<1> QED BY <1>2, <1>3, Zenon DEF Evolves, Sound

(* A step that touches neither half is one of these. *)
LEMMA KeepsEvolves ==
    ASSUME NEW o, NEW r, NEW d, Sound(r, o), Keeps(r, d, o)
    PROVE  Evolves(r, d, o)
BY Zenon DEF Evolves, Sound, Keeps

(* What the tasks do to the record of their operation. *)
LEMMA TaskRecords ==
    ASSUME NEW o \in Ops, NEW r, Sound(r, o)
    PROVE  /\ \A res \in Terminals : Evolves(r, Ended(r, res), o)
           /\ \A pc \in Pcs \ {"none", "ended"} :
                 /\ Evolves(r, Moved(r, pc), o)
                 /\ r.controls # <<>> =>
                      Evolves(r, Moved([r EXCEPT !.controls = Tail(@)], pc), o)
           /\ r.controls # <<>> => Evolves(r, Credited(r), o)
           /\ \A n \in Int : Evolves(r, Forwarded(r, n), o)
           /\ Evolves(r, Sent(r), o)
           /\ Evolves(r, Relayed(r), o)
           /\ Evolves(r, Buffered(r), o)
<1> DEFINE t == r.task
<1>0. /\ r \in Rec(o) /\ t \in Tasks
      /\ t.pc = "ended" => t.result \in Terminals
      /\ t.pc \in Pcs /\ t.pending \in Int /\ t.downstream \in Int
      /\ r.due - 1 \in Int /\ r.controls \in Seq(Requests)
  <2>1. r \in Rec(o) /\ (t.pc = "ended" => t.result \in Terminals)
    BY Zenon DEF Sound
  <2>2. t \in Tasks /\ r.due - 1 \in Int /\ r.controls \in Seq(Requests)
    BY <2>1, Fields
  <2> QED BY <2>1, <2>2, TaskFields, Zenon
<1>00. Keeps(r, r, o)
  BY <1>0, Zenon DEF Keeps
<1>1. ASSUME NEW res \in Terminals PROVE Evolves(r, Ended(r, res), o)
  <2> DEFINE d == [r EXCEPT !.controls = <<>>]
             t1 == [t EXCEPT !.pc = "ended"]
             t2 == [t1 EXCEPT !.result = res]
  <2>1. Ended(r, res) = WithTask(d, t2)
    BY Zenon DEF Ended, WithTask
  <2>2. <<>> \in Seq(Requests) /\ "ended" \in Pcs
    BY DEF Pcs
  <2>3. Keeps(r, d, o)
    BY <1>00, <2>2, Then, Zenon
  <2> HIDE DEF d
  <2>4. t1 \in Tasks /\ t1.pc = "ended"
    BY <1>0, <2>2, TaskAssigned, Zenon
  <2> HIDE DEF t1
  <2>5. t2 \in Tasks /\ t2.pc = "ended" /\ t2.result = res
    BY <2>4, TaskAssigned, ZenonT(40)
  <2> HIDE DEF t2
  <2> QED BY <2>1, <2>3, <2>5, TaskChanged, Zenon
<1>2. ASSUME NEW pc \in Pcs \ {"none", "ended"}, NEW d, Keeps(r, d, o)
      PROVE  Evolves(r, Moved(d, pc), o)
  <2> DEFINE t1 == [t EXCEPT !.pc = pc]
  <2>1. d.task = t
    BY <1>2, Zenon DEF Keeps
  <2>2. Moved(d, pc) = WithTask(d, t1)
    <3>1. Moved(d, pc) = [d EXCEPT !.task = [d.task EXCEPT !.pc = pc]]
      BY Zenon DEF Moved
    <3> QED BY <2>1, <3>1, Zenon DEF WithTask
  <2>3. t1 \in Tasks /\ t1.pc = pc
    BY <1>0 DEF Tasks
  <2> HIDE DEF t1
  <2> QED BY <1>2, <2>2, <2>3, TaskChanged, Zenon
<1>3. ASSUME r.controls # <<>> PROVE Keeps(r, [r EXCEPT !.controls = Tail(r.controls)], o)
  <2>1. Tail(r.controls) \in Seq(Requests)
    BY <1>0, <1>3
  <2> QED BY <1>00, <2>1, Then, Zenon
<1>4. ASSUME r.controls # <<>> PROVE Evolves(r, Credited(r), o)
  <2> DEFINE d == [r EXCEPT !.controls = Tail(r.controls)]
             n == t.pending + Head(r.controls).n
             t1 == [t EXCEPT !.pending = n]
  <2>1. Credited(r) = WithTask(d, t1)
    <3>1. Credited(r) = [d EXCEPT !.task.pending = d.task.pending + Head(r.controls).n]
      BY Zenon DEF Credited
    <3>2. d.task = t
      BY <1>3, <1>4, Zenon DEF Keeps
    <3> QED BY <3>1, <3>2, Zenon DEF WithTask
  <2>2. Head(r.controls) \in Requests
    BY <1>0, <1>4
  <2>3. n \in Int
    BY <1>0, <2>2, RequestFacts
  <2> HIDE DEF n
  <2>4. t1 \in Tasks /\ t1.pc = t.pc /\ t1.result = t.result
    BY <1>0, <2>3, TaskAssigned, Zenon
  <2>5. Keeps(r, d, o)
    BY <1>3, <1>4, Zenon
  <2> HIDE DEF t1, d
  <2> QED BY <1>0, <2>1, <2>4, <2>5, TaskChanged, Zenon
<1>5. ASSUME NEW n \in Int PROVE Evolves(r, Forwarded(r, n), o)
  <2> DEFINE p == t.pending - n
             q == t.downstream + n
             t1 == [t EXCEPT !.pending = p]
             t2 == [t1 EXCEPT !.downstream = q]
  <2>1. p \in Int /\ q \in Int
    BY <1>0
  <2>2. t1 \in Tasks /\ t1.pc = t.pc /\ t1.result = t.result /\ t1.downstream = t.downstream
    BY <1>0, <2>1, TaskAssigned, ZenonT(40)
  <2>3. Forwarded(r, n) = WithTask(r, t2)
    BY Zenon DEF Forwarded, WithTask
  <2> HIDE DEF p, q, t1
  <2>4. t2 \in Tasks /\ t2.pc = t.pc /\ t2.result = t.result
    BY <2>1, <2>2, TaskAssigned, Zenon
  <2> HIDE DEF t2
  <2> QED BY <1>0, <1>00, <2>3, <2>4, TaskChanged, Zenon
<1>6. Evolves(r, Sent(r), o)
  <2> DEFINE d == [r EXCEPT !.due = r.due - 1]
             p == t.pending - 1
             t1 == [t EXCEPT !.pending = p]
             t2 == [t1 EXCEPT !.buffered = FALSE]
  <2>1. Sent(r) = WithTask(d, t2)
    BY Zenon DEF Sent, WithTask
  <2>2. p \in Int
    BY <1>0
  <2>3. Keeps(r, d, o)
    BY <1>0, Assigned, Zenon
  <2> HIDE DEF p, d
  <2>4. t1 \in Tasks /\ t1.pc = t.pc /\ t1.result = t.result
    BY <1>0, <2>2, TaskAssigned, Zenon
  <2> HIDE DEF t1
  <2>5. t2 \in Tasks /\ t2.pc = t1.pc /\ t2.result = t1.result
    BY <2>4, TaskAssigned, Zenon
  <2> HIDE DEF t2
  <2> QED BY <1>0, <2>1, <2>3, <2>4, <2>5, TaskChanged, Zenon
<1>7. Evolves(r, Relayed(r), o)
  <2> DEFINE d == [r EXCEPT !.due = r.due - 1]
             p == t.downstream - 1
             t1 == [t EXCEPT !.downstream = p]
  <2>1. Keeps(r, d, o)
    BY <1>0, Assigned, Zenon
  <2>2. Relayed(r) = WithTask(d, t1)
    <3>1. Relayed(r) = [d EXCEPT !.task.downstream = d.task.downstream - 1]
      BY Zenon DEF Relayed
    <3>2. d.task = t
      BY <2>1, Zenon DEF Keeps
    <3> QED BY <3>1, <3>2, Zenon DEF WithTask
  <2>3. p \in Int
    BY <1>0
  <2> HIDE DEF p, d
  <2>4. t1 \in Tasks /\ t1.pc = t.pc /\ t1.result = t.result
    BY <1>0, <2>3, TaskAssigned, Zenon
  <2> HIDE DEF t1
  <2> QED BY <1>0, <2>1, <2>2, <2>4, TaskChanged, Zenon
<1>8. Evolves(r, Buffered(r), o)
  <2> DEFINE t1 == [t EXCEPT !.buffered = TRUE]
  <2>1. Buffered(r) = WithTask(r, t1)
    BY Zenon DEF Buffered, WithTask
  <2>2. t1 \in Tasks /\ t1.pc = t.pc /\ t1.result = t.result
    BY <1>0, TaskAssigned, Zenon
  <2> HIDE DEF t1
  <2> QED BY <1>0, <1>00, <2>1, <2>2, TaskChanged, Zenon
<1> QED BY <1>00, <1>1, <1>2, <1>3, <1>4, <1>5, <1>6, <1>7, <1>8, Zenon

(* What the driver and the dispatcher of a serving end do to a record.     *)
LEMMA ServerRecords ==
    ASSUME NEW o \in Ops, NEW r, Sound(r, o)
    PROVE  /\ Sound(Spawned(r), o) /\ Spawned(r).task.pc # "none"
           /\ Sound(Joined(r), o) /\ Joined(r).in = r.in
           /\ \A m \in Requests : Keeps(r, Delivered(r, m), o)
           /\ \A m \in Requests :
                 /\ Sound(Received(r, m), o)
                 /\ Received(r, m).task = r.task
                 /\ m.type \notin {"Invoke", "Subscribe"} => Received(r, m).in = r.in
           /\ Sound(Answered(r, o), o)
           /\ Answered(r, o).in # "active" /\ Answered(r, o).task = r.task
           /\ Sound(Cleared(r), o) /\ Cleared(r).in # "active"
<1>0. r \in Rec(o) /\ r.controls \in Seq(Requests) /\ r.due \in Int /\ <<>> \in Seq(Requests)
  BY Fields DEF Sound
<1>1. Keeps(r, r, o)
  BY <1>0, Zenon DEF Keeps
<1>2. NoTask \in Tasks /\ NoTask.pc = "none"
  BY DEF NoTask, Tasks, Pcs
<1>3. ASSUME NEW t \in Tasks, NEW d \in Rec(o), t.pc # "ended"
      PROVE  Sound(WithTask(d, t), o) /\ WithTask(d, t).in = d.in /\ WithTask(d, t).task = t
  BY <1>3, Halves DEF Sound
<1>4. ASSUME NEW b \in BOOLEAN
      PROVE  Keeps(r, [[r EXCEPT !.listed = b] EXCEPT !.controls = <<>>], o)
  <2> DEFINE d1 == [r EXCEPT !.listed = b]
  <2>1. Keeps(r, d1, o)
    BY <1>0, Assigned, Zenon
  <2> HIDE DEF d1
  <2>2. Keeps(r, [d1 EXCEPT !.controls = <<>>], o)
    BY <1>0, <2>1, Then, Zenon
  <2> QED BY <2>2, Zenon DEF d1
<1>5. Sound(Spawned(r), o) /\ Spawned(r).task.pc # "none"
  <2> DEFINE d == [[r EXCEPT !.listed = TRUE] EXCEPT !.controls = <<>>]
             t == [NoTask EXCEPT !.pc = "route"]
  <2>1. Spawned(r) = WithTask(d, t)
    BY Zenon DEF Spawned, WithTask
  <2>2. d \in Rec(o)
    BY <1>4, Zenon DEF Keeps
  <2>3. t \in Tasks /\ t.pc = "route"
    <3>1. "route" \in Pcs
      BY DEF Pcs
    <3> QED BY <1>2, <3>1, TaskAssigned, Zenon
  <2> HIDE DEF d, t
  <2> QED BY <1>3, <2>1, <2>2, <2>3
<1>6. Sound(Joined(r), o) /\ Joined(r).in = r.in
  <2> DEFINE d == [[r EXCEPT !.listed = FALSE] EXCEPT !.controls = <<>>]
  <2>1. Joined(r) = WithTask(d, NoTask)
    BY Zenon DEF Joined, WithTask
  <2>2. d \in Rec(o) /\ d.in = r.in
    BY <1>4, Zenon DEF Keeps
  <2> HIDE DEF d
  <2> QED BY <1>2, <1>3, <2>1, <2>2
<1>7. ASSUME NEW m \in Requests PROVE Keeps(r, Delivered(r, m), o)
  <2>1. Append(r.controls, m) \in Seq(Requests)
    BY <1>0
  <2>2. Keeps(r, [r EXCEPT !.controls = Append(r.controls, m)], o)
    BY <1>1, <2>1, Then, Zenon
  <2> QED BY <1>1, <2>2, Zenon DEF Delivered
<1>8. ASSUME NEW v \in Stages
      PROVE  Sound(WithIn(r, v), o) /\ WithIn(r, v).task = r.task /\ WithIn(r, v).in = v
  BY <1>0, Halves DEF Sound
<1>9. ASSUME NEW m \in Requests
      PROVE  /\ Sound(Received(r, m), o)
             /\ Received(r, m).task = r.task
             /\ m.type \notin {"Invoke", "Subscribe"} => Received(r, m).in = r.in
  <2>1. CASE m.type \in {"Invoke", "Subscribe"}
    <3> DEFINE d == WithIn(r, "active")
    <3>1. Received(r, m) = [d EXCEPT !.due = 0]
      BY <2>1, Zenon DEF Received, WithIn
    <3>2. Sound(d, o) /\ d.task = r.task
      BY <1>8 DEF Stages
    <3> HIDE DEF d
    <3>3. d \in Rec(o) /\ 0 \in Int
      BY <3>2 DEF Sound
    <3>4. Keeps(d, [d EXCEPT !.due = 0], o)
      BY <3>3, Assigned, Zenon
    <3> QED BY <2>1, <3>1, <3>2, <3>4, Zenon DEF Keeps, Sound
  <2>2. CASE m.type = "GrantCredit"
    <3>1. Received(r, m) = [r EXCEPT !.due = r.due + m.n]
      BY <2>2, Zenon DEF Received
    <3>2. r.due + m.n \in Int
      BY <1>0, RequestFacts
    <3>3. Keeps(r, [r EXCEPT !.due = r.due + m.n], o)
      BY <1>0, <3>2, Assigned, Zenon
    <3> QED BY <3>1, <3>3, Zenon DEF Keeps, Sound
  <2>3. CASE m.type \notin {"Invoke", "Subscribe", "GrantCredit"}
    <3>1. Received(r, m) = r
      BY <2>3, Zenon DEF Received
    <3> QED BY <3>1, Zenon
  <2> QED BY <2>1, <2>2, <2>3, Zenon
<1>10. Sound(Answered(r, o), o) /\ Answered(r, o).in # "active" /\ Answered(r, o).task = r.task
  <2> DEFINE v == IF o \in Subs THEN "finished" ELSE "removed"
  <2>1. Answered(r, o) = WithIn(r, v)
    BY Zenon DEF Answered, WithIn
  <2>2. v \in Stages /\ v # "active"
    BY DEF Stages
  <2> HIDE DEF v
  <2> QED BY <1>8, <2>1, <2>2
<1>11. Sound(Cleared(r), o) /\ Cleared(r).in # "active"
  <2> DEFINE d1 == WithIn(r, "unknown")
             d2 == [d1 EXCEPT !.due = 0]
             d3 == [d2 EXCEPT !.listed = FALSE]
             d4 == [d3 EXCEPT !.controls = <<>>]
  <2>1. Cleared(r) = WithTask(d4, NoTask)
    BY Zenon DEF Cleared, WithIn, WithTask
  <2>2. d1 \in Rec(o) /\ d1.in = "unknown" /\ 0 \in Int
    BY <1>8 DEF Stages, Sound
  <2> HIDE DEF d1
  <2>3. d2 \in Rec(o) /\ d2.in = "unknown"
    <3>1. Keeps(d1, d2, o)
      BY <2>2, Assigned, Zenon
    <3> QED BY <2>2, <3>1 DEF Keeps
  <2> HIDE DEF d2
  <2>4. d3 \in Rec(o) /\ d3.in = "unknown"
    <3>1. Keeps(d2, d3, o)
      BY <2>3, Assigned, Zenon
    <3> QED BY <2>3, <3>1 DEF Keeps
  <2> HIDE DEF d3
  <2>5. d4 \in Rec(o) /\ d4.in = "unknown"
    <3>1. Keeps(d3, d4, o)
      BY <1>0, <2>4, Assigned, Zenon
    <3> QED BY <2>4, <3>1 DEF Keeps
  <2> HIDE DEF d4
  <2>6. Sound(WithTask(d4, NoTask), o) /\ WithTask(d4, NoTask).in = "unknown"
    BY <1>2, <1>3, <2>5
  <2> QED BY <2>1, <2>6, Zenon
<1> QED BY <1>5, <1>6, <1>7, <1>9, <1>10, <1>11, Zenon

-----------------------------------------------------------------------------
(* Steps that neither open an operation nor remove a task. *)

Put(t, l, o, r) == [t EXCEPT ![l][o] = r]
PutBoth(t, o, r, s) == [t EXCEPT !["up"][o] = r, !["down"][o] = s]

(* An assignment to one operation on one link. *)
LEMMA OneAssigned ==
    ASSUME NEW t, IsTable(t), NEW l \in Links, NEW o \in Ops, NEW r
    PROVE  /\ IsTable(Put(t, l, o, r))
           /\ Put(t, l, o, r)[l][o] = r
           /\ \A k \in Links, p \in Ops :
                 k # l \/ p # o => Put(t, l, o, r)[k][p] = t[k][p]
<1>1. IsTable(Put(t, l, o, r))
  BY Zenon DEF IsTable, Put
<1>2. \A k \in Links, p \in Ops :
         Put(t, l, o, r)[k][p] = IF k = l /\ p = o THEN r ELSE t[k][p]
  BY Zenon DEF IsTable, Put
<1> QED BY <1>1, <1>2, Zenon

(* An assignment to an operation on both links. *)
LEMMA BothAssigned ==
    ASSUME NEW t, IsTable(t), NEW o \in Ops, NEW r, NEW s
    PROVE  /\ IsTable(PutBoth(t, o, r, s))
           /\ PutBoth(t, o, r, s)["up"][o] = r
           /\ PutBoth(t, o, r, s)["down"][o] = s
           /\ \A k \in Links, p \in Ops : p # o => PutBoth(t, o, r, s)[k][p] = t[k][p]
<1> DEFINE v == Put(t, "up", o, r)
           w == Put(v, "down", o, s)
<1>0. "up" \in Links /\ "down" \in Links /\ "up" # "down"
  BY DEF Links
<1>1. PutBoth(t, o, r, s) = w
  BY Zenon DEF Put, PutBoth
<1>2. /\ IsTable(v)
      /\ v["up"][o] = r
      /\ \A k \in Links, p \in Ops : p # o => v[k][p] = t[k][p]
  BY <1>0, OneAssigned
<1> HIDE DEF v
<1>3. /\ IsTable(w)
      /\ w["down"][o] = s
      /\ \A k \in Links, p \in Ops : k # "down" \/ p # o => w[k][p] = v[k][p]
  BY <1>0, <1>2, OneAssigned
<1> HIDE DEF w
<1>4. w["up"][o] = r /\ \A k \in Links, p \in Ops : p # o => w[k][p] = t[k][p]
  BY <1>0, <1>2, <1>3, Zenon
<1> QED BY <1>1, <1>3, <1>4, Zenon

(* Steps of tasks, of the client and of an opening end keep the invariant. *)
LEMMA StepKeeps ==
    ASSUME DrainInv, IsTable(op'), Queues', UNCHANGED <<server, incoming, dispatch>>,
           \A l \in Links, o \in Ops : Evolves(op[l][o], op[l][o]', o)
    PROVE  DrainInv'
<1> SUFFICES ASSUME NEW l \in Links, NEW o \in Ops
             PROVE  Sound(op[l][o], o)' /\ Tracked(l, o)'
  BY Zenon DEF DrainInv
<1>1. /\ Sound(op[l][o]', o)
      /\ op[l][o]'.in = "active" => op[l][o].in = "active"
      /\ op[l][o].task.pc # "none" => op[l][o]'.task.pc # "none"
  BY Zenon DEF Evolves
<1>2. Sound(op[l][o], o)'
  BY <1>1 DEF Sound
<1>3. Tracked(l, o)
  BY Zenon DEF DrainInv
<1>4. (Waits(l, o) => Waits(l, o)') /\ (Answering(l, o) => Answering(l, o)')
  BY DEF Waits, Answering
<1>5. Tracked(l, o)'
  BY <1>1, <1>3, <1>4 DEF Tracked
<1> QED BY <1>2, <1>5

(* A record that stays as it is. *)
LEMMA Stays ==
    ASSUME NEW o, NEW r, Sound(r, o)
    PROVE  Evolves(r, r, o)
BY Zenon DEF Evolves, Sound

(* A step that touches the record of one operation on one link. *)
LEMMA OneStep ==
    ASSUME DrainInv, NEW l \in Links, NEW o \in Ops, NEW r, op' = Put(op, l, o, r),
           Evolves(op[l][o], r, o), Queues', UNCHANGED <<server, incoming, dispatch>>
    PROVE  DrainInv'
<1>1. IsTable(op) /\ \A k \in Links, p \in Ops : Sound(op[k][p], p)
  BY Zenon DEF DrainInv
<1>2. /\ IsTable(op')
      /\ op'[l][o] = r
      /\ \A k \in Links, p \in Ops : k # l \/ p # o => op'[k][p] = op[k][p]
  BY <1>1, OneAssigned
<1>3. ASSUME NEW k \in Links, NEW p \in Ops PROVE Evolves(op[k][p], op[k][p]', p)
  BY <1>1, <1>2, Stays, Zenon
<1> QED BY <1>2, <1>3, StepKeeps, Zenon

(* A step of a hop, which touches its operation on both links. *)
LEMMA BothStep ==
    ASSUME DrainInv, NEW o \in Ops, NEW r, NEW s, op' = PutBoth(op, o, r, s),
           Evolves(op["up"][o], r, o), Evolves(op["down"][o], s, o),
           Queues', UNCHANGED <<server, incoming, dispatch>>
    PROVE  DrainInv'
<1>1. IsTable(op) /\ \A k \in Links, p \in Ops : Sound(op[k][p], p)
  BY Zenon DEF DrainInv
<1>2. /\ IsTable(op')
      /\ op'["up"][o] = r /\ op'["down"][o] = s
      /\ \A k \in Links, p \in Ops : p # o => op'[k][p] = op[k][p]
  BY <1>1, BothAssigned
<1>3. ASSUME NEW k \in Links, NEW p \in Ops PROVE Evolves(op[k][p], op[k][p]', p)
  <2>1. k = "up" \/ k = "down"
    BY DEF Links
  <2> QED BY <1>1, <1>2, <2>1, Stays, Zenon
<1> QED BY <1>2, <1>3, StepKeeps, Zenon

(* Local, Relay and Sends keep the invariant when their records evolve. *)
LEMMA LocalStep ==
    ASSUME DrainInv, NEW l \in Links, NEW o \in Ops, NEW r, Local(l, o, r),
           Evolves(op[l][o], r, o)
    PROVE  DrainInv'
<1>1. op' = Put(op, l, o, r)
  BY Zenon DEF Local, Put
<1>2. UNCHANGED <<wire, incoming, back, arrived, dispatch, server, source>>
  BY Zenon DEF Local
<1>3. Queues'
  BY <1>2 DEF Queues, DrainInv
<1> QED BY <1>1, <1>2, <1>3, OneStep, Zenon

(* More messages on one of the wires. *)
LEMMA Written ==
    ASSUME Queues, NEW l \in Links, NEW q \in Seq(Requests),
           wire' = [wire EXCEPT ![l] = @ \o q],
           UNCHANGED <<incoming, back, arrived, dispatch, server, source>>
    PROVE  Queues'
<1>1. wire[l] \o q \in Seq(Requests) /\ wire \in [Links -> Seq(Requests)]
  BY DEF Queues
<1>2. wire' \in [Links -> Seq(Requests)]
  BY <1>1
<1> QED BY <1>2 DEF Queues

(* Relay: a forwarding task writes to the link below. *)
LEMMA RelayStep ==
    ASSUME DrainInv, NEW o \in Ops, NEW r, NEW s, NEW q \in Seq(Requests), Relay(o, r, s, q),
           Evolves(op["up"][o], r, o), Evolves(op["down"][o], s, o)
    PROVE  DrainInv'
<1>1. op' = PutBoth(op, o, r, s)
  BY Zenon DEF Relay, PutBoth
<1>2. UNCHANGED <<incoming, back, arrived, dispatch, server, source>>
  BY Zenon DEF Relay
<1>3. wire' = [wire EXCEPT !["down"] = @ \o q] /\ Queues /\ "down" \in Links
  BY DEF Relay, DrainInv, Links
<1>4. Queues'
  BY <1>2, <1>3, Written, Zenon
<1> QED BY <1>1, <1>2, <1>4, BothStep, Zenon

(* Sends: the client writes to its link. *)
LEMMA SendsStep ==
    ASSUME DrainInv, NEW o \in Ops, NEW r, NEW m \in Requests, Sends(o, r, m),
           Evolves(op["up"][o], r, o)
    PROVE  DrainInv'
<1>1. op' = Put(op, "up", o, r)
  BY Zenon DEF Sends, Put
<1>2. UNCHANGED <<incoming, back, arrived, dispatch, server, source>>
  BY Zenon DEF Sends
<1>3. "up" \in Links /\ wire \in [Links -> Seq(Requests)]
  BY DEF DrainInv, Links, Queues
<1>4. wire' = [wire EXCEPT !["up"] = Append(wire["up"], m)]
  BY Zenon DEF Sends
<1>5. wire' \in [Links -> Seq(Requests)]
  BY <1>3, <1>4
<1>6. Queues'
  BY <1>2, <1>5 DEF Queues, DrainInv
<1> QED BY <1>1, <1>2, <1>3, <1>6, OneStep, Zenon

-----------------------------------------------------------------------------
(* The tasks. *)

(* The names of the two links. *)
LEMMA Names ==
    /\ "up" \in Links /\ "down" \in Links
    /\ {"Completed", "Failed", "Canceled"} \subseteq Terminals
    /\ {"route", "run", "open_down", "relay", "stopping", "open", "stream"}
         \subseteq Pcs \ {"none", "ended"}
BY DEF Links, Terminals, Pcs

(* What is known of the record of an operation. *)
LEMMA Known ==
    ASSUME DrainInv, NEW l \in Links, NEW o \in Ops
    PROVE  /\ Sound(op[l][o], o)
           /\ op[l][o] \in Rec(o)
           /\ op[l][o].rx \in Seq(Answers(o))
           /\ op[l][o].controls \in Seq(Requests)
           /\ op[l][o].task \in Tasks
<1>1. Sound(op[l][o], o) /\ op[l][o] \in Rec(o)
  BY Zenon DEF DrainInv, Sound
<1> QED BY <1>1, Fields, Zenon

(* run_rpc and run_local_rpc. *)
LEMMA RpcSteps ==
    ASSUME DrainInv, NEW l \in Links, NEW o \in Ops,
           run_rpc(l, o) \/ cancel_local_rpc(l, o) \/ run_local_rpc(l, o)
    PROVE  DrainInv'
<1> DEFINE rec == op[l][o]
<1>1. Sound(rec, o)
  BY Known, Zenon
<1>2. \A res \in Terminals : Local(l, o, Ended(rec, res)) => DrainInv'
  BY <1>1, LocalStep, TaskRecords, Zenon
<1>3. \A pc \in Pcs \ {"none", "ended"} : Local(l, o, Moved(rec, pc)) => DrainInv'
  BY <1>1, LocalStep, TaskRecords, Zenon
<1>4. /\ "Canceled" \in Terminals /\ "Failed" \in Terminals /\ "Completed" \in Terminals
      /\ (IF Owns(l, o) THEN "run" ELSE "open_down") \in Pcs \ {"none", "ended"}
  BY DEF Terminals, Pcs
<1>5. CASE run_rpc(l, o)
  BY <1>2, <1>3, <1>4, <1>5, Zenon DEF run_rpc
<1>6. CASE cancel_local_rpc(l, o)
  BY <1>2, <1>4, <1>6, Zenon DEF cancel_local_rpc
<1>7. CASE run_local_rpc(l, o)
  BY <1>2, <1>4, <1>7 DEF run_local_rpc
<1> QED BY <1>5, <1>6, <1>7, Zenon

(* The opening half of a forwarded operation on "down", and a release. *)
LEMMA DownRecords ==
    ASSUME DrainInv, NEW o \in Ops
    PROVE  LET down == op["down"][o] IN
           /\ Evolves(down, down, o)
           /\ Evolves(down, Opened(down, o), o)
           /\ Evolves(down, Dropped(down), o)
           /\ Evolves(down, [down EXCEPT !.handle = "asked"], o)
           /\ down.rx # <<>> => Evolves(down, Popped(down), o)
           /\ \A n \in Int : Evolves(down, Committed(down, "GrantCredit", n), o)
<1> DEFINE down == op["down"][o]
<1>1. Sound(down, o) /\ down \in Rec(o)
  BY Names, Known, Zenon
<1>2. Keeps(down, [down EXCEPT !.handle = "asked"], o)
  BY <1>1, Assigned, Zenon
<1>3. /\ Keeps(down, Opened(down, o), o)
      /\ Keeps(down, Dropped(down), o)
      /\ down.rx # <<>> => Keeps(down, Popped(down), o)
      /\ \A n \in Int : Keeps(down, Committed(down, "GrantCredit", n), o)
  BY <1>1, OpenerRecords, Zenon
<1> QED BY <1>1, <1>2, <1>3, KeepsEvolves, Stays, Zenon

(* A forwarding task that ends and drops its handle. *)
LEMMA Abandoned ==
    ASSUME DrainInv, NEW o \in Ops, NEW res \in Terminals, Abandon(o, res)
    PROVE  DrainInv'
<1> DEFINE q == IF Releases("down", o) THEN <<Msg(Release(o), o, 0)>> ELSE <<>>
<1>1. Msg(Release(o), o, 0) \in Requests
  BY Request, Zenon
<1>2. q \in Seq(Requests)
  BY <1>1
<1>3. Evolves(op["up"][o], Ended(op["up"][o], res), o)
  BY Names, Known, TaskRecords, Zenon
<1>4. Evolves(op["down"][o], Dropped(op["down"][o]), o)
  BY DownRecords, Zenon
<1>5. Relay(o, Ended(op["up"][o], res), Dropped(op["down"][o]), q)
  BY Zenon DEF Abandon
<1> HIDE DEF q
<1> QED BY <1>2, <1>3, <1>4, <1>5, RelayStep, Zenon

(* The steps of a relay, by what becomes of the task and of the handle. *)
LEMMA Relays ==
    ASSUME DrainInv, NEW o \in Ops
    PROVE  LET rec == op["up"][o]
               down == op["down"][o]
           IN  \A s :
               Evolves(down, s, o) =>
                 \A q \in Seq(Requests) :
                   /\ \A res \in Terminals : Relay(o, Ended(rec, res), s, q) => DrainInv'
                   /\ \A pc \in Pcs \ {"none", "ended"} :
                         Relay(o, Moved(rec, pc), s, q) => DrainInv'
                   /\ rec.controls # <<>> =>
                         /\ Relay(o, Moved([rec EXCEPT !.controls = Tail(@)], "stopping"), s, q)
                              => DrainInv'
                         /\ Relay(o, Credited(rec), s, q) => DrainInv'
                   /\ \A n \in Int : Relay(o, Forwarded(rec, n), s, q) => DrainInv'
                   /\ Relay(o, rec, s, q) => DrainInv'
<1> DEFINE rec == op["up"][o]
           down == op["down"][o]
<1> SUFFICES ASSUME NEW s, Evolves(down, s, o), NEW q \in Seq(Requests)
             PROVE  /\ \A res \in Terminals : Relay(o, Ended(rec, res), s, q) => DrainInv'
                    /\ \A pc \in Pcs \ {"none", "ended"} :
                          Relay(o, Moved(rec, pc), s, q) => DrainInv'
                    /\ rec.controls # <<>> =>
                         /\ Relay(o, Moved([rec EXCEPT !.controls = Tail(@)], "stopping"), s, q)
                              => DrainInv'
                         /\ Relay(o, Credited(rec), s, q) => DrainInv'
                    /\ \A n \in Int : Relay(o, Forwarded(rec, n), s, q) => DrainInv'
                    /\ Relay(o, rec, s, q) => DrainInv'
  BY Zenon
<1>1. Sound(rec, o)
  BY Names, Known, Zenon
<1>2. \A r : Evolves(rec, r, o) => (Relay(o, r, s, q) => DrainInv')
  BY RelayStep, Zenon
<1>3. \A res \in Terminals : Evolves(rec, Ended(rec, res), o)
  BY <1>1, TaskRecords, Zenon
<1>4. \A pc \in Pcs \ {"none", "ended"} : Evolves(rec, Moved(rec, pc), o)
  BY <1>1, TaskRecords, Zenon
<1>5. "stopping" \in Pcs \ {"none", "ended"}
  BY DEF Pcs
<1>6. rec.controls # <<>> =>
        /\ Evolves(rec, Moved([rec EXCEPT !.controls = Tail(@)], "stopping"), o)
        /\ Evolves(rec, Credited(rec), o)
  BY <1>1, <1>5, TaskRecords, Zenon
<1>7. \A n \in Int : Evolves(rec, Forwarded(rec, n), o)
  BY <1>1, TaskRecords, Zenon
<1>8. Evolves(rec, rec, o)
  BY <1>1, Stays, Zenon
<1> QED BY <1>2, <1>3, <1>4, <1>6, <1>7, <1>8, Zenon

(* A cancellation or a stop is passed on. *)
LEMMA StopsPassOn ==
    ASSUME DrainInv, NEW o \in Ops, Controlled("up", o),
           cancel_downstream(o) \/ stop_downstream(o)
    PROVE  DrainInv'
<1> DEFINE rec == op["up"][o]
           down == op["down"][o]
<1>1. rec.controls # <<>>
  BY Zenon DEF Controlled
<1>2. Evolves(down, [down EXCEPT !.handle = "asked"], o)
  BY DownRecords, Zenon
<1>3. Msg("Cancel", o, 0) \in Requests /\ Msg("Unsubscribe", o, 0) \in Requests
  BY Request DEF Controls
<1>4. <<Msg("Cancel", o, 0)>> \in Seq(Requests) /\ <<Msg("Unsubscribe", o, 0)>> \in Seq(Requests)
  BY <1>3
<1>5. \A q \in Seq(Requests) :
         Relay(o, Moved([rec EXCEPT !.controls = Tail(@)], "stopping"),
               [down EXCEPT !.handle = "asked"], q) => DrainInv'
  BY <1>1, <1>2, Relays, Zenon
<1>6. (Abandon(o, "Canceled") => DrainInv') /\ (Abandon(o, "Completed") => DrainInv')
  BY Abandoned, Names, Zenon
<1>7. CASE cancel_downstream(o)
  BY <1>4, <1>5, <1>6, <1>7, Zenon DEF cancel_downstream
<1>8. CASE stop_downstream(o)
  BY <1>4, <1>5, <1>6, <1>8, Zenon DEF stop_downstream
<1> QED BY <1>7, <1>8, Zenon

(* What a forwarding task reads from its response queue: for an RPC only   *)
(* terminal messages.                                                      *)
LEMMA FirstResponse ==
    ASSUME DrainInv, NEW l \in Links, NEW o \in Ops, Ready(l, o)
    PROVE  /\ op[l][o].rx # <<>>
           /\ Head(op[l][o].rx) \in Responses
           /\ Head(op[l][o].rx).type \in Replies(o)
<1>1. op[l][o].rx # <<>> /\ op[l][o].rx \in Seq(Answers(o))
  BY Known, Zenon DEF Ready
<1>2. Head(op[l][o].rx) \in Answers(o)
  BY <1>1
<1> QED BY <1>1, <1>2, AnswerFacts, Zenon

(* run_forwarded_rpc: the task is there until it has a result. *)
LEMMA ForwardedRpcSteps ==
    ASSUME DrainInv, NEW o \in Ops, run_forwarded_rpc(o)
    PROVE  DrainInv'
<1> DEFINE rec == op["up"][o]
           down == op["down"][o]
<1>1. o \in Rpcs
  BY Zenon DEF run_forwarded_rpc
<1>2. <<Msg("Invoke", o, 0)>> \in Seq(Requests) /\ <<>> \in Seq(Requests)
  <2>1. Msg("Invoke", o, 0) \in Requests
    BY <1>1, Request, Zenon
  <2> QED BY <2>1
<1>3. Relay(o, Moved(rec, "relay"), Opened(down, o), <<Msg("Invoke", o, 0)>>) => DrainInv'
  <2>1. Evolves(down, Opened(down, o), o) /\ "relay" \in Pcs \ {"none", "ended"}
    BY DownRecords, Names, Zenon
  <2> QED BY <1>2, <2>1, Relays, Zenon
<1>4. Relay(o, Ended(rec, "Failed"), down, <<>>) => DrainInv'
  BY <1>2, DownRecords, Relays, Names, Zenon
<1>5. ASSUME Ready("down", o)
      PROVE  Relay(o, Ended(rec, Head(down.rx).type), Popped(down), <<>>) => DrainInv'
  <2>1. down.rx # <<>> /\ Head(down.rx).type \in Terminals
    BY <1>1, <1>5, FirstResponse, Names, Zenon DEF Replies
  <2>2. Evolves(down, Popped(down), o)
    BY <2>1, DownRecords, Zenon
  <2> QED BY <1>2, <2>1, <2>2, Relays, Zenon
<1>6. (Abandon(o, "Failed") => DrainInv') /\ (Abandon(o, "Canceled") => DrainInv')
  BY Abandoned, Names, Zenon
<1>7. Controlled("up", o) /\ cancel_downstream(o) => DrainInv'
  BY StopsPassOn, Zenon
<1> QED BY <1>3, <1>4, <1>5, <1>6, <1>7, Zenon DEF run_forwarded_rpc

(* run_forwarded_subscription, but for its events. *)
LEMMA ForwardedSubscriptionSteps ==
    ASSUME DrainInv, NEW o \in Ops, run_forwarded_subscription(o)
    PROVE  DrainInv'
<1> DEFINE rec == op["up"][o]
           down == op["down"][o]
           head == Head(down.rx).type
<1>1. o \in Subs
  BY Zenon DEF run_forwarded_subscription
<1>2. <<Msg("Subscribe", o, 0)>> \in Seq(Requests) /\ <<>> \in Seq(Requests)
  <2>1. Msg("Subscribe", o, 0) \in Requests
    BY <1>1, Request, Zenon
  <2> QED BY <2>1
<1>3. Relay(o, Moved(rec, "relay"), Opened(down, o), <<Msg("Subscribe", o, 0)>>) => DrainInv'
  <2>1. Evolves(down, Opened(down, o), o) /\ "relay" \in Pcs \ {"none", "ended"}
    BY DownRecords, Names, Zenon
  <2> QED BY <1>2, <2>1, Relays, Zenon
<1>4. Relay(o, Ended(rec, "Failed"), down, <<>>) => DrainInv'
  BY <1>2, DownRecords, Relays, Names, Zenon
<1>5. IsCredit("up", o) /\ Relay(o, Credited(rec), down, <<>>) => DrainInv'
  <2>1. IsCredit("up", o) => rec.controls # <<>>
    BY Zenon DEF IsCredit, Controlled
  <2>2. Evolves(down, down, o)
    BY DownRecords, Zenon
  <2> QED BY <1>2, <2>1, <2>2, Relays, Zenon
<1>6. IsStop("up", o) /\ stop_downstream(o) => DrainInv'
  BY StopsPassOn, Zenon DEF IsStop
<1>7. ASSUME Ready("down", o)
      PROVE  /\ head \in Terminals /\ Relay(o, Ended(rec, head), Popped(down), <<>>) => DrainInv'
             /\ Relay(o, IF head \in Terminals THEN Ended(rec, head) ELSE rec, Popped(down), <<>>)
                  => DrainInv'
  <2>1. down.rx # <<>>
    BY <1>7, Zenon DEF Ready
  <2>2. Evolves(down, Popped(down), o)
    BY <2>1, DownRecords, Zenon
  <2>3. /\ head \in Terminals => (Relay(o, Ended(rec, head), Popped(down), <<>>) => DrainInv')
        /\ Relay(o, rec, Popped(down), <<>>) => DrainInv'
    BY <1>2, <2>2, Relays, Zenon
  <2> HIDE DEF rec, down, head
  <2> QED BY <2>3, Zenon
<1>8. (Abandon(o, "Failed") => DrainInv') /\ (Abandon(o, "Completed") => DrainInv')
  BY Abandoned, Names, Zenon
<1> QED BY <1>3, <1>4, <1>5, <1>6, <1>7, <1>8, Zenon DEF run_forwarded_subscription

(* forward_available_credit. *)
LEMMA CreditSteps ==
    ASSUME DrainInv, NEW o \in Ops, forward_available_credit(o)
    PROVE  DrainInv'
<1> DEFINE rec == op["up"][o]
           down == op["down"][o]
<1>1. Grant(o) \in Int
  <2>1. rec.task.pending \in Int /\ rec.task.downstream \in Int
    BY Known, Names, TaskFields, Zenon
  <2>2. Window \in Int
    BY ControlPlaneAssumption
  <2> QED BY <2>1, <2>2 DEF Grant
<1>2. Msg("GrantCredit", o, Grant(o)) \in Requests
  BY <1>1, Request DEF Controls
<1>3. <<Msg("GrantCredit", o, Grant(o))>> \in Seq(Requests)
  BY <1>2
<1>4. Evolves(down, Committed(down, "GrantCredit", Grant(o)), o)
  BY <1>1, DownRecords, Zenon
<1>5. Relay(o, Forwarded(rec, Grant(o)), Committed(down, "GrantCredit", Grant(o)),
            <<Msg("GrantCredit", o, Grant(o))>>) => DrainInv'
  BY <1>1, <1>3, <1>4, Relays, Zenon
<1>6. Abandon(o, "Failed") => DrainInv'
  BY Abandoned, Names, Zenon
<1> QED BY <1>5, <1>6, Zenon DEF forward_available_credit

(* One more message to the opening end of a link. *)
LEMMA WrittenBack ==
    ASSUME Queues, NEW l \in Links, NEW m \in Responses \cup {Pong},
           back' = [back EXCEPT ![l] = Append(@, m)],
           UNCHANGED <<wire, incoming, arrived, dispatch, server, source>>
    PROVE  Queues'
<1>1. Append(back[l], m) \in Seq(Responses \cup {Pong})
      /\ back \in [Links -> Seq(Responses \cup {Pong})]
  BY DEF Queues
<1>2. back' \in [Links -> Seq(Responses \cup {Pong})]
  BY <1>1
<1> QED BY <1>2 DEF Queues

(* run_forwarded_subscription relays an event, or fails for want of credit. *)
LEMMA EventSteps ==
    ASSUME DrainInv, NEW o \in Ops, forward_event(o)
    PROVE  DrainInv'
<1> DEFINE rec == op["up"][o]
           down == op["down"][o]
           m == Head(down.rx)
<1>0. Queues /\ "up" \in Links /\ "down" \in Links
  BY Names, Zenon DEF DrainInv
<1>1. Ready("down", o)
  BY Zenon DEF forward_event
<1>2. m \in Responses /\ down.rx # <<>>
  BY <1>0, <1>1, FirstResponse, Zenon
<1>3. Sound(rec, o)
  BY <1>0, Known, Zenon
<1>4. CASE /\ op' = [op EXCEPT !["up"][o] = Relayed(rec), !["down"][o] = Popped(@)]
           /\ back' = [back EXCEPT !["up"] = Append(@, m)]
           /\ UNCHANGED <<opener, server, wire, arrived, incoming, dispatch,
                          accepting, source, fault, used>>
  <2>1. op' = PutBoth(op, o, Relayed(rec), Popped(down))
    BY <1>4, Zenon DEF PutBoth
  <2>2. Evolves(rec, Relayed(rec), o) /\ Evolves(down, Popped(down), o)
    BY <1>2, <1>3, TaskRecords, DownRecords, Zenon
  <2>3. m \in Responses \cup {Pong}
        /\ UNCHANGED <<wire, incoming, arrived, dispatch, server, source>>
    BY <1>2, <1>4, Zenon
  <2>4. back' = [back EXCEPT !["up"] = Append(@, m)]
    BY <1>4, Zenon
  <2> HIDE DEF m
  <2>5. Queues'
    BY <1>0, <2>3, <2>4, WrittenBack, Zenon
  <2> QED BY <2>1, <2>2, <2>3, <2>5, BothStep, Zenon
<1>5. CASE /\ op' = [op EXCEPT !["up"][o] = Ended(@, "Failed"), !["down"][o] = Dropped(@)]
           /\ wire' = [wire EXCEPT !["down"] = Append(@, Msg("Unsubscribe", o, 0))]
           /\ fault' = fault \cup {"credit"}
           /\ UNCHANGED <<opener, server, back, arrived, incoming, dispatch,
                          accepting, source, used>>
  <2>1. op' = PutBoth(op, o, Ended(rec, "Failed"), Dropped(down))
    BY <1>5, Zenon DEF PutBoth
  <2>2. Evolves(rec, Ended(rec, "Failed"), o) /\ Evolves(down, Dropped(down), o)
    BY <1>3, TaskRecords, DownRecords, Names, Zenon
  <2>3. Msg("Unsubscribe", o, 0) \in Requests
    BY Request DEF Controls
  <2>4. wire \in [Links -> Seq(Requests)]
    BY <1>0, Zenon DEF Queues
  <2>5. wire' \in [Links -> Seq(Requests)]
    BY <1>0, <1>5, <2>3, <2>4
  <2>6. UNCHANGED <<server, back, arrived, incoming, dispatch, source>>
    BY <1>5, Zenon
  <2>7. Queues'
    BY <1>0, <2>5, <2>6, SMTT(30) DEF Queues
  <2> QED BY <2>1, <2>2, <2>6, <2>7, BothStep, Zenon
<1> QED BY <1>4, <1>5, Zenon DEF forward_event

(* run_subscription and run_local_subscription. *)
LEMMA SubscriptionSteps ==
    ASSUME DrainInv, NEW l \in Links, NEW o \in Ops,
           control_subscription(l, o) \/ run_subscription(l, o)
    PROVE  DrainInv'
<1> DEFINE rec == op[l][o]
<1>1. Sound(rec, o)
  BY Known, Zenon
<1>2. \A res \in Terminals : Local(l, o, Ended(rec, res)) => DrainInv'
  BY <1>1, LocalStep, TaskRecords, Zenon
<1>3. \A pc \in Pcs \ {"none", "ended"} : Local(l, o, Moved(rec, pc)) => DrainInv'
  BY <1>1, LocalStep, TaskRecords, Zenon
<1>4. IsCredit(l, o) /\ Local(l, o, Credited(rec)) => DrainInv'
  <2>1. IsCredit(l, o) => rec.controls # <<>>
    BY Zenon DEF IsCredit, Controlled
  <2> QED BY <1>1, <2>1, LocalStep, TaskRecords, Zenon
<1>5. /\ "Failed" \in Terminals /\ "Completed" \in Terminals
      /\ (IF Owns(l, o) THEN "open" ELSE "open_down") \in Pcs \ {"none", "ended"}
      /\ "stream" \in Pcs \ {"none", "ended"}
  BY DEF Terminals, Pcs
<1>6. CASE control_subscription(l, o)
  BY <1>2, <1>4, <1>5, <1>6, Zenon DEF control_subscription
<1>7. CASE run_subscription(l, o)
  BY <1>2, <1>3, <1>5, <1>7, Zenon DEF run_subscription
<1> QED BY <1>6, <1>7, Zenon

(* An event of the source is polled, and sent. *)
LEMMA SourceSteps ==
    ASSUME DrainInv, NEW l \in Links, NEW o \in Ops,
           send_event(l, o) \/ poll_source(l, o)
    PROVE  DrainInv'
<1> DEFINE rec == op[l][o]
<1>1. Sound(rec, o) /\ Queues
  BY Known, Zenon DEF DrainInv
<1>2. \A res \in Terminals : Evolves(rec, Ended(rec, res), o)
  BY <1>1, TaskRecords, Zenon
<1>3. source \in [Ops -> Int]
  BY <1>1, Zenon DEF Queues
<1>4. CASE send_event(l, o) /\ Sendable(l, o)
  <2>1. op' = Put(op, l, o, Sent(rec))
    BY <1>4, Zenon DEF send_event, Put
  <2>2. /\ back' = [back EXCEPT ![l] = Append(@, Msg("Event", o, source[o]))]
        /\ UNCHANGED <<wire, incoming, arrived, dispatch, server, source>>
        /\ o \in Subs
    BY <1>4, Zenon DEF send_event
  <2>3. source[o] \in Int
    BY <1>3
  <2>4. Msg("Event", o, source[o]) \in Responses \cup {Pong}
    BY <2>2, <2>3, Response, Zenon
  <2>5. Queues'
    BY <1>1, <2>2, <2>4, WrittenBack, Zenon
  <2>6. Evolves(rec, Sent(rec), o)
    BY <1>1, TaskRecords, Zenon
  <2> QED BY <2>1, <2>2, <2>5, <2>6, OneStep, Zenon
<1>5. CASE send_event(l, o) /\ ~Sendable(l, o)
  <2>1. op' = Put(op, l, o, Ended(rec, "Failed"))
    BY <1>5, Zenon DEF send_event, Put
  <2>2. UNCHANGED <<wire, back, incoming, arrived, dispatch, server, source>>
    BY <1>5, Zenon DEF send_event
  <2>3. Queues'
    BY <1>1, <2>2 DEF Queues
  <2>4. Evolves(rec, Ended(rec, "Failed"), o)
    BY <1>2, Names
  <2> QED BY <2>1, <2>2, <2>3, <2>4, OneStep, Zenon
<1>6. CASE poll_source(l, o)
  <2>1. UNCHANGED <<wire, back, incoming, arrived, dispatch, server>>
    BY <1>6, Zenon DEF poll_source
  <2>2. source' \in [Ops -> Int]
    <3>1. source[o] + 1 \in Int
      BY <1>3
    <3>2. source' = [source EXCEPT ![o] = source[o] + 1] \/ source' = source
      BY <1>6, Zenon DEF poll_source
    <3> QED BY <1>3, <3>1, <3>2
  <2>3. Queues'
    BY <1>1, <2>1, <2>2 DEF Queues
  <2>4. PICK r : op' = Put(op, l, o, r) /\ Evolves(rec, r, o)
    <3>1. CASE op' = [op EXCEPT ![l][o] = Buffered(@)]
      <4>1. Evolves(rec, Buffered(rec), o)
        BY <1>1, TaskRecords, Zenon
      <4> QED BY <3>1, <4>1, Zenon DEF Put
    <3>2. CASE \E result \in {"Completed", "Failed"} : op' = [op EXCEPT ![l][o] = Ended(@, result)]
      <4>1. PICK result \in {"Completed", "Failed"} : op' = [op EXCEPT ![l][o] = Ended(@, result)]
        BY <3>2, Zenon
      <4>2. Evolves(rec, Ended(rec, result), o)
        BY <1>2, Names
      <4> QED BY <4>1, <4>2, Zenon DEF Put
    <3> QED BY <1>6, <3>1, <3>2, Zenon DEF poll_source
  <2> QED BY <2>1, <2>3, <2>4, OneStep, Zenon
<1> QED BY <1>4, <1>5, <1>6, Zenon

(* All steps of the tasks. *)
LEMMA TaskSteps ==
    ASSUME DrainInv, NEW l \in Links, NEW o \in Ops, TaskStep(l, o) \/ ServiceStep(l, o)
    PROVE  DrainInv'
BY RpcSteps, SubscriptionSteps, SourceSteps, ForwardedRpcSteps, ForwardedSubscriptionSteps,
   CreditSteps, EventSteps, Zenon DEF TaskStep, ServiceStep

-----------------------------------------------------------------------------
(* The client, its heartbeat, and the shutdown signal. *)

(* invoke, subscribe, grant_credit, cancel, stop, drop and recv at the     *)
(* client's end touch no inbound half and no task.                         *)
LEMMA ClientSteps ==
    ASSUME DrainInv, NEW o \in Ops,
           open(o) \/ grant_credit(o) \/ ask(o) \/ drop(o) \/ recv(o)
    PROVE  DrainInv'
<1> DEFINE rec == op["up"][o]
<1>0. "up" \in Links /\ Queues
  BY Names, Zenon DEF DrainInv
<1>1. Sound(rec, o) /\ rec \in Rec(o)
  BY <1>0, Known, Zenon
<1>2. \A s : Keeps(rec, s, o) => Evolves(rec, s, o)
  BY <1>1, KeepsEvolves, Zenon
<1>3. CASE open(o)
  <2>1. Evolves(rec, Opened(rec, o), o)
    BY <1>1, <1>2, OpenerRecords, Zenon
  <2>2. Msg(Opening(o), o, 0) \in Requests
    BY Request, Zenon
  <2> QED BY <1>3, <2>1, <2>2, SendsStep, Zenon DEF open
<1>4. CASE grant_credit(o)
  <2>1. PICK n \in 1 .. (MaxCredit - client[o].granted) :
          Sends(o, Committed(rec, "GrantCredit", n), Msg("GrantCredit", o, n))
    BY <1>4, Zenon DEF grant_credit
  <2>2. n \in Int /\ "GrantCredit" \in Controls
    BY DEF Controls
  <2>3. Evolves(rec, Committed(rec, "GrantCredit", n), o)
    BY <1>1, <1>2, <2>2, OpenerRecords, Zenon
  <2>4. Msg("GrantCredit", o, n) \in Requests
    BY <2>2, Request, Zenon
  <2> QED BY <2>1, <2>3, <2>4, SendsStep, Zenon
<1>5. CASE ask(o)
  <2>1. Keeps(rec, [rec EXCEPT !.handle = "asked"], o)
    BY <1>1, Assigned, Zenon
  <2>2. Msg(Release(o), o, 0) \in Requests
    BY Request, Zenon
  <2>3. Evolves(rec, [rec EXCEPT !.handle = "asked"], o)
    BY <1>2, <2>1, Zenon
  <2>4. Sends(o, [rec EXCEPT !.handle = "asked"], Msg(Release(o), o, 0))
    BY <1>5, Zenon DEF ask
  <2> QED BY <2>2, <2>3, <2>4, SendsStep, Zenon
<1>6. Evolves(rec, Dropped(rec), o)
  BY <1>1, <1>2, OpenerRecords, Zenon
<1>7. CASE drop(o)
  <2> DEFINE q == IF Releases("up", o) THEN <<Msg(Release(o), o, 0)>> ELSE <<>>
  <2>1. op' = Put(op, "up", o, Dropped(rec))
    BY <1>7, Zenon DEF drop, Put
  <2>2. wire' = [wire EXCEPT !["up"] = @ \o q]
        /\ UNCHANGED <<incoming, back, arrived, dispatch, server, source>>
    BY <1>7, Zenon DEF drop
  <2>3. Msg(Release(o), o, 0) \in Requests
    BY Request, Zenon
  <2>4. q \in Seq(Requests)
    BY <2>3
  <2> HIDE DEF q
  <2>5. Queues'
    BY <1>0, <2>2, <2>4, Written, Zenon
  <2> QED BY <1>0, <1>6, <2>1, <2>2, <2>5, OneStep, Zenon
<1>8. CASE recv(o)
  <2>1. UNCHANGED <<wire, incoming, back, arrived, dispatch, server, source>>
    BY <1>8, Zenon DEF recv
  <2>2. Queues'
    BY <1>0, <2>1 DEF Queues
  <2>3. op' = Put(op, "up", o, Dropped(rec)) \/ (op' = Put(op, "up", o, Popped(rec)) /\ rec.rx # <<>>)
    BY <1>8, Zenon DEF recv, Put, Ready
  <2>4. rec.rx # <<>> => Evolves(rec, Popped(rec), o)
    BY <1>1, <1>2, OpenerRecords, Zenon
  <2> QED BY <1>0, <1>6, <2>1, <2>2, <2>3, <2>4, OneStep, Zenon
<1> QED BY <1>3, <1>4, <1>5, <1>7, <1>8, Zenon

(* Nothing but the wires changes. *)
LEMMA QuietSteps ==
    ASSUME DrainInv, ping \/ \E l \in Links : shutdown(l)
    PROVE  DrainInv'
<1>0. /\ Queues /\ IsTable(op) /\ \A l \in Links, o \in Ops : Evolves(op[l][o], op[l][o], o)
      /\ "up" \in Links
  BY Stays, Names, Zenon DEF DrainInv
<1>1. UNCHANGED <<op, incoming, back, arrived, dispatch, server, source>>
  BY Zenon DEF ping, shutdown
<1>2. wire' \in [Links -> Seq(Requests)]
  <2>1. wire \in [Links -> Seq(Requests)]
    BY <1>0, Zenon DEF Queues
  <2>2. Msg("Ping", "heartbeat", 0) \in Requests
    BY DEF Requests
  <2>3. wire' = wire \/ wire' = [wire EXCEPT !["up"] = Append(wire["up"], Msg("Ping", "heartbeat", 0))]
    BY Zenon DEF ping, shutdown
  <2> QED BY <1>0, <2>1, <2>2, <2>3, SMTT(30)
<1>3. Queues'
  BY <1>0, <1>1, <1>2 DEF Queues
<1>4. IsTable(op') /\ \A l \in Links, o \in Ops : Evolves(op[l][o], op[l][o]', o)
  BY <1>0, <1>1, Zenon
<1> QED BY <1>1, <1>3, <1>4, StepKeeps, Zenon

-----------------------------------------------------------------------------
(* The driver and the dispatcher of a link. *)

(* The invariant from its parts. *)
LEMMA Rebuilt ==
    ASSUME IsTable(op'), Queues',
           \A l \in Links, o \in Ops : Sound(op[l][o]', o) /\ Tracked(l, o)'
    PROVE  DrainInv'
<1>1. \A l \in Links, o \in Ops : Sound(op[l][o], o)'
  BY DEF Sound
<1> QED BY <1>1, Zenon DEF DrainInv

(* An operation that is not touched is tracked as before. *)
LEMMA StillTracked ==
    ASSUME NEW l \in Links, NEW o \in Ops, Tracked(l, o),
           server[l]' = "up" => server[l] = "up",
           op[l][o]'.in = "active" => op[l][o].in = "active",
           op[l][o].task.pc # "none" => op[l][o]'.task.pc # "none",
           Waits(l, o) => Waits(l, o)',
           Answering(l, o) => Answering(l, o)'
    PROVE  Tracked(l, o)'
BY Zenon DEF Tracked

(* Driver::run puts a message into the incoming queue. *)
LEMMA Queued ==
    ASSUME Queues, NEW l \in Links, NEW m \in Requests,
           incoming' = [incoming EXCEPT ![l] = Append(@, m)]
    PROVE  /\ incoming' \in [Links -> Seq(Requests)]
           /\ \A k \in Links, p \in Ops : Waits(k, p) => Waits(k, p)'
           /\ \A p \in Ops : m = Msg(Opening(p), p, 0) => Waits(l, p)'
<1>1. incoming \in [Links -> Seq(Requests)]
  BY Zenon DEF Queues
<1>2. /\ incoming'[l] = Append(incoming[l], m)
      /\ \A k \in Links : k # l => incoming'[k] = incoming[k]
  BY <1>1, Zenon
<1>3. incoming[l] \in Seq(Requests)
  BY <1>1, Zenon
<1>4. /\ Append(incoming[l], m) \in Seq(Requests)
      /\ Len(incoming[l]) + 1 \in DOMAIN Append(incoming[l], m)
      /\ Append(incoming[l], m)[Len(incoming[l]) + 1] = m
      /\ \A i \in DOMAIN incoming[l] : /\ i \in DOMAIN Append(incoming[l], m)
                                       /\ Append(incoming[l], m)[i] = incoming[l][i]
  BY <1>3
<1>5. incoming' \in [Links -> Seq(Requests)]
  BY <1>1, <1>4
<1>6. \A p \in Ops : m = Msg(Opening(p), p, 0) => Waits(l, p)'
  BY <1>2, <1>4, Zenon DEF Waits
<1>7. \A k \in Links, p \in Ops : Waits(k, p) => Waits(k, p)'
  BY <1>2, <1>4, ZenonT(40) DEF Waits
<1> QED BY <1>5, <1>6, <1>7, Zenon

(* The dispatcher takes the first message of its queue. *)
LEMMA Taken ==
    ASSUME Queues, NEW l \in Links, incoming[l] # <<>>,
           incoming' = [incoming EXCEPT ![l] = Tail(@)]
    PROVE  /\ incoming' \in [Links -> Seq(Requests)]
           /\ Head(incoming[l]) \in Requests
           /\ \A k \in Links, p \in Ops :
                Waits(k, p) => \/ Waits(k, p)'
                               \/ k = l /\ Head(incoming[l]) = Msg(Opening(p), p, 0)
<1>1. incoming \in [Links -> Seq(Requests)]
  BY Zenon DEF Queues
<1>2. /\ incoming'[l] = Tail(incoming[l])
      /\ \A k \in Links : k # l => incoming'[k] = incoming[k]
  BY <1>1, Zenon
<1>3. incoming[l] \in Seq(Requests)
  BY <1>1, Zenon
<1>4. /\ Tail(incoming[l]) \in Seq(Requests)
      /\ Head(incoming[l]) \in Requests /\ Head(incoming[l]) = incoming[l][1]
      /\ \A i \in DOMAIN incoming[l] :
            i # 1 => /\ i - 1 \in DOMAIN Tail(incoming[l])
                     /\ Tail(incoming[l])[i - 1] = incoming[l][i]
  BY <1>3
<1>5. incoming' \in [Links -> Seq(Requests)]
  BY <1>1, <1>4
<1>6. ASSUME NEW p \in Ops, Waits(l, p), Head(incoming[l]) # Msg(Opening(p), p, 0)
      PROVE  Waits(l, p)'
  <2>1. PICK i \in DOMAIN incoming[l] : incoming[l][i] = Msg(Opening(p), p, 0)
    BY <1>6, Zenon DEF Waits
  <2>2. i # 1
    BY <1>4, <1>6, <2>1, Zenon
  <2>3. i - 1 \in DOMAIN incoming'[l] /\ incoming'[l][i - 1] = Msg(Opening(p), p, 0)
    BY <1>2, <1>4, <2>1, <2>2, Zenon
  <2> QED BY <2>3, Zenon DEF Waits
<1>7. ASSUME NEW k \in Links, NEW p \in Ops, k # l, Waits(k, p) PROVE Waits(k, p)'
  BY <1>2, <1>7, Zenon DEF Waits
<1> QED BY <1>4, <1>5, <1>6, <1>7, Zenon

(* What the dispatcher waits to get rid of, by its type. *)
LEMMA DispatchFacts ==
    ASSUME Queues, NEW l \in Links
    PROVE  /\ dispatch[l].type \in Controls => dispatch[l] \in Requests /\ dispatch[l].op \in Ops
           /\ dispatch[l].type \in Terminals => dispatch[l] \in Responses /\ dispatch[l].op \in Ops
           /\ dispatch[l].type = "Pong" => dispatch[l] = Pong
<1>1. dispatch[l] \in {Idle, Pong} \cup Requests \cup Responses
  BY DEF Queues
<1>2. CASE dispatch[l] = Idle
  BY <1>2 DEF Idle, Controls, Terminals
<1>3. CASE dispatch[l] = Pong
  BY <1>3 DEF Pong, Msg, Controls, Terminals
<1>4. CASE dispatch[l] \in Requests
  BY <1>4, RequestFacts DEF Controls, Terminals
<1>5. CASE dispatch[l] \in Responses
  BY <1>5, ResponseFacts DEF Controls, Terminals
<1> QED BY <1>1, <1>2, <1>3, <1>4, <1>5, Zenon

(* A dispatcher that waits for nothing has no terminal message to send. *)
LEMMA IdleType == Idle.type \notin Terminals /\ Idle.type = "Idle"
BY DEF Idle, Terminals

(* An admitted message: an opening is now in the queue, anything else      *)
(* leaves the inbound half and the task as they were.                      *)
LEMMA AdmittedTracks ==
    ASSUME DrainInv, NEW l \in Links, NEW m \in Requests, m.type # "Ping",
           op' = Put(op, l, m.op, Received(op[l][m.op], m)),
           Queues', UNCHANGED <<server, dispatch>>,
           \A k \in Links, p \in Ops : Waits(k, p) => Waits(k, p)',
           \A p \in Ops : m = Msg(Opening(p), p, 0) => Waits(l, p)'
    PROVE  DrainInv'
<1> DEFINE r == Received(op[l][m.op], m)
<1>0. IsTable(op) /\ \A k \in Links, p \in Ops : Sound(op[k][p], p) /\ Tracked(k, p)
  BY Zenon DEF DrainInv
<1>1. m.op \in Ops
  BY RequestFacts, Zenon
<1>2. Sound(op[l][m.op], m.op)
  BY <1>0, <1>1, Zenon
<1>3. /\ Sound(r, m.op)
      /\ r.task = op[l][m.op].task
      /\ m.type \notin {"Invoke", "Subscribe"} => r.in = op[l][m.op].in
  BY <1>1, <1>2, ServerRecords, Zenon
<1>4. op' = Put(op, l, m.op, r)
  OBVIOUS
<1> HIDE DEF r
<1>5. /\ IsTable(op')
      /\ op'[l][m.op] = r
      /\ \A k \in Links, p \in Ops : k # l \/ p # m.op => op'[k][p] = op[k][p]
  BY <1>0, <1>1, <1>4, OneAssigned
<1>6. \A k \in Links, p \in Ops : Answering(k, p) => Answering(k, p)'
  BY Zenon DEF Answering
<1>7. Tracked(l, m.op)'
  <2>1. CASE m.type \in {"Invoke", "Subscribe"}
    <3>1. m = Msg(Opening(m.op), m.op, 0)
      BY <2>1, RequestFacts, Zenon
    <3>2. Waits(l, m.op)'
      BY <1>1, <3>1, Zenon
    <3> QED BY <3>2, Zenon DEF Tracked
  <2>2. CASE m.type \notin {"Invoke", "Subscribe"}
    <3>1. op'[l][m.op].in = op[l][m.op].in /\ op'[l][m.op].task = op[l][m.op].task
      BY <1>3, <1>5, <2>2, Zenon
    <3> QED BY <1>0, <1>1, <1>6, <3>1, StillTracked, Zenon
  <2> QED BY <2>1, <2>2, Zenon
<1>8. ASSUME NEW k \in Links, NEW p \in Ops, k # l \/ p # m.op PROVE Tracked(k, p)'
  <2>1. op'[k][p] = op[k][p]
    BY <1>5, <1>8, Zenon
  <2> QED BY <1>0, <1>6, <2>1, StillTracked, Zenon
<1>9. \A k \in Links, p \in Ops : Sound(op[k][p]', p) /\ Tracked(k, p)'
  BY <1>0, <1>3, <1>5, <1>7, <1>8, Zenon
<1> QED BY <1>5, <1>9, Rebuilt, Zenon

(* An admitted message moves from the wire into the queue. *)
LEMMA ReceiveAdmitted ==
    ASSUME DrainInv, NEW l \in Links, wire[l] # <<>>, NEW m, m = Head(wire[l]),
           incoming' = [incoming EXCEPT ![l] = Append(@, m)],
           op' = IF m.type = "Ping" THEN op ELSE Put(op, l, m.op, Received(op[l][m.op], m)),
           wire' = [wire EXCEPT ![l] = Tail(@)],
           UNCHANGED <<server, dispatch, back, arrived, source>>
    PROVE  DrainInv'
<1>0. Queues /\ IsTable(op) /\ \A k \in Links, p \in Ops : Sound(op[k][p], p) /\ Tracked(k, p)
  BY Zenon DEF DrainInv
<1>1. wire \in [Links -> Seq(Requests)]
  BY <1>0, Zenon DEF Queues
<1>2. m \in Requests /\ wire' \in [Links -> Seq(Requests)]
  BY <1>1
<1>3. /\ incoming' \in [Links -> Seq(Requests)]
      /\ \A k \in Links, p \in Ops : Waits(k, p) => Waits(k, p)'
      /\ \A p \in Ops : m = Msg(Opening(p), p, 0) => Waits(l, p)'
  BY <1>0, <1>2, Queued, Zenon
<1>4. Queues'
  BY <1>0, <1>2, <1>3, SMTT(30) DEF Queues
<1>5. \A k \in Links, p \in Ops : Answering(k, p) => Answering(k, p)'
  BY Zenon DEF Answering
<1>6. CASE m.type = "Ping"
  <2>1. op' = op
    BY <1>6, Zenon
  <2>2. \A k \in Links, p \in Ops : Tracked(k, p)'
    BY <1>0, <1>3, <1>5, <2>1, StillTracked, Zenon
  <2> QED BY <1>0, <1>4, <2>1, <2>2, Rebuilt, Zenon
<1>7. CASE m.type # "Ping"
  <2>1. op' = Put(op, l, m.op, Received(op[l][m.op], m))
    BY <1>7, Zenon
  <2> QED BY <1>2, <1>3, <1>4, <1>7, <2>1, AdmittedTracks, Zenon
<1> QED BY <1>6, <1>7, Zenon

(* The opening end of a link. *)
LEMMA OpenerEndsKeeps ==
    ASSUME DrainInv, NEW l \in Links, OpenerEnds(l),
           UNCHANGED <<server, wire, incoming, dispatch, source>>
    PROVE  DrainInv'
<1> DEFINE row == [o \in Ops |-> [op[l][o] EXCEPT !.route = FALSE]]
<1>0. Queues /\ IsTable(op) /\ \A k \in Links, p \in Ops : Sound(op[k][p], p)
  BY Zenon DEF DrainInv
<1>1. op' = [op EXCEPT ![l] = row]
  BY Zenon DEF OpenerEnds
<1>2. \A o \in Ops : Evolves(op[l][o], row[o], o)
  <2> SUFFICES ASSUME NEW o \in Ops PROVE Evolves(op[l][o], [op[l][o] EXCEPT !.route = FALSE], o)
    BY Zenon
  <2>1. Sound(op[l][o], o) /\ op[l][o] \in Rec(o)
    BY Known, Zenon
  <2>2. Keeps(op[l][o], [op[l][o] EXCEPT !.route = FALSE], o)
    BY <2>1, Assigned, Zenon
  <2> QED BY <2>1, <2>2, KeepsEvolves, Zenon
<1>3. row = [o \in Ops |-> row[o]]
  BY Zenon
<1> HIDE DEF row
<1>4. IsTable(op') /\ op'[l] = row /\ \A k \in Links : k # l => op'[k] = op[k]
  BY <1>0, <1>1, <1>3, Zenon DEF IsTable
<1>5. \A k \in Links, o \in Ops : Evolves(op[k][o], op[k][o]', o)
  BY <1>0, <1>2, <1>4, Stays, Zenon
<1>6. /\ back' = [back EXCEPT ![l] = <<>>] /\ arrived' = [arrived EXCEPT ![l] = <<>>]
  BY Zenon DEF OpenerEnds
<1>7. back' \in [Links -> Seq(Responses \cup {Pong})] /\ arrived' \in [Links -> Seq(Responses)]
  BY <1>0, <1>6 DEF Queues
<1>8. Queues'
  BY <1>0, <1>7 DEF Queues
<1> QED BY <1>4, <1>5, <1>8, StepKeeps, Zenon

(* Responses at the opening end: LinkState accounts for them, and          *)
(* OutboundRoutes hands them to their handle.                              *)
LEMMA ResponseSteps ==
    ASSUME DrainInv, NEW l \in Links, receive_response(l) \/ route_response(l)
    PROVE  DrainInv'
<1>0. /\ Queues /\ IsTable(op)
      /\ \A k \in Links, p \in Ops : Sound(op[k][p], p) /\ op[k][p] \in Rec(p)
  BY Zenon DEF DrainInv, Sound
<1>1. back \in [Links -> Seq(Responses \cup {Pong})] /\ arrived \in [Links -> Seq(Responses)]
  BY <1>0, Zenon DEF Queues
<1>2. Pong.type = "Pong"
  BY DEF Pong, Msg
<1>3. CASE receive_response(l) /\ Head(back[l]).type = "Pong"
  <2>1. /\ back' = [back EXCEPT ![l] = Tail(@)] /\ back[l] # <<>>
        /\ UNCHANGED <<op, wire, incoming, arrived, dispatch, server, source>>
    BY <1>3, Zenon DEF receive_response
  <2>2. back' \in [Links -> Seq(Responses \cup {Pong})]
    BY <1>1, <2>1
  <2>3. Queues'
    BY <1>0, <2>1, <2>2 DEF Queues
  <2>4. IsTable(op') /\ \A k \in Links, o \in Ops : Evolves(op[k][o], op[k][o]', o)
    BY <1>0, <2>1, Stays, Zenon
  <2> QED BY <2>1, <2>3, <2>4, StepKeeps, Zenon
<1>4. CASE receive_response(l) /\ Head(back[l]).type # "Pong" /\ Expected(l, Head(back[l]))
  <2> DEFINE m == Head(back[l])
  <2>1. /\ back' = [back EXCEPT ![l] = Tail(@)] /\ back[l] # <<>>
        /\ arrived' = [arrived EXCEPT ![l] = Append(@, m)]
        /\ op' = Put(op, l, m.op, Accounted(op[l][m.op], m))
        /\ UNCHANGED <<wire, incoming, dispatch, server, source>>
    BY <1>4, Zenon DEF receive_response, Put
  <2>2. m \in Responses
    BY <1>1, <1>2, <1>4, <2>1
  <2>3. back' \in [Links -> Seq(Responses \cup {Pong})] /\ arrived' \in [Links -> Seq(Responses)]
    BY <1>1, <2>1, <2>2
  <2>4. Queues'
    BY <1>0, <2>1, <2>3, SMTT(30) DEF Queues
  <2>5. m.op \in Ops
    BY <2>2, ResponseFacts, Zenon
  <2> HIDE DEF m
  <2>6. Evolves(op[l][m.op], Accounted(op[l][m.op], m), m.op)
    BY <1>0, <2>5, OpenerRecords, KeepsEvolves, Zenon
  <2> QED BY <2>1, <2>4, <2>5, <2>6, OneStep, Zenon
<1>5. CASE receive_response(l) /\ Head(back[l]).type # "Pong" /\ ~Expected(l, Head(back[l]))
  BY <1>5, OpenerEndsKeeps, Zenon DEF receive_response
<1>6. CASE route_response(l)
  <2> DEFINE m == Head(arrived[l])
  <2>1. /\ arrived' = [arrived EXCEPT ![l] = Tail(@)] /\ arrived[l] # <<>>
        /\ op' = Put(op, l, m.op, Routed(op[l][m.op], m))
        /\ UNCHANGED <<wire, back, incoming, dispatch, server, source>>
    BY <1>6, Zenon DEF route_response, Put
  <2>2. m \in Responses /\ arrived' \in [Links -> Seq(Responses)]
    BY <1>1, <2>1
  <2>3. Queues'
    BY <1>0, <2>1, <2>2 DEF Queues
  <2>4. m.op \in Ops /\ m \in Answers(m.op)
    BY <2>2, ResponseFacts, Zenon
  <2> HIDE DEF m
  <2>5. Evolves(op[l][m.op], Routed(op[l][m.op], m), m.op)
    BY <1>0, <2>4, OpenerRecords, KeepsEvolves, Zenon
  <2> QED BY <2>1, <2>3, <2>4, <2>5, OneStep, Zenon
<1> QED BY <1>3, <1>4, <1>5, <1>6, Zenon

(* A step of a dispatcher that touches one operation of its link. *)
LEMMA DispatcherStep ==
    ASSUME DrainInv, NEW l \in Links, NEW o \in Ops, IsTable(op'), Queues', UNCHANGED server,
           Sound(op[l][o]', o), Tracked(l, o)',
           \A k \in Links, p \in Ops : k # l \/ p # o =>
              /\ op[k][p]' = op[k][p]
              /\ Waits(k, p) => Waits(k, p)'
              /\ Answering(k, p) => Answering(k, p)'
    PROVE  DrainInv'
<1>1. \A k \in Links, p \in Ops : Sound(op[k][p], p) /\ Tracked(k, p)
  BY Zenon DEF DrainInv
<1>2. ASSUME NEW k \in Links, NEW p \in Ops, k # l \/ p # o
      PROVE  Sound(op[k][p]', p) /\ Tracked(k, p)'
  <2>1. /\ op[k][p]' = op[k][p]
        /\ Waits(k, p) => Waits(k, p)'
        /\ Answering(k, p) => Answering(k, p)'
    BY <1>2, Zenon
  <2>2. Tracked(k, p)'
    BY <1>1, <2>1, StillTracked, Zenon
  <2> QED BY <1>1, <2>1, <2>2, Zenon
<1>3. \A k \in Links, p \in Ops : Sound(op[k][p]', p) /\ Tracked(k, p)'
  BY <1>2, Zenon
<1> QED BY <1>3, Rebuilt, Zenon

(* The same, when it touches none. *)
LEMMA IdleStep ==
    ASSUME DrainInv, Queues', UNCHANGED <<op, server>>,
           \A k \in Links, p \in Ops : /\ Waits(k, p) => Waits(k, p)'
                                       /\ Answering(k, p) => Answering(k, p)'
    PROVE  DrainInv'
<1>1. IsTable(op) /\ \A k \in Links, p \in Ops : Sound(op[k][p], p) /\ Tracked(k, p)
  BY Zenon DEF DrainInv
<1>2. \A k \in Links, p \in Ops : Tracked(k, p)'
  BY <1>1, StillTracked, Zenon
<1> QED BY <1>1, <1>2, Rebuilt, Zenon

(* What the dispatcher of l has to send changes only what l answers.  If   *)
(* nothing was to be answered before, nothing is lost.                     *)
LEMMA Dispatched ==
    ASSUME Queues, NEW l \in Links, NEW d \in {Idle, Pong} \cup Requests \cup Responses,
           dispatch' = [dispatch EXCEPT ![l] = d]
    PROVE  /\ dispatch' \in [Links -> {Idle, Pong} \cup Requests \cup Responses]
           /\ dispatch'[l] = d
           /\ \A k \in Links, p \in Ops : k # l /\ Answering(k, p) => Answering(k, p)'
           /\ dispatch[l].type \notin Terminals =>
                \A k \in Links, p \in Ops : Answering(k, p) => Answering(k, p)'
<1>1. dispatch \in [Links -> {Idle, Pong} \cup Requests \cup Responses]
  BY Zenon DEF Queues
<1>2. dispatch' \in [Links -> {Idle, Pong} \cup Requests \cup Responses]
  BY <1>1
<1>3. dispatch'[l] = d /\ \A k \in Links : k # l => dispatch'[k] = dispatch[k]
  BY <1>1, Zenon
<1>4. \A k \in Links, p \in Ops : k # l /\ Answering(k, p) => Answering(k, p)'
  BY <1>3, Zenon DEF Answering
<1>5. dispatch[l].type \notin Terminals => \A p \in Ops : ~Answering(l, p)
  BY Zenon DEF Answering
<1> QED BY <1>2, <1>3, <1>4, <1>5, Zenon

(* handle_task_result: the task is gone, and its terminal message is now   *)
(* what the dispatcher sends.                                              *)
LEMMA TaskResultStep ==
    ASSUME DrainInv, NEW l \in Links, NEW o \in Ops, handle_task_result(l, o)
    PROVE  DrainInv'
<1> DEFINE rec == op[l][o]
           d == Msg(rec.task.result, o, 0)
<1>0. Queues /\ IsTable(op) /\ Sound(rec, o)
  BY Zenon DEF DrainInv
<1>1. rec.task.result \in Terminals /\ 0 \in Int
  BY <1>0 DEF Sound, handle_task_result
<1>2. d \in Responses
  BY <1>1, Response, Zenon
<1>3. d.type \in Terminals /\ d.op = o
  BY <1>1 DEF Msg
<1>4. dispatch[l].type \notin Terminals
  BY IdleType, Zenon DEF handle_task_result
<1>5. dispatch' = [dispatch EXCEPT ![l] = d]
      /\ UNCHANGED <<wire, back, arrived, incoming, server, source>>
  BY Zenon DEF handle_task_result
<1>6. op' = Put(op, l, o, Joined(rec))
  BY Zenon DEF handle_task_result, Put
<1> HIDE DEF d
<1>7. /\ dispatch' \in [Links -> {Idle, Pong} \cup Requests \cup Responses]
      /\ dispatch'[l] = d
      /\ \A k \in Links, p \in Ops : Answering(k, p) => Answering(k, p)'
  BY <1>0, <1>2, <1>4, <1>5, Dispatched, Zenon
<1>8. Queues'
  BY <1>0, <1>5, <1>7 DEF Queues
<1>9. Answering(l, o)'
  BY <1>3, <1>7, Zenon DEF Answering
<1>10. Tracked(l, o)'
  BY <1>9, Zenon DEF Tracked
<1>11. Sound(Joined(rec), o)
  BY <1>0, ServerRecords, Zenon
<1> HIDE DEF rec
<1>12. /\ IsTable(op') /\ op'[l][o] = Joined(rec)
       /\ \A k \in Links, p \in Ops : k # l \/ p # o => op'[k][p] = op[k][p]
  BY <1>0, <1>6, OneAssigned
<1>13. \A k \in Links, p \in Ops : Waits(k, p) => Waits(k, p)'
  BY <1>5, Zenon DEF Waits
<1>14. \A k \in Links, p \in Ops : k # l \/ p # o =>
          /\ op[k][p]' = op[k][p]
          /\ Waits(k, p) => Waits(k, p)'
          /\ Answering(k, p) => Answering(k, p)'
  BY <1>7, <1>12, <1>13, Zenon
<1>15. Sound(op[l][o]', o) /\ UNCHANGED server /\ IsTable(op')
  BY <1>5, <1>11, <1>12, Zenon
<1> QED BY <1>8, <1>10, <1>14, <1>15, DispatcherStep, Zenon

(* A control goes to a task: the operation is tracked as before. *)
LEMMA DeliveredKeeps ==
    ASSUME DrainInv, NEW l \in Links, NEW m \in Requests, m.op \in Ops,
           op' = Put(op, l, m.op, Delivered(op[l][m.op], m)), Queues', UNCHANGED server,
           \A k \in Links, p \in Ops : /\ k # l \/ p # m.op => (Waits(k, p) => Waits(k, p)')
                                       /\ Answering(k, p) => Answering(k, p)',
           Waits(l, m.op) => Waits(l, m.op)'
    PROVE  DrainInv'
<1> DEFINE r == Delivered(op[l][m.op], m)
           o == m.op
<1>0. IsTable(op) /\ \A k \in Links, p \in Ops : Sound(op[k][p], p) /\ Tracked(k, p)
  BY Zenon DEF DrainInv
<1>1. Keeps(op[l][o], r, o) /\ Sound(op[l][o], o)
  BY <1>0, ServerRecords, Zenon
<1>2. Sound(r, o) /\ r.in = op[l][o].in /\ r.task = op[l][o].task
  BY <1>1, Zenon DEF Keeps, Sound
<1>3. op' = Put(op, l, o, r) /\ o \in Ops
  OBVIOUS
<1> HIDE DEF r
<1>4. /\ IsTable(op') /\ op'[l][o] = r
      /\ \A k \in Links, p \in Ops : k # l \/ p # o => op'[k][p] = op[k][p]
  BY <1>0, <1>3, OneAssigned
<1>5. Tracked(l, o)'
  BY <1>0, <1>2, <1>3, <1>4, StillTracked, Zenon
<1> QED BY <1>2, <1>3, <1>4, <1>5, DispatcherStep, ZenonT(40)

(* A control gets its place in the queue of a task. *)
LEMMA DeliverStep ==
    ASSUME DrainInv, NEW l \in Links, deliver(l)
    PROVE  DrainInv'
<1> DEFINE m == dispatch[l]
<1>0. Queues /\ IsTable(op) /\ \A k \in Links, p \in Ops : Sound(op[k][p], p) /\ Tracked(k, p)
  BY Zenon DEF DrainInv
<1>1. m.type \in Controls
  BY Zenon DEF deliver, Controls
<1>2. m \in Requests /\ m.op \in Ops
  BY <1>0, <1>1, DispatchFacts, Zenon
<1>3. dispatch[l].type \notin Terminals
  BY <1>1 DEF Controls, Terminals
<1>4. dispatch' = [dispatch EXCEPT ![l] = Idle]
      /\ UNCHANGED <<wire, back, arrived, incoming, server, source>>
  BY Zenon DEF deliver
<1>5. op' = Put(op, l, m.op, Delivered(op[l][m.op], m))
  BY Zenon DEF deliver, Put
<1>6. /\ dispatch' \in [Links -> {Idle, Pong} \cup Requests \cup Responses]
      /\ \A k \in Links, p \in Ops : Answering(k, p) => Answering(k, p)'
  BY <1>0, <1>3, <1>4, Dispatched, Zenon
<1>7. Queues'
  BY <1>0, <1>4, <1>6 DEF Queues
<1>8. \A k \in Links, p \in Ops : Waits(k, p) => Waits(k, p)'
  BY <1>4, Zenon DEF Waits
<1> QED BY <1>2, <1>4, <1>5, <1>6, <1>7, <1>8, DeliveredKeeps, Zenon

(* handle_rpc and handle_subscription: an opening that leaves the queue    *)
(* gets a task or is what the dispatcher refuses.                          *)
LEMMA MessageStep ==
    ASSUME DrainInv, NEW l \in Links, handle_message(l)
    PROVE  DrainInv'
<1> SUFFICES ASSUME NEW m, m = Head(incoming[l]) PROVE DrainInv'
  OBVIOUS
<1> DEFINE rec == op[l][m.op]
           refused == ~accepting[l] \/ Active(l, m.op) >= MaxActive
<1>0. Queues /\ IsTable(op) /\ \A k \in Links, p \in Ops : Sound(op[k][p], p) /\ Tracked(k, p)
  BY Zenon DEF DrainInv
<1>1. /\ incoming[l] # <<>> /\ incoming' = [incoming EXCEPT ![l] = Tail(@)]
      /\ dispatch[l] = Idle
      /\ UNCHANGED <<server, wire, back, arrived, source>>
  BY Zenon DEF handle_message
<1>2. /\ incoming' \in [Links -> Seq(Requests)]
      /\ m \in Requests
      /\ \A k \in Links, p \in Ops :
            Waits(k, p) => Waits(k, p)' \/ (k = l /\ m = Msg(Opening(p), p, 0))
  BY <1>0, <1>1, Taken, Zenon
<1>3. dispatch[l].type \notin Terminals
  BY <1>1, IdleType, Zenon
<1>4. ASSUME NEW d \in {Idle, Pong} \cup Requests \cup Responses,
             dispatch' = [dispatch EXCEPT ![l] = d]
      PROVE  Queues' /\ dispatch'[l] = d
             /\ \A k \in Links, p \in Ops : Answering(k, p) => Answering(k, p)'
  <2>1. /\ dispatch' \in [Links -> {Idle, Pong} \cup Requests \cup Responses]
        /\ dispatch'[l] = d
        /\ \A k \in Links, p \in Ops : Answering(k, p) => Answering(k, p)'
    BY <1>0, <1>3, <1>4, Dispatched, Zenon
  <2>2. Queues'
    BY <1>0, <1>1, <1>2, <2>1 DEF Queues
  <2> QED BY <2>1, <2>2, Zenon
<1>5. ASSUME dispatch' = dispatch
      PROVE  Queues' /\ \A k \in Links, p \in Ops : Answering(k, p) => Answering(k, p)'
  <2>1. Queues'
    BY <1>0, <1>1, <1>2, <1>5 DEF Queues
  <2>2. \A k \in Links, p \in Ops : Answering(k, p) => Answering(k, p)'
    BY <1>5, Zenon DEF Answering
  <2> QED BY <2>1, <2>2, Zenon
<1>6. \A p : m = Msg(Opening(p), p, 0) => m.op = p /\ m.type \in {"Invoke", "Subscribe"}
  BY DEF Msg, Opening
<1>7. CASE m.type = "Ping"
  <2>1. UNCHANGED op /\ dispatch' = [dispatch EXCEPT ![l] = Msg("Pong", m.op, 0)]
    BY <1>7, Zenon DEF handle_message
  <2>2. Msg("Pong", m.op, 0) = Pong
    BY <1>2, <1>7, RequestFacts, Zenon DEF Pong
  <2>3. Queues' /\ \A k \in Links, p \in Ops : Answering(k, p) => Answering(k, p)'
    BY <1>4, <2>1, <2>2, Zenon
  <2>4. \A k \in Links, p \in Ops : Waits(k, p) => Waits(k, p)'
    BY <1>2, <1>6, <1>7, Zenon
  <2> QED BY <1>1, <2>1, <2>3, <2>4, IdleStep, Zenon
<1>8. CASE m.type \in {"Invoke", "Subscribe"}
  <2>1. m.op \in Ops
    BY <1>2, <1>8, RequestFacts
  <2>2. \A k \in Links, p \in Ops : k # l \/ p # m.op => (Waits(k, p) => Waits(k, p)')
    BY <1>2, <1>6, Zenon
  <2>3. CASE refused
    <3>1. UNCHANGED op /\ dispatch' = [dispatch EXCEPT ![l] = Msg("Failed", m.op, 0)]
      BY <1>8, <2>3, Zenon DEF handle_message
    <3>2. Msg("Failed", m.op, 0) \in Responses
      BY <2>1, Response, Names
    <3>3. Queues' /\ dispatch'[l] = Msg("Failed", m.op, 0)
          /\ \A k \in Links, p \in Ops : Answering(k, p) => Answering(k, p)'
      BY <1>4, <3>1, <3>2, Zenon
    <3>4. Msg("Failed", m.op, 0).type \in Terminals /\ Msg("Failed", m.op, 0).op = m.op
      BY DEF Msg, Terminals
    <3>5. Answering(l, m.op)'
      BY <3>3, <3>4, Zenon DEF Answering
    <3>6. Tracked(l, m.op)' /\ Sound(op[l][m.op], m.op)
      BY <1>0, <2>1, <3>5, Zenon DEF Tracked
    <3>7. /\ \A k \in Links, p \in Ops : k # l \/ p # m.op =>
               /\ op[k][p]' = op[k][p]
               /\ Waits(k, p) => Waits(k, p)'
               /\ Answering(k, p) => Answering(k, p)'
          /\ IsTable(op') /\ UNCHANGED server /\ op[l][m.op]' = op[l][m.op]
      BY <1>0, <1>1, <2>2, <3>1, <3>3, Zenon
    <3>8. Sound(op[l][m.op]', m.op)
      BY <3>6, <3>7, Zenon
    <3> QED BY <2>1, <3>3, <3>6, <3>7, <3>8, DispatcherStep
  <2>4. CASE ~refused
    <3>1. op' = Put(op, l, m.op, Spawned(rec)) /\ dispatch' = dispatch
      BY <1>8, <2>4, Zenon DEF handle_message, Put
    <3>2. Queues' /\ \A k \in Links, p \in Ops : Answering(k, p) => Answering(k, p)'
      BY <1>5, <3>1, Zenon
    <3>3. Sound(Spawned(rec), m.op) /\ Spawned(rec).task.pc # "none"
      BY <1>0, <2>1, ServerRecords, Zenon
    <3> HIDE DEF rec
    <3>4. /\ IsTable(op') /\ op'[l][m.op] = Spawned(rec)
          /\ \A k \in Links, p \in Ops : k # l \/ p # m.op => op'[k][p] = op[k][p]
      BY <1>0, <2>1, <3>1, OneAssigned
    <3>5. Tracked(l, m.op)' /\ Sound(op[l][m.op]', m.op)
      BY <3>3, <3>4, Zenon DEF Tracked
    <3>6. /\ \A k \in Links, p \in Ops : k # l \/ p # m.op =>
               /\ op[k][p]' = op[k][p]
               /\ Waits(k, p) => Waits(k, p)'
               /\ Answering(k, p) => Answering(k, p)'
          /\ UNCHANGED server
      BY <1>1, <2>2, <3>2, <3>4, Zenon
    <3> QED BY <2>1, <3>2, <3>4, <3>5, <3>6, DispatcherStep
  <2> QED BY <2>3, <2>4, Zenon
<1>9. CASE m.type \in {"Cancel", "GrantCredit", "Unsubscribe"}
  <2>1. m.op \in Ops
    BY <1>2, <1>9, RequestFacts
  <2>2. \A k \in Links, p \in Ops : Waits(k, p) => Waits(k, p)'
    BY <1>2, <1>6, <1>9
  <2>3. /\ op' = IF rec.listed /\ Takes(rec)
                 THEN Put(op, l, m.op, Delivered(rec, m)) ELSE op
        /\ dispatch' = IF rec.listed /\ ~Takes(rec)
                       THEN [dispatch EXCEPT ![l] = m] ELSE dispatch
    BY <1>9, Zenon DEF handle_message, Put
  <2>4. Queues' /\ \A k \in Links, p \in Ops : Answering(k, p) => Answering(k, p)'
    BY <1>2, <1>4, <1>5, <2>3, Zenon
  <2>5. CASE op' = op
    BY <1>1, <2>2, <2>4, <2>5, IdleStep, Zenon
  <2>6. CASE op' = Put(op, l, m.op, Delivered(rec, m))
    BY <1>1, <1>2, <2>1, <2>2, <2>4, <2>6, DeliveredKeeps, Zenon
  <2> QED BY <2>3, <2>5, <2>6, Zenon
<1> QED BY <1>2, <1>7, <1>8, <1>9, RequestFacts DEF Controls

(* An operation that is answered is no longer open. *)
LEMMA AnsweredTracks ==
    ASSUME DrainInv, NEW l \in Links, NEW o \in Ops,
           op' = Put(op, l, o, Answered(op[l][o], o)), Queues', UNCHANGED server,
           \A k \in Links, p \in Ops : k # l \/ p # o =>
              /\ Waits(k, p) => Waits(k, p)'
              /\ Answering(k, p) => Answering(k, p)'
    PROVE  DrainInv'
<1> DEFINE r == Answered(op[l][o], o)
<1>0. IsTable(op) /\ Sound(op[l][o], o)
  BY Zenon DEF DrainInv
<1>1. Sound(r, o) /\ r.in # "active"
  BY <1>0, ServerRecords
<1>2. op' = Put(op, l, o, r)
  OBVIOUS
<1> HIDE DEF r
<1>3. /\ IsTable(op') /\ op'[l][o] = r
      /\ \A k \in Links, p \in Ops : k # l \/ p # o => op'[k][p] = op[k][p]
  BY <1>0, <1>2, OneAssigned
<1>4. Tracked(l, o)' /\ Sound(op[l][o]', o)
  BY <1>1, <1>3, Zenon DEF Tracked
<1>5. \A k \in Links, p \in Ops : k # l \/ p # o =>
         /\ op[k][p]' = op[k][p]
         /\ Waits(k, p) => Waits(k, p)'
         /\ Answering(k, p) => Answering(k, p)'
  BY <1>3, Zenon
<1> QED BY <1>3, <1>4, <1>5, DispatcherStep, Zenon

(* Driver::send_command writes the answer of the dispatcher: the operation *)
(* is no longer open in LinkState.                                         *)
LEMMA AnswerWritten ==
    ASSUME DrainInv, NEW l \in Links, NEW m, m = dispatch[l],
           m.type \in Terminals \cup {"Pong"},
           back' = [back EXCEPT ![l] = Append(@, m)],
           dispatch' = [dispatch EXCEPT ![l] = Idle],
           op' = IF m.type = "Pong" THEN op ELSE Put(op, l, m.op, Answered(op[l][m.op], m.op)),
           UNCHANGED <<server, wire, incoming, arrived, source>>
    PROVE  DrainInv'
<1>0. Queues /\ IsTable(op) /\ \A k \in Links, p \in Ops : Sound(op[k][p], p) /\ Tracked(k, p)
  BY Zenon DEF DrainInv
<1>1. /\ m.type = "Pong" => m = Pong
      /\ m.type # "Pong" => m \in Responses /\ m.op \in Ops
  BY <1>0, DispatchFacts, Zenon
<1>2. /\ dispatch' \in [Links -> {Idle, Pong} \cup Requests \cup Responses]
      /\ \A k \in Links, p \in Ops : k # l /\ Answering(k, p) => Answering(k, p)'
      /\ dispatch[l].type \notin Terminals =>
           \A k \in Links, p \in Ops : Answering(k, p) => Answering(k, p)'
  BY <1>0, Dispatched, Zenon
<1>3. back \in [Links -> Seq(Responses \cup {Pong})]
  BY <1>0, Zenon DEF Queues
<1>4. back' \in [Links -> Seq(Responses \cup {Pong})]
  BY <1>1, <1>3
<1>5. Queues'
  BY <1>0, <1>2, <1>4, SMTT(30) DEF Queues
<1>6. \A k \in Links, p \in Ops : Waits(k, p) => Waits(k, p)'
  BY Zenon DEF Waits
<1>7. CASE m.type = "Pong"
  <2>1. op' = op /\ dispatch[l].type \notin Terminals
    BY <1>7 DEF Terminals
  <2> QED BY <1>2, <1>5, <1>6, <2>1, IdleStep, Zenon
<1>8. CASE m.type # "Pong"
  <2>1. m.op \in Ops /\ op' = Put(op, l, m.op, Answered(op[l][m.op], m.op))
    BY <1>1, <1>8, Zenon
  <2>2. \A p \in Ops : Answering(l, p) => p = m.op
    BY Zenon DEF Answering
  <2>3. \A k \in Links, p \in Ops : k # l \/ p # m.op =>
           /\ Waits(k, p) => Waits(k, p)'
           /\ Answering(k, p) => Answering(k, p)'
    BY <1>2, <1>6, <2>2
  <2> QED BY <1>5, <2>1, <2>3, AnsweredTracks, Zenon
<1> QED BY <1>7, <1>8, Zenon

-----------------------------------------------------------------------------
(* The end of a serving end. *)

INSTANCE FiniteSetTheorems

(* The releases and openings that aborted tasks leave to the driver. *)
LEMMA Farewells ==
    ASSUME NEW S \in SUBSET Ops, NEW T, NEW s \in Orders(S)
    PROVE  [i \in DOMAIN s |-> Msg(IF s[i] \in T THEN Opening(s[i]) ELSE Release(s[i]), s[i], 0)]
             \in Seq(Requests)
<1> DEFINE F(o) == Msg(IF o \in T THEN Opening(o) ELSE Release(o), o, 0)
<1>1. IsFiniteSet(Ops)
  BY ControlPlaneAssumption, FS_Union, Zenon DEF Ops
<1>2. IsFiniteSet(S)
  BY <1>1, FS_Subset, Zenon
<1>3. Cardinality(S) \in Nat
  BY <1>2, FS_CardinalityType, Zenon
<1>4. s \in [1 .. Cardinality(S) -> S]
  BY DEF Orders
<1>5. \A o \in Ops : F(o) \in Requests
  BY Request, Zenon
<1> HIDE DEF F
<1>6. DOMAIN s = 1 .. Cardinality(S) /\ \A i \in DOMAIN s : s[i] \in Ops
  BY <1>4
<1>7. [i \in DOMAIN s |-> F(s[i])] \in [1 .. Cardinality(S) -> Requests]
  BY <1>5, <1>6, Zenon
<1>8. [i \in DOMAIN s |-> F(s[i])] \in Seq(Requests)
  BY <1>3, <1>7
<1> QED BY <1>8, Zenon DEF F

(* The serving end of l is gone: nothing is open there any more, and a hop *)
(* has dropped its handles on "down".                                      *)
LEMMA ServerGone ==
    ASSUME DrainInv, NEW l \in Links, NEW how \in {"down", "drained"}, IsTable(op'), Queues',
           server' = [server EXCEPT ![l] = how],
           \A o \in Ops : Sound(op[l][o]', o),
           \A k \in Links, o \in Ops : k # l =>
              /\ Evolves(op[k][o], op[k][o]', o)
              /\ incoming[k]' = incoming[k] /\ dispatch[k]' = dispatch[k]
    PROVE  DrainInv'
<1>0. Queues /\ \A k \in Links, p \in Ops : Sound(op[k][p], p) /\ Tracked(k, p)
  BY Zenon DEF DrainInv
<1>1. server \in [Links -> {"up", "down", "drained"}]
  BY <1>0, Zenon DEF Queues
<1>2. server'[l] # "up" /\ \A k \in Links : k # l => server'[k] = server[k]
  BY <1>1
<1>3. \A o \in Ops : Tracked(l, o)'
  BY <1>2, Zenon DEF Tracked
<1>4. ASSUME NEW k \in Links, NEW o \in Ops, k # l PROVE Sound(op[k][o]', o) /\ Tracked(k, o)'
  <2>1. /\ Evolves(op[k][o], op[k][o]', o)
        /\ incoming[k]' = incoming[k] /\ dispatch[k]' = dispatch[k]
    BY <1>4, Zenon
  <2>2. /\ Sound(op[k][o]', o)
        /\ op[k][o]'.in = "active" => op[k][o].in = "active"
        /\ op[k][o].task.pc # "none" => op[k][o]'.task.pc # "none"
    BY <2>1, Zenon DEF Evolves
  <2>3. (Waits(k, o) => Waits(k, o)') /\ (Answering(k, o) => Answering(k, o)')
    BY <2>1, Zenon DEF Waits, Answering
  <2>4. server[k]' = "up" => server[k] = "up"
    BY <1>2, <1>4, Zenon
  <2> QED BY <1>0, <2>2, <2>3, <2>4, StillTracked, Zenon
<1>5. \A k \in Links, o \in Ops : Sound(op[k][o]', o) /\ Tracked(k, o)'
  BY <1>3, <1>4, Zenon
<1> QED BY <1>5, Rebuilt, Zenon

(* Dispatcher and driver of a serving end are gone: its tasks are aborted, *)
(* and a hop lets go of what it had open below.                            *)
LEMMA ServerEndsKeeps ==
    ASSUME DrainInv, NEW l \in Links, NEW how \in {"down", "drained"}, ServerEnds(l, how),
           UNCHANGED <<back, arrived, source>>
    PROVE  DrainInv'
<1>0. Queues /\ IsTable(op) /\ \A k \in Links, p \in Ops : Sound(op[k][p], p) /\ op[k][p] \in Rec(p)
  BY Zenon DEF DrainInv, Sound
<1>1. /\ server' = [server EXCEPT ![l] = how]
      /\ incoming' = [incoming EXCEPT ![l] = <<>>]
      /\ dispatch' = [dispatch EXCEPT ![l] = Idle]
  BY Zenon DEF ServerEnds
<1>2. /\ server' \in [Links -> {"up", "down", "drained"}]
      /\ incoming' \in [Links -> Seq(Requests)]
      /\ dispatch' \in [Links -> {Idle, Pong} \cup Requests \cup Responses]
  BY <1>0, <1>1 DEF Queues
<1>3. \A k \in Links : k # l => incoming[k]' = incoming[k] /\ dispatch[k]' = dispatch[k]
  BY <1>0, <1>1 DEF Queues
<1>4. wire' \in [Links -> Seq(Requests)] => Queues'
  BY <1>0, <1>2 DEF Queues
<1>5. \A o \in Ops : Sound(Cleared(op[l][o]), o)
  BY <1>0, ServerRecords, Zenon
<1>6. Aborted(l) = [o \in Ops |-> Cleared(op[l][o])]
  BY Zenon DEF Aborted
<1>7. CASE l = "down"
  <2>1. op' = [op EXCEPT ![l] = Aborted(l)] /\ wire' = [wire EXCEPT ![l] = <<>>]
    BY <1>7, Zenon DEF ServerEnds
  <2>2. wire' \in [Links -> Seq(Requests)]
    BY <1>0, <2>1 DEF Queues
  <2>3. /\ IsTable(op')
        /\ \A o \in Ops : op'[l][o] = Cleared(op[l][o])
        /\ \A k \in Links, o \in Ops : k # l => op'[k][o] = op[k][o]
    BY <1>0, <1>6, <2>1, Zenon DEF IsTable
  <2>4. /\ \A o \in Ops : Sound(op[l][o]', o)
        /\ \A k \in Links, o \in Ops : k # l => Evolves(op[k][o], op[k][o]', o)
    BY <1>0, <1>5, <2>3, Stays, Zenon
  <2>5. \A k \in Links, o \in Ops : k # l =>
           /\ Evolves(op[k][o], op[k][o]', o)
           /\ incoming[k]' = incoming[k] /\ dispatch[k]' = dispatch[k]
    BY <1>3, <2>4, Zenon
  <2> QED BY <1>1, <1>4, <2>2, <2>3, <2>4, <2>5, ServerGone, Zenon
<1>8. CASE l # "down"
  <2> DEFINE held == {o \in Ops : op["down"][o].handle \in {"open", "asked"}}
             Gone(o) == [Opened(op["down"][o], o) EXCEPT !.handle = "gone"]
             senders(lost) == lost \cup {o \in held : Releases("down", o)}
             left(lost, o) == CASE o \in lost -> Gone(o)
                                [] o \in held -> Dropped(op["down"][o])
                                [] OTHER -> op["down"][o]
             row(lost) == [o \in Ops |-> left(lost, o)]
             farewell(lost, s) ==
                [i \in DOMAIN s |-> Msg(IF s[i] \in lost THEN Opening(s[i]) ELSE Release(s[i]), s[i], 0)]
  <2>1. PICK lost \in SUBSET {o \in Ops : InOpening(o)} :
          /\ op' = [up |-> Aborted(l), down |-> row(lost)]
          /\ \E s \in Orders(senders(lost)) :
                wire' = [up |-> <<>>, down |-> wire["down"] \o farewell(lost, s)]
    BY <1>8, Zenon DEF ServerEnds
  <2>2. PICK s \in Orders(senders(lost)) :
          wire' = [up |-> <<>>, down |-> wire["down"] \o farewell(lost, s)]
    BY <2>1, Zenon
  <2>3. l = "up" /\ Links = {"up", "down"} /\ "up" # "down"
    BY <1>8 DEF Links
  <2>4. farewell(lost, s) \in Seq(Requests)
    <3>1. senders(lost) \in SUBSET Ops
      BY Zenon
    <3> HIDE DEF senders
    <3> QED BY <2>2, <3>1, Farewells, Zenon
  <2>5. \A o \in Ops : left(lost, o) \in {Gone(o), Dropped(op["down"][o]), op["down"][o]}
    BY Zenon
  <2>7. \A o \in Ops : /\ Keeps(op["down"][o], Gone(o), o)
                       /\ Keeps(op["down"][o], Dropped(op["down"][o]), o)
                       /\ Sound(op["down"][o], o)
    <3> SUFFICES ASSUME NEW o \in Ops
                 PROVE  /\ Keeps(op["down"][o], Gone(o), o)
                        /\ Keeps(op["down"][o], Dropped(op["down"][o]), o)
                        /\ Sound(op["down"][o], o)
      BY Zenon
    <3>1. op["down"][o] \in Rec(o) /\ Sound(op["down"][o], o)
      BY Known, Names, Zenon
    <3>2. Keeps(op["down"][o], Opened(op["down"][o], o), o) /\ Keeps(op["down"][o], Dropped(op["down"][o]), o)
      BY <3>1, OpenerRecords, Zenon
    <3>3. Keeps(op["down"][o], Gone(o), o)
      BY <3>2, Then, Zenon
    <3> QED BY <3>1, <3>2, <3>3, Zenon
  <2>8. wire["down"] \in Seq(Requests)
    BY <1>0, Names DEF Queues
  <2> HIDE DEF farewell, left, held, Gone, senders
  <2>6. row(lost) = [o \in Ops |-> row(lost)[o]] /\ \A o \in Ops : row(lost)[o] = left(lost, o)
    BY Zenon
  <2> HIDE DEF row
  <2>9. wire["down"] \o farewell(lost, s) \in Seq(Requests) /\ <<>> \in Seq(Requests)
    BY <2>4, <2>8
  <2>10. wire' \in [Links -> Seq(Requests)]
    <3>1. ASSUME NEW a \in Seq(Requests), NEW b \in Seq(Requests), NEW f, f = [up |-> a, down |-> b]
          PROVE  f \in [{"up", "down"} -> Seq(Requests)]
      BY <3>1
    <3> QED BY <2>2, <2>3, <2>9, <3>1, Zenon
  <2>11. /\ op'["up"] = Aborted(l) /\ op'["down"] = row(lost)
         /\ op' = [k \in Links |-> op'[k]]
    <3>1. ASSUME NEW a, NEW b, NEW f, f = [up |-> a, down |-> b]
          PROVE  f["up"] = a /\ f["down"] = b /\ f = [k \in {"up", "down"} |-> f[k]]
      BY <3>1
    <3> QED BY <2>1, <2>3, <3>1, Zenon
  <2>12. IsTable(op')
    BY <1>6, <2>3, <2>6, <2>11 DEF IsTable
  <2>13. \A o \in Ops : Sound(op[l][o]', o)
    BY <1>5, <1>6, <2>3, <2>11
  <2>14. \A o \in Ops : Evolves(op["down"][o], row(lost)[o], o)
    BY <2>5, <2>6, <2>7, KeepsEvolves, Stays, Zenon
  <2>15. \A k \in Links, o \in Ops : k # l =>
           /\ Evolves(op[k][o], op[k][o]', o)
           /\ incoming[k]' = incoming[k] /\ dispatch[k]' = dispatch[k]
    BY <1>3, <2>3, <2>11, <2>14
  <2> QED BY <1>1, <1>4, <2>10, <2>12, <2>13, <2>15, ServerGone, Zenon
<1> QED BY <1>7, <1>8, Zenon

-----------------------------------------------------------------------------
(* Driver::run at the serving end: a message is admitted, ignored, or ends *)
(* the link.                                                               *)
LEMMA ReceiveStep ==
    ASSUME DrainInv, NEW l \in Links, receive(l)
    PROVE  DrainInv'
<1> SUFFICES ASSUME NEW m, m = Head(wire[l]) PROVE DrainInv'
  OBVIOUS
<1>0. Queues
  BY Zenon DEF DrainInv
<1>1. wire[l] # <<>> /\ UNCHANGED <<back, arrived, source>>
  BY Zenon DEF receive
<1>2. CASE Admits(l, m)
  <2>1. /\ incoming' = [incoming EXCEPT ![l] = Append(@, m)]
        /\ op' = IF m.type = "Ping" THEN op ELSE Put(op, l, m.op, Received(op[l][m.op], m))
        /\ wire' = [wire EXCEPT ![l] = Tail(@)]
        /\ UNCHANGED <<server, dispatch>>
    BY <1>2, Zenon DEF receive, Put
  <2> QED BY <1>1, <2>1, ReceiveAdmitted, Zenon
<1>3. CASE ~Admits(l, m) /\ Ignores(l, m)
  <2>1. /\ wire' = [wire EXCEPT ![l] = Tail(@)]
        /\ UNCHANGED <<op, incoming, server, dispatch>>
    BY <1>3, Zenon DEF receive
  <2>2. wire \in [Links -> Seq(Requests)]
    BY <1>0, Zenon DEF Queues
  <2>3. wire' \in [Links -> Seq(Requests)]
    BY <1>1, <2>1, <2>2
  <2>4. Queues'
    BY <1>0, <1>1, <2>1, <2>3 DEF Queues
  <2>5. \A k \in Links, p \in Ops : /\ Waits(k, p) => Waits(k, p)'
                                    /\ Answering(k, p) => Answering(k, p)'
    BY <2>1, Zenon DEF Waits, Answering
  <2> QED BY <2>1, <2>4, <2>5, IdleStep, Zenon
<1>4. CASE ~Admits(l, m) /\ ~Ignores(l, m)
  <2>1. ServerEnds(l, "down")
    BY <1>4, Zenon DEF receive
  <2> QED BY <1>1, <2>1, ServerEndsKeeps, Zenon
<1> QED BY <1>2, <1>3, <1>4, Zenon

(* Driver::send_command at the serving end: the answer of the dispatcher   *)
(* is written, or nobody knows the operation and the dispatcher ends.      *)
LEMMA AnswerStep ==
    ASSUME DrainInv, NEW l \in Links, answer(l)
    PROVE  DrainInv'
<1> SUFFICES ASSUME NEW m, m = dispatch[l] PROVE DrainInv'
  OBVIOUS
<1>1. m.type \in Terminals \cup {"Pong"} /\ UNCHANGED <<arrived, source>>
  BY Zenon DEF answer
<1>2. CASE m.type # "Pong" => op[l][m.op].in = "active"
  <2>1. /\ back' = [back EXCEPT ![l] = Append(@, m)]
        /\ dispatch' = [dispatch EXCEPT ![l] = Idle]
        /\ op' = IF m.type = "Pong" THEN op ELSE Put(op, l, m.op, Answered(op[l][m.op], m.op))
        /\ UNCHANGED <<server, wire, incoming>>
    BY <1>2, Zenon DEF answer, Put
  <2> QED BY <1>1, <2>1, AnswerWritten, Zenon
<1>3. CASE m.type # "Pong" /\ op[l][m.op].in # "active"
  <2>1. ServerEnds(l, "down") /\ UNCHANGED back
    BY <1>3, Zenon DEF answer
  <2> QED BY <1>1, <2>1, ServerEndsKeeps, Zenon
<1> QED BY <1>2, <1>3, Zenon

(* An end sees the other gone or breaks, and the two ways a shutdown ends. *)
LEMMA EndSteps ==
    ASSUME DrainInv,
           Eofs \/ \E l \in Links : Breaks(l) \/ grace_period_expires(l) \/ drained(l)
    PROVE  DrainInv'
<1>1. \A l \in Links : OpenerEnds(l) /\ UNCHANGED <<server, wire, incoming, dispatch, source>>
                         => DrainInv'
  BY OpenerEndsKeeps, Zenon
<1>2. \A l \in Links, how \in {"down", "drained"} :
         ServerEnds(l, how) /\ UNCHANGED <<back, arrived, source>> => DrainInv'
  BY ServerEndsKeeps, Zenon
<1>3. CASE Eofs
  <2>1. PICK l \in Links : Eof(l) /\ UNCHANGED source
    BY <1>3, Zenon DEF Eofs
  <2> QED BY <1>1, <1>2, <2>1, Zenon DEF Eof
<1>4. ASSUME NEW l \in Links, Breaks(l) PROVE DrainInv'
  BY <1>1, <1>2, <1>4, Zenon DEF Breaks
<1>5. ASSUME NEW l \in Links, grace_period_expires(l) \/ drained(l) PROVE DrainInv'
  BY <1>2, <1>5, Zenon DEF grace_period_expires, drained
<1> QED BY <1>3, <1>4, <1>5, Zenon

-----------------------------------------------------------------------------
(* The invariant and the theorem. *)

(* Nothing is open when the links come up. *)
LEMMA DrainInvInit == Init => DrainInv
<1> SUFFICES ASSUME Init PROVE DrainInv
  OBVIOUS
<1>1. op = [l \in Links |-> [o \in Ops |-> Fresh]]
  BY Zenon DEF Init
<1>2. \A l \in Links, o \in Ops : op[l][o] = Fresh
  BY <1>1, Zenon
<1>3. IsTable(op)
  BY <1>1, <1>2, Zenon DEF IsTable
<1>4. Fresh.in = "unknown" /\ Fresh.task.pc = "none" /\ Fresh.task = NoTask
  BY DEF Fresh, NoTask
<1>5. NoTask \in Tasks
  BY DEF NoTask, Tasks, Pcs
<1>6. \A o \in Ops : Fresh \in Rec(o)
  <2> SUFFICES ASSUME NEW o \in Ops PROVE Fresh \in Rec(o)
    BY Zenon
  <2>1. ASSUME NEW S PROVE <<>> \in Seq(S)
    OBVIOUS
  <2>2. "unknown" \in Stages /\ 0 \in Int
    BY DEF Stages
  <2> QED BY <1>5, <2>1, <2>2, Zenon DEF Fresh, Rec
<1>7. \A l \in Links, o \in Ops : Sound(op[l][o], o) /\ Tracked(l, o)
  BY <1>2, <1>4, <1>6, Zenon DEF Sound, Tracked
<1>8. Queues
  BY DEF Init, Queues, NoMsgs
<1> QED BY <1>3, <1>7, <1>8, Zenon DEF DrainInv

(* Every step of the drivers, the dispatchers, the tasks, the client and   *)
(* the environment keeps track of what is open.                            *)
LEMMA DrainInvNext == DrainInv /\ [Next]_vars => DrainInv'
<1> SUFFICES ASSUME DrainInv, [Next]_vars PROVE DrainInv'
  OBVIOUS
<1>1. ASSUME NEW l \in Links, LinkStep(l) PROVE DrainInv'
  BY <1>1, ReceiveStep, ResponseSteps, MessageStep, DeliverStep, AnswerStep, TaskResultStep,
     Zenon DEF LinkStep
<1>2. CASE UNCHANGED vars
  <2>1. UNCHANGED <<op, opener, server, wire, back, arrived, incoming, dispatch, source>>
    BY <1>2, Zenon DEF vars
  <2>2. Queues'
    BY <2>1 DEF DrainInv, Queues
  <2>3. \A k \in Links, p \in Ops : /\ Waits(k, p) => Waits(k, p)'
                                    /\ Answering(k, p) => Answering(k, p)'
    BY <2>1, Zenon DEF Waits, Answering
  <2> QED BY <2>1, <2>2, <2>3, IdleStep, Zenon
<1>3. CASE Next
  BY <1>1, <1>3, TaskSteps, ClientSteps, QuietSteps, EndSteps, Zenon DEF Next
<1> QED BY <1>2, <1>3, Zenon

(* Only drained lets the dispatcher of a link leave that way.              *)
LEMMA OnlyDrainedDrains ==
    ASSUME Queues, Next, NEW l \in Links, server[l] = "up", server'[l] = "drained"
    PROVE  drained(l)
<1>0. server \in [Links -> {"up", "down", "drained"}] /\ server' # server /\ "up" # "drained"
  BY DEF Queues
<1>1. ~\E k \in Links : ServerEnds(k, "down")
  <2> SUFFICES ASSUME NEW k \in Links, server' = [server EXCEPT ![k] = "down"] PROVE FALSE
    BY Zenon DEF ServerEnds
  <2> QED BY <1>0
<1>2. \A k \in Links : drained(k) => k = l
  <2> SUFFICES ASSUME NEW k \in Links, server' = [server EXCEPT ![k] = "drained"], k # l PROVE FALSE
    BY Zenon DEF drained, ServerEnds
  <2> QED BY <1>0
<1>3. \A k \in Links : ~LinkStep(k)
  BY <1>0, <1>1, ZenonT(40) DEF LinkStep, receive, receive_response, route_response, handle_message,
     deliver, answer, handle_task_result
<1>4. \A k \in Links, o \in Ops : ~TaskStep(k, o) /\ ~ServiceStep(k, o)
  <2> SUFFICES ASSUME NEW k \in Links, NEW o \in Ops, TaskStep(k, o) \/ ServiceStep(k, o) PROVE FALSE
    BY Zenon
  <2>1. \A rec : ~Local(k, o, rec)
    BY <1>0, Zenon DEF Local
  <2>2. \A rec, down, out : ~Relay(o, rec, down, out)
    BY <1>0, Zenon DEF Relay
  <2>3. ~run_rpc(k, o) /\ ~cancel_local_rpc(k, o) /\ ~run_local_rpc(k, o)
    BY <2>1, Zenon DEF run_rpc, cancel_local_rpc, run_local_rpc
  <2>4. ~control_subscription(k, o) /\ ~run_subscription(k, o)
    BY <2>1, Zenon DEF control_subscription, run_subscription
  <2>5. ~send_event(k, o) /\ ~poll_source(k, o) /\ ~forward_event(o)
    BY <1>0, Zenon DEF send_event, poll_source, forward_event
  <2>6. ~run_forwarded_rpc(o)
    BY <2>2, Zenon DEF run_forwarded_rpc, cancel_downstream, Abandon
  <2>7. ~run_forwarded_subscription(o)
    BY <2>2, Zenon DEF run_forwarded_subscription, stop_downstream, Abandon
  <2>8. ~forward_available_credit(o)
    BY <2>2, Zenon DEF forward_available_credit, Abandon
  <2> QED BY <2>3, <2>4, <2>5, <2>6, <2>7, <2>8, Zenon DEF TaskStep, ServiceStep
<1>5. \A o \in Ops : ~open(o) /\ ~grant_credit(o) /\ ~ask(o) /\ ~drop(o) /\ ~recv(o)
  BY <1>0, Zenon DEF open, grant_credit, ask, drop, recv, Sends
<1>6. ~ping /\ ~Eofs
  BY <1>0, <1>1, Zenon DEF ping, Eofs, Eof
<1>7. \A k \in Links : ~Breaks(k) /\ ~shutdown(k) /\ ~grace_period_expires(k)
  BY <1>0, <1>1, Zenon DEF Breaks, shutdown, grace_period_expires
<1> QED BY <1>2, <1>3, <1>4, <1>5, <1>6, <1>7, Zenon DEF Next

(* A dispatcher that leaves because its shutdown has drained the link has  *)
(* answered every operation whose opening it took from its queue           *)
(* (Dispatcher::run, handle_rpc, handle_subscription, handle_task_result), *)
(* with any number of operations on both links of the hop, whatever the    *)
(* tasks, the peers and the transports do meanwhile.                       *)
THEOREM DrainHolds == Spec => DrainIsComplete
<1> DEFINE Leaves == \A l \in Links, o \in Ops :
                       (server[l] = "up" /\ server'[l] = "drained" /\ op[l][o].in = "active")
                          => \E i \in DOMAIN incoming[l] : incoming[l][i] = Msg(Opening(o), o, 0)
<1>1. DrainInv /\ [Next]_vars => [Leaves]_vars
  <2> SUFFICES ASSUME DrainInv, Next, NEW l \in Links, NEW o \in Ops,
                      server[l] = "up", server'[l] = "drained", op[l][o].in = "active"
               PROVE  \E i \in DOMAIN incoming[l] : incoming[l][i] = Msg(Opening(o), o, 0)
    BY Zenon
  <2>1. Queues /\ Tracked(l, o)
    BY Zenon DEF DrainInv
  <2>2. drained(l)
    BY <2>1, OnlyDrainedDrains, Zenon
  <2>3. dispatch[l] = Idle /\ op[l][o].task.pc = "none"
    BY <2>2, Zenon DEF drained, NoTasks
  <2>4. ~Answering(l, o)
    BY <2>3, IdleType, Zenon DEF Answering
  <2> QED BY <2>1, <2>3, <2>4, Zenon DEF Tracked, Waits
<1>2. Spec => []DrainInv
  BY DrainInvInit, DrainInvNext, PTL DEF Spec
<1>3. DrainIsComplete <=> [][Leaves]_vars
  BY DEF DrainIsComplete
<1> QED BY <1>1, <1>2, <1>3, PTL DEF Spec

=============================================================================
