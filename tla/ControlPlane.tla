----------------------------- MODULE ControlPlane -----------------------------
(***************************************************************************)
(* RPCs and subscriptions over the control plane                           *)
(* (tascarrel-protocol/src/control_plane): a client, a hop and an owner,   *)
(* joined by the link "up" (client to hop) and the link "down" (hop to     *)
(* owner).  The client opens operations on "up".  The hop serves them      *)
(* itself or forwards them over "down", whose server serves everything     *)
(* itself.  The hop's use of "down" and the client's use of "up" are the   *)
(* same code: Peer, Rpc and Subscription of server.rs.                     *)
(*                                                                         *)
(* Each link has an opening end and a serving end.  The state of an        *)
(* operation on a link is one record: what LinkState (state.rs) knows of   *)
(* it at both ends, its response route and queue, its handle, and the task *)
(* that serves it with its queue of controls.                              *)
(*                                                                         *)
(* Handle::send waits until the driver has written the message, so a send  *)
(* is one step of its sender, taken when the driver is free.  The driver   *)
(* of a serving end is not free while it waits to put a message into a     *)
(* full incoming queue (Blocked).  The dispatcher of an opening end only   *)
(* routes responses, which never waits.                                    *)
(*                                                                         *)
(* Operation identifiers are fresh, contexts are valid (the policy admits  *)
(* every opening), credit does not reach 2^64 and fewer operations end     *)
(* than FINISHED_SUBSCRIPTION_HISTORY_CAPACITY.  Events and outputs are    *)
(* abstracted to their number.                                             *)
(***************************************************************************)
EXTENDS Integers, Sequences, FiniteSets

CONSTANTS
    Rpcs,               \* the RPCs the client may invoke
    Subs,               \* the subscriptions it may open
    Timed,              \* the RPCs with a timeout_ms
    HopOwns,            \* the operations whose target is the hop itself
    QueueCap,           \* incoming_queue_capacity
    ControlCap,         \* operation_control_queue_capacity
    Window,             \* forwarded_event_window
    MaxActive,          \* max_active_rpcs and max_active_subscriptions
    MaxOpens,           \* bound: the operations and heartbeats of the client
    MaxCredit,          \* bound: the credit the client grants
    MaxEvents,          \* bound: the events of a source
    MaxTroubles         \* bound: disconnects, broken links, shutdowns

ASSUME ControlPlaneAssumption ==
    /\ Rpcs \cap Subs = {}
    /\ IsFiniteSet(Rpcs) /\ IsFiniteSet(Subs)
    /\ Timed \subseteq Rpcs
    /\ HopOwns \subseteq Rpcs \cup Subs
    /\ {QueueCap, ControlCap, Window} \subseteq Nat \ {0}
    /\ {MaxActive, MaxOpens, MaxCredit, MaxEvents, MaxTroubles} \subseteq Nat

VARIABLES
    op,         \* op[l][o]: the operation o on the link l
    opener,     \* opener[l]: whether the opening end of l is up
    server,     \* server[l]: the serving end of l: "up", "down" or "drained"
    wire,       \* wire[l]: messages from the opening to the serving end
    back,       \* back[l]: messages from the serving to the opening end
    arrived,    \* arrived[l]: admitted responses for the opener's dispatcher
    incoming,   \* incoming[l]: admitted messages for the dispatcher of l
    dispatch,   \* dispatch[l]: what the dispatcher of l waits to get rid of
    accepting,  \* accepting[l]: the dispatcher of l has seen no shutdown
    client,     \* client[o]: what the client knows of o
    source,     \* source[o]: how many events the source of o produced
    fault,      \* the kinds of message that ended a link as protocol errors
    used        \* pings and troubles so far

vars == <<op, opener, server, wire, back, arrived, incoming, dispatch,
          accepting, client, source, fault, used>>

Links == {"up", "down"}
Ops == Rpcs \cup Subs
Owns(l, o) == l = "down" \/ o \in HopOwns
Kind(o) == IF o \in Rpcs THEN "rpc" ELSE "subscription"
Idle == [type |-> "Idle"]

Msg(type, o, n) == [type |-> type, op |-> o, n |-> n]
Terminals == {"Completed", "Failed", "Canceled"}
NoMsgs == [l \in Links |-> <<>>]

(* The record of an operation on a link: outbound_rpcs or                  *)
(* outbound_subscriptions (out, sent) and their inbound twins (in, due),   *)
(* where the credit is the map's value; OutboundRoutes (route, rx); the    *)
(* handle; the table of the dispatcher (listed), the queue of controls and *)
(* the task with its locals.                                               *)
NoTask == [pc |-> "none", pending |-> 0, downstream |-> 0,
           buffered |-> FALSE, result |-> "none"]
Fresh == [out |-> "unknown", sent |-> 0, in |-> "unknown", due |-> 0,
          route |-> FALSE, rx |-> <<>>, handle |-> "none",
          listed |-> FALSE, controls |-> <<>>, task |-> NoTask]

Init ==
    /\ op = [l \in Links |-> [o \in Ops |-> Fresh]]
    /\ opener = [l \in Links |-> TRUE]
    /\ server = [l \in Links |-> "up"]
    /\ wire = NoMsgs
    /\ back = NoMsgs
    /\ arrived = NoMsgs
    /\ incoming = NoMsgs
    /\ dispatch = [l \in Links |-> Idle]
    /\ accepting = [l \in Links |-> TRUE]
    /\ client = [o \in Ops |-> [granted |-> 0, forwarded |-> 0, got |-> 0,
                                asked |-> FALSE, end |-> "none"]]
    /\ source = [o \in Ops |-> 0]
    /\ fault = {}
    /\ used = [pings |-> 0, troubles |-> 0]

-----------------------------------------------------------------------------
(* LinkState at the opening end: what prepare_send and commit do for a     *)
(* message about o.  A control for a finished subscription is sent and     *)
(* changes nothing; a cancellation of a finished RPC is refused.           *)

CanSend(l, o, type) ==
    /\ opener[l]
    /\ \/ type \in {"Invoke", "Subscribe"} /\ op[l][o].out = "unknown"
       \/ op[l][o].out = "active"
       \/ type \in {"GrantCredit", "Unsubscribe"} /\ op[l][o].out = "finished"

Committed(rec, type, n) ==
    CASE type \in {"Invoke", "Subscribe"} -> [rec EXCEPT !.out = "active"]
      [] type = "GrantCredit" /\ rec.out = "active" -> [rec EXCEPT !.sent = @ + n]
      [] OTHER -> rec

Opening(o) == IF o \in Rpcs THEN "Invoke" ELSE "Subscribe"
Release(o) == IF o \in Rpcs THEN "Cancel" ELSE "Unsubscribe"

(* Peer::invoke and Peer::subscribe: the route is registered, then the     *)
(* opening is sent.                                                        *)
Opened(rec, o) ==
    Committed([rec EXCEPT !.route = TRUE, !.handle = "open"], Opening(o), 0)

(* Drop for Rpc and Subscription: the route goes, and a release is sent    *)
(* unless the handle has its terminal or has asked already.                *)
Dropped(rec) == [rec EXCEPT !.route = FALSE, !.rx = <<>>, !.handle = "gone"]
Releases(l, o) == op[l][o].handle = "open" /\ CanSend(l, o, Release(o))

(* Rpc::recv and Subscription::recv: the queue is closed once it is empty  *)
(* and its route is gone.                                                  *)
Closed(l, o) == op[l][o].rx = <<>> /\ ~op[l][o].route
Ready(l, o) == op[l][o].rx # <<>>
Popped(rec) ==
    [rec EXCEPT !.rx = Tail(@),
                !.handle = IF Head(rec.rx).type \in Terminals THEN "gone" ELSE @]

-----------------------------------------------------------------------------
(* The ends of a link.                                                     *)

(* The driver holds one message more than fits into the incoming queue.    *)
Blocked(l) == Len(incoming[l]) > QueueCap

(* The serving end of l ends: the dispatcher is dropped and its tasks are  *)
(* aborted.  Tasks of "up" drop their handles on "down".  A task aborted   *)
(* in the sending of its opening may leave it to the driver: the opening   *)
(* goes out although nobody holds a handle (the set lost).                 *)
Cleared(rec) ==
    [rec EXCEPT !.in = "unknown", !.due = 0, !.listed = FALSE, !.controls = <<>>,
                !.task = NoTask]
Aborted(l) == [o \in Ops |-> Cleared(op[l][o])]

(* send_release spawns a task for each message, so they go in any order.   *)
Orders(S) ==
    {s \in [1 .. Cardinality(S) -> S] : \A x \in S : \E i \in DOMAIN s : s[i] = x}

InOpening(o) == op["up"][o].task.pc = "open_down" /\ CanSend("down", o, Opening(o))

ServerEnds(l, how) ==
    /\ server' = [server EXCEPT ![l] = how]
    /\ incoming' = [incoming EXCEPT ![l] = <<>>]
    /\ dispatch' = [dispatch EXCEPT ![l] = Idle]
    /\ IF l = "down"
       THEN /\ op' = [op EXCEPT ![l] = Aborted(l)]
            /\ wire' = [wire EXCEPT ![l] = <<>>]
       ELSE \E lost \in SUBSET {o \in Ops : InOpening(o)} :
            LET held == {o \in Ops : op["down"][o].handle \in {"open", "asked"}}
                senders == lost \cup {o \in held : Releases("down", o)}
                Farewell(o) == Msg(IF o \in lost THEN Opening(o) ELSE Release(o), o, 0)
            IN  /\ op' = [up |-> Aborted(l),
                          down |-> [o \in Ops |->
                              CASE o \in lost -> [Opened(op["down"][o], o) EXCEPT !.handle = "gone"]
                                [] o \in held -> Dropped(op["down"][o])
                                [] OTHER -> op["down"][o]]]
                /\ \E s \in Orders(senders) :
                      wire' = [up |-> <<>>,
                               down |-> wire["down"] \o [i \in DOMAIN s |-> Farewell(s[i])]]

(* The opening end of l ends: OutboundRoutes::close drops all routes.      *)
OpenerEnds(l) ==
    /\ opener' = [opener EXCEPT ![l] = FALSE]
    /\ op' = [op EXCEPT ![l] = [o \in Ops |-> [op[l][o] EXCEPT !.route = FALSE]]]
    /\ back' = [back EXCEPT ![l] = <<>>]
    /\ arrived' = [arrived EXCEPT ![l] = <<>>]

-----------------------------------------------------------------------------
(* Driver::run at the serving end: the next message is checked against     *)
(* LinkState and put into the incoming queue, crossed subscription         *)
(* controls are ignored, and anything else unknown ends the link.          *)

Admits(l, m) ==
    \/ m.type = "Ping"
    \/ m.type \in {"Invoke", "Subscribe"} /\ op[l][m.op].in # "active"
    \/ m.type \in {"Cancel", "GrantCredit", "Unsubscribe"} /\ op[l][m.op].in = "active"

(* Mutant: a late subscription control is an error like any other.         *)
IgnoresNothing(l, m) == FALSE

Ignores(l, m) ==
    m.type \in {"GrantCredit", "Unsubscribe"} /\ op[l][m.op].in = "finished"

Received(rec, m) ==
    CASE m.type \in {"Invoke", "Subscribe"} -> [rec EXCEPT !.in = "active", !.due = 0]
      [] m.type = "GrantCredit" -> [rec EXCEPT !.due = @ + m.n]
      [] OTHER -> rec

receive(l) ==
    /\ server[l] = "up" /\ ~Blocked(l) /\ wire[l] # <<>>
    /\ LET m == Head(wire[l])
       IN  \/ /\ Admits(l, m)
              /\ incoming' = [incoming EXCEPT ![l] = Append(@, m)]
              /\ op' = IF m.type = "Ping" THEN op
                       ELSE [op EXCEPT ![l][m.op] = Received(@, m)]
              /\ wire' = [wire EXCEPT ![l] = Tail(@)]
              /\ UNCHANGED <<server, dispatch, fault>>
           \/ /\ ~Admits(l, m) /\ Ignores(l, m)
              /\ wire' = [wire EXCEPT ![l] = Tail(@)]
              /\ UNCHANGED <<op, incoming, server, dispatch, fault>>
           \/ /\ ~Admits(l, m) /\ ~Ignores(l, m)
              /\ fault' = fault \cup {Kind(m.op)}
              /\ ServerEnds(l, "down")
    /\ UNCHANGED <<opener, back, arrived, accepting, client, source, used>>

(* Driver::run at the opening end: LinkState accounts for the response,    *)
(* which then waits for the dispatcher.                                    *)
Expected(l, m) ==
    /\ op[l][m.op].out = "active"
    /\ m.type = "Event" => op[l][m.op].sent > 0

Accounted(rec, m) ==
    CASE m.type = "Event" -> [rec EXCEPT !.sent = @ - 1]
      [] m.op \in Subs /\ m.type \in Terminals -> [rec EXCEPT !.out = "finished"]
      [] OTHER -> [rec EXCEPT !.out = "removed"]

receive_response(l) ==
    /\ opener[l] /\ back[l] # <<>>
    /\ LET m == Head(back[l])
       IN  \/ /\ m.type = "Pong"
              /\ back' = [back EXCEPT ![l] = Tail(@)]
              /\ UNCHANGED <<op, opener, arrived, fault>>
           \/ /\ m.type # "Pong" /\ Expected(l, m)
              /\ op' = [op EXCEPT ![l][m.op] = Accounted(@, m)]
              /\ back' = [back EXCEPT ![l] = Tail(@)]
              /\ arrived' = [arrived EXCEPT ![l] = Append(@, m)]
              /\ UNCHANGED <<opener, fault>>
           \/ /\ m.type # "Pong" /\ ~Expected(l, m)
              /\ fault' = fault \cup {Kind(m.op)}
              /\ OpenerEnds(l)
    /\ UNCHANGED <<server, wire, incoming, dispatch, accepting, client, source, used>>

(* OutboundRoutes::route_rpc and route_subscription: a response that finds *)
(* its queue full removes the route, as does a terminal one.               *)
Routed(rec, m) ==
    LET fits == rec.route /\ Len(rec.rx) < ControlCap
    IN  [rec EXCEPT !.rx = IF fits THEN Append(@, m) ELSE @,
                    !.route = fits /\ m.type \notin Terminals]

route_response(l) ==
    /\ arrived[l] # <<>>
    /\ arrived' = [arrived EXCEPT ![l] = Tail(@)]
    /\ LET m == Head(arrived[l])
       IN  op' = [op EXCEPT ![l][m.op] = Routed(@, m)]
    /\ UNCHANGED <<opener, server, wire, back, incoming, dispatch, accepting,
                   client, source, fault, used>>

(* An end sees that the other is gone.  What was still under way is lost.  *)
Eof(l) ==
    \/ /\ opener[l] /\ server[l] # "up"
       /\ OpenerEnds(l)
       /\ UNCHANGED <<server, wire, incoming, dispatch>>
    \/ /\ server[l] = "up" /\ ~opener[l] /\ ~Blocked(l)
       /\ ServerEnds(l, "down")
       /\ UNCHANGED <<opener, back, arrived>>

Eofs == /\ \E l \in Links : Eof(l)
        /\ UNCHANGED <<accepting, client, source, fault, used>>

-----------------------------------------------------------------------------
(* The dispatcher of a serving end.                                        *)

Active(l, o) == Cardinality({p \in Ops : Kind(p) = Kind(o) /\ op[l][p].listed})

Spawned(rec) == [rec EXCEPT !.listed = TRUE, !.controls = <<>>,
                            !.task = [NoTask EXCEPT !.pc = "route"]]

(* A control is dropped if its task has ended; it waits for room if the    *)
(* task's queue is full.                                                   *)
Takes(rec) == rec.task.pc = "ended" \/ Len(rec.controls) < ControlCap
Delivered(rec, m) ==
    IF rec.task.pc = "ended" THEN rec ELSE [rec EXCEPT !.controls = Append(@, m)]

(* handle_rpc, handle_subscription and the answer to a heartbeat.          *)
handle_message(l) ==
    /\ server[l] = "up" /\ dispatch[l] = Idle /\ incoming[l] # <<>>
    /\ incoming' = [incoming EXCEPT ![l] = Tail(@)]
    /\ LET m == Head(incoming[l])
           rec == op[l][m.op]
           refused == ~accepting[l] \/ Active(l, m.op) >= MaxActive
       IN  \/ /\ m.type = "Ping"
              /\ dispatch' = [dispatch EXCEPT ![l] = Msg("Pong", m.op, 0)]
              /\ UNCHANGED op
           \/ /\ m.type \in {"Invoke", "Subscribe"}
              /\ op' = IF refused THEN op ELSE [op EXCEPT ![l][m.op] = Spawned(@)]
              /\ dispatch' = IF refused
                             THEN [dispatch EXCEPT ![l] = Msg("Failed", m.op, 0)]
                             ELSE dispatch
           \/ /\ m.type \in {"Cancel", "GrantCredit", "Unsubscribe"}
              /\ op' = IF rec.listed /\ Takes(rec)
                       THEN [op EXCEPT ![l][m.op] = Delivered(@, m)] ELSE op
              /\ dispatch' = IF rec.listed /\ ~Takes(rec)
                             THEN [dispatch EXCEPT ![l] = m] ELSE dispatch
    /\ UNCHANGED <<opener, server, wire, back, arrived, accepting, client, source,
                   fault, used>>

(* A control that waited gets its place.                                   *)
deliver(l) ==
    /\ dispatch[l].type \in {"Cancel", "GrantCredit", "Unsubscribe"}
    /\ LET m == dispatch[l]
       IN  /\ Takes(op[l][m.op])
           /\ op' = [op EXCEPT ![l][m.op] = Delivered(@, m)]
    /\ dispatch' = [dispatch EXCEPT ![l] = Idle]
    /\ UNCHANGED <<opener, server, wire, back, arrived, incoming, accepting,
                   client, source, fault, used>>

(* handle_task_result: the operation leaves the table, and its terminal    *)
(* message is to be sent.  A task that panicked gives Failed as well.      *)
Joined(rec) == [rec EXCEPT !.listed = FALSE, !.controls = <<>>, !.task = NoTask]

handle_task_result(l, o) ==
    /\ server[l] = "up" /\ dispatch[l] = Idle
    /\ op[l][o].task.pc = "ended"
    /\ dispatch' = [dispatch EXCEPT ![l] = Msg(op[l][o].task.result, o, 0)]
    /\ op' = [op EXCEPT ![l][o] = Joined(@)]
    /\ UNCHANGED <<opener, server, wire, back, arrived, incoming, accepting,
                   client, source, fault, used>>

(* The driver writes what the dispatcher sends; a terminal message for an  *)
(* operation LinkState does not know ends the dispatcher.                  *)
Answered(rec, o) == [rec EXCEPT !.in = IF o \in Subs THEN "finished" ELSE "removed"]

answer(l) ==
    /\ server[l] = "up" /\ ~Blocked(l)
    /\ dispatch[l].type \in Terminals \cup {"Pong"}
    /\ LET m == dispatch[l]
       IN  \/ /\ m.type # "Pong" => op[l][m.op].in = "active"
              /\ back' = [back EXCEPT ![l] = Append(@, m)]
              /\ dispatch' = [dispatch EXCEPT ![l] = Idle]
              /\ op' = IF m.type = "Pong" THEN op
                       ELSE [op EXCEPT ![l][m.op] = Answered(@, m.op)]
              /\ UNCHANGED <<server, wire, incoming, fault>>
           \/ /\ m.type # "Pong" /\ op[l][m.op].in # "active"
              /\ fault' = fault \cup {Kind(m.op)}
              /\ ServerEnds(l, "down")
              /\ UNCHANGED back
    /\ UNCHANGED <<opener, arrived, accepting, client, source, used>>

-----------------------------------------------------------------------------
(* The tasks.  Each of their selects is biased: a branch is taken only if  *)
(* the ones before it are not ready.                                       *)

At(l, o, pc) == op[l][o].task.pc = pc
Moved(rec, pc) == [rec EXCEPT !.task.pc = pc]
Ended(rec, result) ==
    [rec EXCEPT !.controls = <<>>,
                !.task = [rec.task EXCEPT !.pc = "ended", !.result = result]]
Controlled(l, o) == op[l][o].controls # <<>>

(* A step of a task that touches nothing but its operation.                *)
Local(l, o, rec) ==
    /\ op' = [op EXCEPT ![l][o] = rec]
    /\ UNCHANGED <<opener, server, wire, back, arrived, incoming, dispatch,
                   accepting, client, source, fault, used>>

(* A step of a forwarding task, which sends the messages out downstream.   *)
Relay(o, rec, down, out) ==
    /\ op' = [op EXCEPT !["up"][o] = rec, !["down"][o] = down]
    /\ wire' = [wire EXCEPT !["down"] = @ \o out]
    /\ UNCHANGED <<opener, server, back, arrived, incoming, dispatch, accepting,
                   source, fault, used>>

(* A forwarding task ends and drops its handle, which sends a release if   *)
(* it still can and the handle has not asked itself.                       *)
Abandon(o, result) ==
    Relay(o, Ended(op["up"][o], result), Dropped(op["down"][o]),
          IF Releases("down", o) THEN <<Msg(Release(o), o, 0)>> ELSE <<>>)

(* run_rpc until the route is known; the route may fail to resolve.        *)
run_rpc(l, o) ==
    /\ o \in Rpcs /\ At(l, o, "route")
    /\ LET rec == op[l][o]
       IN  \/ Controlled(l, o) /\ Local(l, o, Ended(rec, "Canceled"))
           \/ /\ ~Controlled(l, o)
              /\ \/ Local(l, o, Ended(rec, "Failed"))
                 \/ Local(l, o, Moved(rec, IF Owns(l, o) THEN "run" ELSE "open_down"))

(* run_local_rpc: cancelled, or else too late (Failed) or whatever the     *)
(* service returns.                                                        *)
cancel_local_rpc(l, o) ==
    /\ o \in Rpcs /\ At(l, o, "run") /\ Controlled(l, o)
    /\ Local(l, o, Ended(op[l][o], "Canceled"))

run_local_rpc(l, o) ==
    /\ o \in Rpcs /\ At(l, o, "run") /\ ~Controlled(l, o)
    /\ \E result \in {"Completed", "Failed"} : Local(l, o, Ended(op[l][o], result))

(* Mutant: a cancellation is taken from the queue and not passed on.       *)
CancelForgets(o) ==
    Relay(o, Moved([op["up"][o] EXCEPT !.controls = Tail(@)], "stopping"),
          op["down"][o], <<>>)

cancel_downstream(o) ==
    LET rec == op["up"][o]
        down == op["down"][o]
    IN  IF CanSend("down", o, "Cancel")
        THEN Relay(o, Moved([rec EXCEPT !.controls = Tail(@)], "stopping"),
                   [down EXCEPT !.handle = "asked"], <<Msg("Cancel", o, 0)>>)
        ELSE Abandon(o, "Canceled")

(* run_forwarded_rpc: a response first, then a cancellation, which is      *)
(* passed on, then the deadline, which cancels and does not wait.          *)
run_forwarded_rpc(o) ==
    /\ o \in Rpcs
    /\ LET rec == op["up"][o]
           down == op["down"][o]
       IN  \/ /\ At("up", o, "open_down") /\ opener["down"]
              /\ Relay(o, Moved(rec, "relay"), Opened(down, o), <<Msg("Invoke", o, 0)>>)
           \/ /\ At("up", o, "open_down") /\ ~opener["down"]
              /\ Relay(o, Ended(rec, "Failed"), down, <<>>)
           \/ /\ At("up", o, "relay") /\ Ready("down", o)
              /\ Relay(o, Ended(rec, Head(down.rx).type), Popped(down), <<>>)
           \/ /\ At("up", o, "relay") /\ Closed("down", o)
              /\ Abandon(o, "Failed")
           \/ /\ At("up", o, "relay") /\ ~Ready("down", o) /\ ~Closed("down", o)
              /\ Controlled("up", o)
              /\ cancel_downstream(o)
           \/ /\ At("up", o, "relay") /\ ~Ready("down", o) /\ ~Closed("down", o)
              /\ ~Controlled("up", o) /\ o \in Timed
              /\ Abandon(o, "Failed")
           \/ /\ At("up", o, "stopping") /\ Ready("down", o)
              /\ Relay(o, Ended(rec, Head(down.rx).type), Popped(down), <<>>)
           \/ /\ At("up", o, "stopping") /\ Closed("down", o)
              /\ Abandon(o, "Canceled")
    /\ UNCHANGED client

(* The branch of every select that reads a control of a subscription:      *)
(* credit is added up, a stop ends the task.                               *)
Credited(rec) ==
    [rec EXCEPT !.controls = Tail(@), !.task.pending = @ + Head(rec.controls).n]
IsCredit(l, o) == Controlled(l, o) /\ Head(op[l][o].controls).type = "GrantCredit"
IsStop(l, o) == Controlled(l, o) /\ Head(op[l][o].controls).type = "Unsubscribe"

Sending(l, o) ==
    At(l, o, "stream") /\ op[l][o].task.pending > 0 /\ op[l][o].task.buffered

control_subscription(l, o) ==
    /\ o \in Subs
    /\ \E pc \in {"route", "open", "stream"} : At(l, o, pc)
    /\ ~Sending(l, o)
    /\ \/ IsCredit(l, o) /\ Local(l, o, Credited(op[l][o]))
       \/ IsStop(l, o) /\ Local(l, o, Ended(op[l][o], "Completed"))

(* run_subscription until the route is known, and the opening of the       *)
(* source in run_local_subscription; both may fail.                        *)
run_subscription(l, o) ==
    /\ o \in Subs /\ ~Controlled(l, o)
    /\ LET rec == op[l][o]
       IN  \/ /\ At(l, o, "route")
              /\ \/ Local(l, o, Ended(rec, "Failed"))
                 \/ Local(l, o, Moved(rec, IF Owns(l, o) THEN "open" ELSE "open_down"))
           \/ /\ At(l, o, "open")
              /\ \/ Local(l, o, Ended(rec, "Failed"))
                 \/ Local(l, o, Moved(rec, "stream"))

(* The driver checks an event against the credit of the peer.              *)
Sendable(l, o) == op[l][o].in = "active" /\ op[l][o].due > 0

Sent(rec) ==
    [rec EXCEPT !.due = @ - 1,
                !.task = [rec.task EXCEPT !.pending = @ - 1, !.buffered = FALSE]]

send_event(l, o) ==
    /\ o \in Subs /\ Sending(l, o) /\ ~Blocked(l)
    /\ \/ /\ Sendable(l, o)
          /\ op' = [op EXCEPT ![l][o] = Sent(@)]
          /\ back' = [back EXCEPT ![l] = Append(@, Msg("Event", o, source[o]))]
          /\ UNCHANGED fault
       \/ /\ ~Sendable(l, o)
          /\ op' = [op EXCEPT ![l][o] = Ended(@, "Failed")]
          /\ fault' = fault \cup {"credit"}
          /\ UNCHANGED back
    /\ UNCHANGED <<opener, server, wire, arrived, incoming, dispatch, accepting,
                   client, source, used>>

(* Mutant: the source is polled although an event is still buffered.       *)
PollsAlways(l, o) == At(l, o, "stream") /\ ~Sending(l, o) /\ ~Controlled(l, o)

PollsSource(l, o) ==
    /\ At(l, o, "stream") /\ ~Sending(l, o) /\ ~Controlled(l, o)
    /\ ~op[l][o].task.buffered

(* The source has an event, ends, or fails.                                *)
Buffered(rec) == [rec EXCEPT !.task.buffered = TRUE]

poll_source(l, o) ==
    /\ o \in Subs /\ PollsSource(l, o)
    /\ \/ /\ source[o] < MaxEvents
          /\ source' = [source EXCEPT ![o] = @ + 1]
          /\ op' = [op EXCEPT ![l][o] = Buffered(@)]
       \/ /\ \E result \in {"Completed", "Failed"} :
                op' = [op EXCEPT ![l][o] = Ended(@, result)]
          /\ UNCHANGED source
    /\ UNCHANGED <<opener, server, wire, back, arrived, incoming, dispatch,
                   accepting, client, fault, used>>

(* Mutant: consumer credit is forwarded without being used up.             *)
CreditKept(rec, n) == [rec EXCEPT !.task.downstream = @ + n]

Forwarded(rec, n) ==
    [rec EXCEPT !.task = [rec.task EXCEPT !.pending = @ - n, !.downstream = @ + n]]

(* forward_available_credit grants up to the window downstream, before     *)
(* every select of the relay.                                              *)
Grant(o) ==
    LET t == op["up"][o].task
        room == IF Window > t.downstream THEN Window - t.downstream ELSE 0
    IN  IF t.pending < room THEN t.pending ELSE room

forward_available_credit(o) ==
    /\ o \in Subs /\ At("up", o, "relay") /\ Grant(o) > 0
    /\ LET rec == op["up"][o]
           down == op["down"][o]
       IN  IF CanSend("down", o, "GrantCredit")
           THEN /\ Relay(o, Forwarded(rec, Grant(o)),
                         Committed(down, "GrantCredit", Grant(o)),
                         <<Msg("GrantCredit", o, Grant(o))>>)
                /\ client' = [client EXCEPT ![o].forwarded = @ + Grant(o)]
           ELSE /\ Abandon(o, "Failed")
                /\ UNCHANGED client

(* stop_forwarded_subscription: the stop is sent on; if it cannot be, the  *)
(* subscription is over.                                                   *)
stop_downstream(o) ==
    LET rec == op["up"][o]
        down == op["down"][o]
    IN  IF CanSend("down", o, "Unsubscribe")
        THEN Relay(o, Moved([rec EXCEPT !.controls = Tail(@)], "stopping"),
                   [down EXCEPT !.handle = "asked"], <<Msg("Unsubscribe", o, 0)>>)
        ELSE Abandon(o, "Completed")

(* The opening of a forwarded subscription, the branches of its select but *)
(* for events, and the wait for the terminal message after a stop.         *)
run_forwarded_subscription(o) ==
    /\ o \in Subs
    /\ LET rec == op["up"][o]
           down == op["down"][o]
           selects == At("up", o, "relay") /\ Grant(o) = 0
           head == Head(down.rx).type
       IN  \/ /\ At("up", o, "open_down") /\ opener["down"]
              /\ Relay(o, Moved(rec, "relay"), Opened(down, o), <<Msg("Subscribe", o, 0)>>)
           \/ /\ At("up", o, "open_down") /\ ~opener["down"]
              /\ Relay(o, Ended(rec, "Failed"), down, <<>>)
           \/ selects /\ IsCredit("up", o) /\ Relay(o, Credited(rec), down, <<>>)
           \/ selects /\ IsStop("up", o) /\ stop_downstream(o)
           \/ /\ selects /\ ~Controlled("up", o) /\ Ready("down", o)
              /\ head \in Terminals
              /\ Relay(o, Ended(rec, head), Popped(down), <<>>)
           \/ /\ selects /\ ~Controlled("up", o) /\ Closed("down", o)
              /\ Abandon(o, "Failed")
           \/ /\ At("up", o, "stopping") /\ Ready("down", o)
              /\ Relay(o, IF head \in Terminals THEN Ended(rec, head) ELSE rec,
                       Popped(down), <<>>)
           \/ /\ At("up", o, "stopping") /\ Closed("down", o)
              /\ Abandon(o, "Completed")
    /\ UNCHANGED client

(* An event is counted against the forwarded credit and sent on; without   *)
(* credit on either side the subscription fails.                           *)
Relayed(rec) == [rec EXCEPT !.due = @ - 1, !.task.downstream = @ - 1]

forward_event(o) ==
    /\ o \in Subs /\ At("up", o, "relay") /\ Grant(o) = 0
    /\ ~Controlled("up", o) /\ Ready("down", o) /\ ~Blocked("up")
    /\ LET m == Head(op["down"][o].rx)
           rec == op["up"][o]
           paid == rec.task.downstream > 0 /\ Sendable("up", o)
       IN  /\ m.type = "Event"
           /\ \/ /\ paid
                 /\ op' = [op EXCEPT !["up"][o] = Relayed(rec), !["down"][o] = Popped(@)]
                 /\ back' = [back EXCEPT !["up"] = Append(@, m)]
                 /\ UNCHANGED <<opener, server, wire, arrived, incoming, dispatch,
                                accepting, source, fault, used>>
              \/ /\ ~paid
                 /\ op' = [op EXCEPT !["up"][o] = Ended(@, "Failed"),
                                     !["down"][o] = Dropped(@)]
                 /\ wire' = [wire EXCEPT !["down"] = Append(@, Msg("Unsubscribe", o, 0))]
                 /\ fault' = fault \cup {"credit"}
                 /\ UNCHANGED <<opener, server, back, arrived, incoming, dispatch,
                                accepting, source, used>>
    /\ UNCHANGED client

-----------------------------------------------------------------------------
(* The client of "up", a user of Peer, Rpc and Subscription.               *)

Sends(o, rec, m) ==
    /\ op' = [op EXCEPT !["up"][o] = rec]
    /\ wire' = [wire EXCEPT !["up"] = Append(@, m)]
    /\ UNCHANGED <<opener, server, back, arrived, incoming, dispatch, accepting,
                   source, fault, used>>

Opens == Cardinality({o \in Ops : op["up"][o].handle # "none"}) + used.pings

open(o) ==
    /\ op["up"][o].handle = "none" /\ opener["up"]
    /\ Opens < MaxOpens
    /\ Sends(o, Opened(op["up"][o], o), Msg(Opening(o), o, 0))
    /\ UNCHANGED client

grant_credit(o) ==
    /\ o \in Subs /\ op["up"][o].handle = "open"
    /\ CanSend("up", o, "GrantCredit")
    /\ \E n \in 1 .. (MaxCredit - client[o].granted) :
          /\ Sends(o, Committed(op["up"][o], "GrantCredit", n), Msg("GrantCredit", o, n))
          /\ client' = [client EXCEPT ![o].granted = @ + n]

(* Rpc::cancel and Subscription::stop.                                     *)
ask(o) ==
    /\ op["up"][o].handle = "open" /\ CanSend("up", o, Release(o))
    /\ Sends(o, [op["up"][o] EXCEPT !.handle = "asked"], Msg(Release(o), o, 0))
    /\ client' = [client EXCEPT ![o].asked = TRUE]

(* Drop for Rpc and Subscription.                                          *)
drop(o) ==
    /\ op["up"][o].handle \in {"open", "asked"}
    /\ client' = [client EXCEPT ![o].end = "dropped"]
    /\ op' = [op EXCEPT !["up"][o] = Dropped(@)]
    /\ wire' = [wire EXCEPT !["up"] =
                  @ \o IF Releases("up", o) THEN <<Msg(Release(o), o, 0)>> ELSE <<>>]
    /\ UNCHANGED <<opener, server, back, arrived, incoming, dispatch, accepting,
                   source, fault, used>>

(* Rpc::recv and Subscription::recv.                                       *)
recv(o) ==
    /\ op["up"][o].handle \in {"open", "asked"}
    /\ \/ /\ Ready("up", o)
          /\ LET m == Head(op["up"][o].rx)
             IN  client' = [client EXCEPT ![o] =
                   IF m.type = "Event" THEN [@ EXCEPT !.got = @ + 1]
                   ELSE [@ EXCEPT !.end = m.type]]
          /\ op' = [op EXCEPT !["up"][o] = Popped(@)]
       \/ /\ Closed("up", o)
          /\ client' = [client EXCEPT ![o].end = "closed"]
          /\ op' = [op EXCEPT !["up"][o] = Dropped(@)]
    /\ UNCHANGED <<opener, server, wire, back, arrived, incoming, dispatch,
                   accepting, source, fault, used>>

ping ==
    /\ opener["up"] /\ Opens < MaxOpens
    /\ used' = [used EXCEPT !.pings = @ + 1]
    /\ wire' = [wire EXCEPT !["up"] = Append(@, Msg("Ping", "heartbeat", 0))]
    /\ UNCHANGED <<op, opener, server, back, arrived, incoming, dispatch,
                   accepting, client, source, fault>>

-----------------------------------------------------------------------------
(* Troubles: the transport of an end fails (also: its process ends), and   *)
(* the shutdown of a server, which stops accepting, ends the link once its *)
(* tasks are done, and ends it anyhow after the grace period.              *)

Trouble == used.troubles < MaxTroubles
           /\ used' = [used EXCEPT !.troubles = @ + 1]

Breaks(l) ==
    /\ Trouble
    /\ \/ /\ opener[l] /\ OpenerEnds(l)
          /\ UNCHANGED <<server, wire, incoming, dispatch>>
       \/ /\ server[l] = "up" /\ ServerEnds(l, "down")
          /\ UNCHANGED <<opener, back, arrived>>
    /\ UNCHANGED <<accepting, client, source, fault>>

shutdown(l) ==
    /\ Trouble
    /\ server[l] = "up" /\ accepting[l] /\ dispatch[l] = Idle
    /\ accepting' = [accepting EXCEPT ![l] = FALSE]
    /\ UNCHANGED <<op, opener, server, wire, back, arrived, incoming, dispatch,
                   client, source, fault>>

grace_period_expires(l) ==
    /\ server[l] = "up" /\ ~accepting[l]
    /\ ServerEnds(l, "down")
    /\ UNCHANGED <<opener, back, arrived, accepting, client, source, fault, used>>

(* Mutant: the dispatcher leaves as soon as every task has ended, though   *)
(* some results are not joined yet.                                        *)
AllEnded(l) == \A o \in Ops : op[l][o].task.pc \in {"none", "ended"}

NoTasks(l) == \A o \in Ops : op[l][o].task.pc = "none"

drained(l) ==
    /\ server[l] = "up" /\ ~accepting[l] /\ dispatch[l] = Idle /\ NoTasks(l)
    /\ ServerEnds(l, "drained")
    /\ UNCHANGED <<opener, back, arrived, accepting, client, source, fault, used>>

-----------------------------------------------------------------------------
LinkStep(l) ==
    \/ receive(l) \/ receive_response(l) \/ route_response(l)
    \/ handle_message(l) \/ deliver(l) \/ answer(l)
    \/ \E o \in Ops : handle_task_result(l, o)

(* The steps of a task that need nothing from a service or a source.       *)
TaskStep(l, o) ==
    \/ control_subscription(l, o) \/ send_event(l, o)
    \/ run_rpc(l, o) \/ cancel_local_rpc(l, o) \/ run_subscription(l, o)
    \/ l = "up" /\ \/ run_forwarded_rpc(o) \/ run_forwarded_subscription(o)
                   \/ forward_available_credit(o) \/ forward_event(o)

ServiceStep(l, o) == run_local_rpc(l, o) \/ poll_source(l, o)

Next ==
    \/ \E l \in Links : LinkStep(l)
    \/ \E l \in Links, o \in Ops : TaskStep(l, o) \/ ServiceStep(l, o)
    \/ \E o \in Ops : open(o) \/ grant_credit(o) \/ ask(o) \/ drop(o) \/ recv(o)
    \/ ping \/ Eofs
    \/ \E l \in Links : Breaks(l) \/ shutdown(l) \/ grace_period_expires(l) \/ drained(l)

Spec == Init /\ [][Next]_vars

(* Fairness: the drivers, dispatchers and tasks are polled by the runtime  *)
(* whenever they can go on, routes resolve, and the client reads what it   *)
(* waits for.  Services and sources need not ever answer.                  *)
SystemStep ==
    \/ \E l \in Links : LinkStep(l) \/ \E o \in Ops : TaskStep(l, o)
    \/ \E o \in Ops : recv(o)
    \/ Eofs

FairSpec == Spec /\ WF_vars(SystemStep)

-----------------------------------------------------------------------------
(* Subscriptions cause no protocol error: events, credit and stops that    *)
(* cross each other, a terminal message or the end of a link never make an *)
(* end of a link (receive_subscription and finish_inbound_subscription of  *)
(* LinkState), nor a hop (the checked_sub of run_forwarded_subscription,   *)
(* the check of Event in prepare_send), see an event or a control it does  *)
(* not expect.                                                             *)
NoSubscriptionFault == fault \subseteq {"rpc"}

(* The credit a hop forwards stays within what the consumer granted, never *)
(* has more than the window outstanding, and no more events are under way  *)
(* to the consumer than it has paid for (forward_available_credit).        *)
CreditWithin ==
    \A o \in Subs :
        /\ client[o].forwarded <= client[o].granted
        /\ op["down"][o].sent <= Window
        /\ client[o].got + Len(SelectSeq(back["up"], LAMBDA m : m.type = "Event" /\ m.op = o))
             <= client[o].granted

(* A subscription that completes by itself has delivered every event of    *)
(* its source to the client, through the buffer of the owner, both links   *)
(* and the relay (run_local_subscription, run_forwarded_subscription,      *)
(* route_subscription).                                                    *)
CompletedIsComplete ==
    \A o \in Subs :
        client[o].end = "Completed" /\ ~client[o].asked => client[o].got = source[o]

(* When a dispatcher leaves because its shutdown has drained the link, an  *)
(* operation LinkState still has open is one whose opening it never took   *)
(* from its queue: all others have been answered (Dispatcher::run).        *)
DrainIsComplete ==
    [][\A l \in Links, o \in Ops :
          (server[l] = "up" /\ server'[l] = "drained" /\ op[l][o].in = "active")
             => \E i \in DOMAIN incoming[l] : incoming[l][i] = Msg(Opening(o), o, 0)]_vars

(* A client that has cancelled an RPC or stopped a subscription gets a     *)
(* terminal message or sees its link closed, whatever the service does     *)
(* (run_rpc, run_subscription and what they call): again and again nobody  *)
(* who asked is still waiting.                                             *)
AskedEnds == []<>(\A o \in Ops : client[o].asked => client[o].end # "none")

(* A link between two ends that run this code does not end with a protocol *)
(* error.                                                                  *)
LinksSurvive == fault = {}

=============================================================================
