--------------------------- MODULE MuxConnection ---------------------------
(***************************************************************************)
(* The channels of one multiplex connection, from open to removal          *)
(* (tascarrel-mux, connection.rs and driver.rs): the registries of both    *)
(* peers, the open, accept, reject and cancel paths with their bounded     *)
(* queues, tombstones for late frames, the close handshake, and the        *)
(* failure of the connection.                                              *)
(*                                                                         *)
(* Flow control is the subject of MuxChannel: here each application writes *)
(* at most one DATA frame to a channel, which every window admits.  A      *)
(* channel leaves the model when it leaves the registry.  The two loops of *)
(* a driver run in one task, so what they do between two waits for the     *)
(* transport is one step; applications run in parallel and their steps end *)
(* where they release the connection's lock.                               *)
(***************************************************************************)
EXTENDS MuxSelect, Sequences, Functions

CONSTANTS
    MaxId,                 \* largest channel identifier (u32::MAX)
    MaxChannels,           \* max_channels of each peer
    ControlQueueCapacity,  \* control_queue_capacity
    ClosedChannelCapacity, \* closed_channel_capacity
    Openers,               \* bound: peers whose applications open channels
    Writers,               \* bound: <<peer, id>> pairs whose application writes a DATA frame
    Stoppable              \* peers whose Driver may be dropped at any time

Peers == {"client", "server"}

Other(p) == IF p = "client" THEN "server" ELSE "client"

Ids == 1 .. MaxId

\* Config::validate.
ASSUME ConnectionAssumption ==
    /\ MaxId \in Nat
    /\ MaxChannels \in [Peers -> Nat \ {0}]
    /\ ControlQueueCapacity \in Nat \ {0}
    /\ ClosedChannelCapacity \in Nat \ {0}
    /\ Openers \subseteq Peers /\ Writers \subseteq Peers \X Ids /\ Stoppable \subseteq Peers

VARIABLES
    core,      \* CoreInner of each peer, without its channels
    channels,  \* channels[p]: the registered channels and their ChannelInner
    opener,    \* opener[id]: where the open() of that channel is
    requests,  \* requests[p][id]: where the IncomingRequest is
    listening, \* the Incoming handle has not been dropped
    handle,    \* handle[p][id]: the application's Channel
    running,   \* the driver has not returned and holds the transport
    sched,     \* the cursors and the control count of writer_loop
    writing,   \* the frame being written to the transport
    wire       \* wire[p]: frames written by p and not yet received

vars == <<core, channels, opener, requests, listening, handle, running, sched, writing, wire>>

apps == <<requests, listening, handle>>
driver == <<running, sched, writing, wire>>

-----------------------------------------------------------------------------
first_id(p) == IF p = "client" THEN 1 ELSE 2

owns_id(p, id) == id % 2 = IF p = "client" THEN 1 ELSE 0

Owner(id) == CHOOSE p \in Peers : owns_id(p, id)

Kinds == {"OPEN", "ACCEPT", "REJECT", "DATA", "WINDOW", "FIN", "RESET", "CLOSED"}

Frame(kind, id) == [kind |-> kind, id |-> id]

NoFrame == Frame("NONE", 0)

\* Errors that accuse the peer of breaking the protocol.
ProtocolErrors ==
    {"invalid identifier", "unexpected ACCEPT", "unexpected REJECT",
     "DATA before channel acceptance", "DATA after channel close", "duplicate FIN",
     "unexpected CLOSED", "unknown channel"}

\* ChannelInner, with one bit for each buffer and for the credit to return.
Channel ==
    [outbound : BOOLEAN, inbound : BOOLEAN, consumed : BOOLEAN, discard_inbound : BOOLEAN,
     local_fin_requested : BOOLEAN, fin_sent : BOOLEAN, remote_fin : BOOLEAN,
     local_close_requested : BOOLEAN, closed_sent : BOOLEAN, remote_closed : BOOLEAN,
     reset_pending : BOOLEAN]

\* ChannelInner::new.
NewChannel ==
    [outbound |-> FALSE, inbound |-> FALSE, consumed |-> FALSE, discard_inbound |-> FALSE,
     local_fin_requested |-> FALSE, fin_sent |-> FALSE, remote_fin |-> FALSE,
     local_close_requested |-> FALSE, closed_sent |-> FALSE, remote_closed |-> FALSE,
     reset_pending |-> FALSE]

NoChannels == [id \in {} |-> NewChannel]

Init ==
    /\ core = [p \in Peers |->
                 [next_id |-> first_id(p), last_peer_id |-> 0,
                  pending_outgoing |-> {}, pending_incoming |-> {},
                  controls |-> <<>>, tombstones |-> <<>>, terminal |-> "none"]]
    /\ channels = [p \in Peers |-> NoChannels]
    /\ opener = [id \in Ids |-> "none"]
    /\ requests = [p \in Peers |-> [id \in Ids |-> "none"]]
    /\ listening = [p \in Peers |-> TRUE]
    /\ handle = [p \in Peers |-> [id \in Ids |-> "none"]]
    /\ running = [p \in Peers |-> TRUE]
    /\ sched = [p \in Peers |-> [control_cursor |-> 0, data_cursor |-> 0, control_count |-> 0]]
    /\ writing = [p \in Peers |-> NoFrame]
    /\ wire = [p \in Peers |-> <<>>]

-----------------------------------------------------------------------------
(* The registry.                                                           *)

Live(p) == core[p].terminal = "none"

Registered(p) == DOMAIN channels[p]

channel_count(p) == Cardinality(Registered(p)) + Cardinality(core[p].pending_incoming)

Tombstoned(p, id) == id \in Range(core[p].tombstones)

ControlsFull(p) == Len(core[p].controls) >= ControlQueueCapacity

\* enqueue_control, when there is room.
enqueue_control(c, kind, id) == [c EXCEPT !.controls = Append(@, Frame(kind, id))]

\* A request of this peer, or of the other one, is no longer pending.
answered(c, id) == [c EXCEPT !.pending_outgoing = @ \ {id}]
withdrawn(c, id) == [c EXCEPT !.pending_incoming = @ \ {id}]

\* remember_closed: the oldest identifier makes room for a new one.
remember_closed(c, id) ==
    LET t == IF id \in Range(c.tombstones) THEN c.tombstones ELSE Append(c.tombstones, id)
        old == IF Len(t) > ClosedChannelCapacity THEN Len(t) - ClosedChannelCapacity ELSE 0
    IN  [c EXCEPT !.tombstones = SubSeq(t, old + 1, Len(t))]

Register(p, id) == [i \in Registered(p) \union {id} |->
                       IF i = id THEN NewChannel ELSE channels[p][i]]

Unregister(p, id) == Restrict(channels[p], Registered(p) \ {id})

failed(c, error) == [c EXCEPT !.terminal = error, !.controls = <<>>,
                              !.pending_incoming = {}, !.pending_outgoing = {}]

\* Mutant: pending openers are forgotten, not answered.
FailKeepsOpeners(p, error) ==
    IF ~Live(p) THEN UNCHANGED <<core, channels, opener>>
    ELSE /\ core' = [core EXCEPT ![p] = failed(@, error)]
         /\ channels' = [channels EXCEPT ![p] = NoChannels]
         /\ UNCHANGED opener

\* Core::fail: the first error wins; every table is emptied, every opener answered.
Fail(p, error) ==
    IF ~Live(p) THEN UNCHANGED <<core, channels, opener>>
    ELSE /\ core' = [core EXCEPT ![p] = failed(@, error)]
         /\ channels' = [channels EXCEPT ![p] = NoChannels]
         /\ opener' = [id \in Ids |-> IF id \in core[p].pending_outgoing /\ opener[id] = "waiting"
                                      THEN "failed" ELSE opener[id]]

-----------------------------------------------------------------------------
(* Opening a channel.                                                      *)

\* What MuxHandle::open checks before it takes an identifier.
MayOpen(p) ==
    /\ Live(p) /\ p \in Openers
    /\ channel_count(p) < MaxChannels[p]
    /\ core[p].next_id + 2 <= MaxId

requested(c, id) ==
    [enqueue_control(c, "OPEN", id) EXCEPT !.next_id = id + 2, !.pending_outgoing = @ \union {id}]

\* MuxHandle::open up to its wait for the peer.
Open(p) ==
    LET id == core[p].next_id
    IN  /\ MayOpen(p) /\ ~ControlsFull(p)
        /\ core' = [core EXCEPT ![p] = requested(@, id)]
        /\ channels' = [channels EXCEPT ![p] = Register(p, id)]
        /\ opener' = [opener EXCEPT ![id] = "waiting"]
        /\ UNCHANGED <<apps, driver>>

\* MuxHandle::open with a full control queue: the identifier is used up.
OpenExhausted(p) ==
    /\ MayOpen(p) /\ ControlsFull(p)
    /\ core' = [core EXCEPT ![p].next_id = @ + 2]
    /\ UNCHANGED <<channels, opener, apps, driver>>

\* MuxHandle::open returns the channel the peer accepted.
OpenReturns(id) ==
    /\ opener[id] = "delivered"
    /\ opener' = [opener EXCEPT ![id] = "open"]
    /\ handle' = [handle EXCEPT ![Owner(id)][id] = "held"]
    /\ UNCHANGED <<core, channels, requests, listening, driver>>

\* OpenCancellation::drop: a channel still registered is to be reset.
ResetPending(id) ==
    channels' = IF id \in Registered(Owner(id))
                THEN [channels EXCEPT ![Owner(id)][id].reset_pending = TRUE]
                ELSE channels

\* Channel::drop on a registered channel: unread input is returned, both closes requested.
Dropped(ch) ==
    [ch EXCEPT !.consumed = @ \/ (ch.inbound /\ ~ch.remote_fin), !.inbound = FALSE,
               !.discard_inbound = TRUE, !.local_fin_requested = TRUE,
               !.local_close_requested = TRUE]

\* The open() future is dropped while it waits for the peer.
CancelOpen(id) ==
    /\ opener[id] = "waiting"
    /\ opener' = [opener EXCEPT ![id] = "cancelled"]
    /\ ResetPending(id)
    /\ UNCHANGED <<core, apps, driver>>

\* The open() future is dropped with the accepted channel in it: first the channel ...
CancelDelivered(id) ==
    /\ opener[id] = "delivered"
    /\ opener' = [opener EXCEPT ![id] = "dropping"]
    /\ channels' = IF id \in Registered(Owner(id))
                   THEN [channels EXCEPT ![Owner(id)][id] = Dropped(@)]
                   ELSE channels
    /\ UNCHANGED <<core, apps, driver>>

\* ... and then its OpenCancellation.
CancelReset(id) ==
    /\ opener[id] = "dropping"
    /\ opener' = [opener EXCEPT ![id] = "cancelled"]
    /\ ResetPending(id)
    /\ UNCHANGED <<core, apps, driver>>

-----------------------------------------------------------------------------
(* Requests of the peer.                                                   *)

Queued(p) == {id \in Ids : requests[p][id] = "queued"}

\* Incoming::recv takes the oldest request and skips one that is no longer pending.
Recv(p) ==
    /\ listening[p] /\ Queued(p) # {}
    /\ LET id == Least(Queued(p))
       IN  requests' = [requests EXCEPT ![p][id] = IF id \in core[p].pending_incoming
                                                   THEN "held" ELSE "done"]
    /\ UNCHANGED <<core, channels, opener, listening, handle, driver>>

\* The Incoming handle is dropped, and with it the requests in its queue.
DropIncoming(p) ==
    /\ listening[p]
    /\ listening' = [listening EXCEPT ![p] = FALSE]
    /\ requests' = [requests EXCEPT ![p] = [id \in Ids |-> IF @[id] = "queued" THEN "dropping" ELSE @[id]]]
    /\ UNCHANGED <<core, channels, opener, handle, driver>>

\* IncomingRequest::accept.
Accept(p, id) ==
    /\ requests[p][id] = "held" /\ id \in core[p].pending_incoming /\ ~ControlsFull(p)
    /\ core' = [core EXCEPT ![p] = withdrawn(enqueue_control(@, "ACCEPT", id), id)]
    /\ channels' = [channels EXCEPT ![p] = Register(p, id)]
    /\ requests' = [requests EXCEPT ![p][id] = "done"]
    /\ handle' = [handle EXCEPT ![p][id] = "held"]
    /\ UNCHANGED <<opener, listening, driver>>

\* IncomingRequest::accept or reject fails; the request it consumed is dropped.
ResponseFails(p, id) ==
    /\ requests[p][id] = "held" /\ (id \notin core[p].pending_incoming \/ ControlsFull(p))
    /\ requests' = [requests EXCEPT ![p][id] = "dropping"]
    /\ UNCHANGED <<core, channels, opener, listening, handle, driver>>

\* reject_request, when there is room for the REJECT.
reject_request(c, id) ==
    remember_closed(withdrawn(enqueue_control(c, "REJECT", id), id), id)

\* Mutant: the rejected request stays with the application.
RejectKeeps(p, id) ==
    /\ requests[p][id] = "held" /\ id \in core[p].pending_incoming /\ ~ControlsFull(p)
    /\ core' = [core EXCEPT ![p] = enqueue_control(@, "REJECT", id)]
    /\ UNCHANGED <<channels, opener, requests, listening, handle, driver>>

\* IncomingRequest::reject.
Reject(p, id) ==
    /\ requests[p][id] = "held" /\ id \in core[p].pending_incoming /\ ~ControlsFull(p)
    /\ core' = [core EXCEPT ![p] = reject_request(@, id)]
    /\ requests' = [requests EXCEPT ![p][id] = "done"]
    /\ UNCHANGED <<channels, opener, listening, handle, driver>>

\* IncomingRequest::drop: reject it, or fail the connection if the queue is full.
DropRequest(p, id) ==
    /\ requests[p][id] \in {"held", "dropping"}
    /\ requests' = [requests EXCEPT ![p][id] = "done"]
    /\ \/ id \notin core[p].pending_incoming /\ UNCHANGED <<core, channels, opener>>
       \/ id \in core[p].pending_incoming /\ ~ControlsFull(p)
          /\ core' = [core EXCEPT ![p] = reject_request(@, id)]
          /\ UNCHANGED <<channels, opener>>
       \/ id \in core[p].pending_incoming /\ ControlsFull(p) /\ Fail(p, "ResourceExhausted")
    /\ UNCHANGED <<listening, handle, driver>>

-----------------------------------------------------------------------------
(* The application's channel.                                              *)

Usable(p, id) == handle[p][id] \in {"held", "written"} /\ id \in Registered(p)

\* Channel::poll_write.
Write(p, id) ==
    /\ <<p, id>> \in Writers /\ handle[p][id] = "held" /\ id \in Registered(p)
    /\ handle' = [handle EXCEPT ![p][id] = "written"]
    /\ channels' = [channels EXCEPT ![p][id].outbound = TRUE]
    /\ UNCHANGED <<core, opener, requests, listening, driver>>

\* Channel::poll_read.
Read(p, id) ==
    /\ Usable(p, id) /\ channels[p][id].inbound
    /\ channels' = [channels EXCEPT ![p][id].inbound = FALSE,
                                    ![p][id].consumed = ~channels[p][id].remote_fin]
    /\ UNCHANGED <<core, opener, apps, driver>>

\* Channel::drop.
DropChannel(p, id) ==
    /\ handle[p][id] \in {"held", "written"}
    /\ handle' = [handle EXCEPT ![p][id] = "dropped"]
    /\ channels' = IF id \in Registered(p)
                   THEN [channels EXCEPT ![p][id] = Dropped(@)] ELSE channels
    /\ UNCHANGED <<core, opener, requests, listening, driver>>

-----------------------------------------------------------------------------
(* The writer.                                                             *)

\* select_channel_control: the frame a channel has to send, in this order.
ControlFrame(ch) ==
    IF ch.reset_pending THEN "RESET"
    ELSE IF ~ch.remote_fin /\ ch.consumed THEN "WINDOW"
    ELSE IF ch.local_fin_requested /\ ~ch.fin_sent /\ ~ch.outbound THEN "FIN"
    ELSE IF /\ ch.fin_sent /\ ch.remote_fin
            /\ ch.local_close_requested /\ ~ch.closed_sent THEN "CLOSED"
    ELSE "NONE"

ControlReady(p) == {id \in Registered(p) : ControlFrame(channels[p][id]) # "NONE"}

\* select_channel_data: output, and no reset under way.
DataReady(p) ==
    {id \in Registered(p) : channels[p][id].outbound /\ ~channels[p][id].reset_pending}

source(p) == Source(core[p].controls # <<>>, ControlReady(p), DataReady(p), sched[p].control_count)

Idle(p) == running[p] /\ Live(p) /\ writing[p] = NoFrame

\* select_frame: the oldest frame of the control queue.
SelectQueued(p) ==
    /\ Idle(p) /\ source(p) = "queue"
    /\ writing' = [writing EXCEPT ![p] = Head(core[p].controls)]
    /\ core' = [core EXCEPT ![p].controls = Tail(@)]
    /\ UNCHANGED <<channels, opener, apps, running, sched, wire>>

\* select_channel_control takes the frame's cause off the channel.
SelectControl(p) ==
    /\ Idle(p) /\ source(p) = "control"
    /\ LET id   == FirstAfter(sched[p].control_cursor, ControlReady(p))
           kind == ControlFrame(channels[p][id])
       IN  /\ writing' = [writing EXCEPT ![p] = Frame(kind, id)]
           /\ sched' = [sched EXCEPT ![p].control_cursor = id]
           /\ channels' = [channels EXCEPT ![p][id] =
                 [@ EXCEPT !.reset_pending = @ /\ kind # "RESET",
                           !.consumed = @ /\ kind # "WINDOW",
                           !.fin_sent = @ \/ kind = "FIN"]]
    /\ UNCHANGED <<core, opener, apps, running, wire>>

\* select_channel_data.
SelectData(p) ==
    /\ Idle(p) /\ source(p) = "data"
    /\ LET id == FirstAfter(sched[p].data_cursor, DataReady(p))
       IN  /\ writing' = [writing EXCEPT ![p] = Frame("DATA", id)]
           /\ sched' = [sched EXCEPT ![p].data_cursor = id]
           /\ channels' = [channels EXCEPT ![p][id].outbound = FALSE]
    /\ UNCHANGED <<core, opener, apps, running, wire>>

\* Mutant: a reset channel is forgotten without a tombstone.
CompletedForgets(p, f) ==
    LET gone == f.id \in Registered(p) /\ (f.kind = "RESET" \/ channels[p][f.id].remote_closed)
    IN  /\ channels' = IF gone THEN [channels EXCEPT ![p] = Unregister(p, f.id)]
                       ELSE IF f.id \in Registered(p)
                       THEN [channels EXCEPT ![p][f.id].closed_sent = TRUE] ELSE channels
        /\ core' = [core EXCEPT ![p].pending_outgoing = @ \ {f.id}]

\* complete_frame for RESET and CLOSED; a channel removed meanwhile is a tombstone already.
Completed(p, f) ==
    LET gone == f.kind = "RESET" \/ (f.id \in Registered(p) /\ channels[p][f.id].remote_closed)
    IN  /\ channels' = IF gone THEN [channels EXCEPT ![p] = Unregister(p, f.id)]
                       ELSE IF f.id \in Registered(p)
                       THEN [channels EXCEPT ![p][f.id].closed_sent = TRUE] ELSE channels
        /\ core' = IF gone THEN [core EXCEPT ![p] = remember_closed(answered(@, f.id), f.id)]
                   ELSE core

\* The write returns: the frame is on its way and complete_frame commits it.
CompleteFrame(p) ==
    /\ running[p] /\ writing[p] # NoFrame /\ running[Other(p)]
    /\ wire' = [wire EXCEPT ![p] = Append(@, writing[p])]
    /\ writing' = [writing EXCEPT ![p] = NoFrame]
    /\ sched' = [sched EXCEPT ![p].control_count = CountControl(@, writing[p].kind)]
    /\ IF writing[p].kind \in {"RESET", "CLOSED"} THEN Completed(p, writing[p])
       ELSE UNCHANGED <<core, channels>>
    /\ UNCHANGED <<opener, apps, running>>

-----------------------------------------------------------------------------
(* The reader.                                                             *)

\* receive_open rejects by itself: too many channels, or no room in the incoming queue.
RefusesOpen(p) ==
    \/ channel_count(p) >= MaxChannels[p]
    \/ ~listening[p] \/ Cardinality(Queued(p)) >= MaxChannels[p]

OpenError(p, id) ==
    IF owns_id(p, id) \/ id <= core[p].last_peer_id THEN "invalid identifier"
    ELSE IF ~Live(p) THEN "ConnectionClosed"
    ELSE IF RefusesOpen(p) /\ ControlsFull(p) THEN "ResourceExhausted" ELSE "none"

\* receive_accept and receive_reject answer an open that is pending or reset.
AnswerError(p, id, error) ==
    IF ~owns_id(p, id) \/ (id \notin core[p].pending_outgoing /\ ~Tombstoned(p, id))
    THEN error ELSE "none"

\* receive_data, receive_window, receive_fin and receive_closed on a registered channel.
ChannelError(f, ch) ==
    CASE f.kind = "DATA" /\ ch.remote_fin -> "DATA after channel close"
      [] f.kind = "FIN" /\ ch.remote_fin -> "duplicate FIN"
      [] f.kind = "CLOSED" /\ (~ch.fin_sent \/ ~ch.remote_fin \/ ch.remote_closed) -> "unexpected CLOSED"
      [] OTHER -> "none"

Known(p, id) ==
    id \in Registered(p) \union core[p].pending_outgoing \union core[p].pending_incoming

FrameError(p, f) ==
    CASE f.kind = "OPEN"   -> OpenError(p, f.id)
      [] f.kind = "ACCEPT" -> AnswerError(p, f.id, "unexpected ACCEPT")
      [] f.kind = "REJECT" -> AnswerError(p, f.id, "unexpected REJECT")
      [] f.kind = "RESET"  -> IF Known(p, f.id) \/ Tombstoned(p, f.id) THEN "none" ELSE "unknown channel"
      [] OTHER -> IF f.kind = "DATA" /\ f.id \in core[p].pending_outgoing
                  THEN "DATA before channel acceptance"
                  ELSE IF f.id \in Registered(p) THEN ChannelError(f, channels[p][f.id])
                  ELSE IF Tombstoned(p, f.id) THEN "none" ELSE "unknown channel"

Ignored == UNCHANGED <<core, channels, opener, requests>>

refused(c, id) == remember_closed(enqueue_control([c EXCEPT !.last_peer_id = id], "REJECT", id), id)
pended(c, id) == [c EXCEPT !.last_peer_id = id, !.pending_incoming = @ \union {id}]

ReceiveOpen(p, id) ==
    /\ IF RefusesOpen(p)
       THEN /\ core' = [core EXCEPT ![p] = refused(@, id)]
            /\ UNCHANGED requests
       ELSE /\ core' = [core EXCEPT ![p] = pended(@, id)]
            /\ requests' = [requests EXCEPT ![p][id] = "queued"]
    /\ UNCHANGED <<channels, opener>>

\* receive_accept: a cancelled opener's channel is dropped and reset.
ReceiveAccept(p, id) ==
    IF id \notin core[p].pending_outgoing THEN Ignored
    ELSE /\ core' = [core EXCEPT ![p] = answered(@, id)]
         /\ IF opener[id] = "waiting"
            THEN opener' = [opener EXCEPT ![id] = "delivered"] /\ UNCHANGED channels
            ELSE /\ channels' = [channels EXCEPT ![p][id] = [Dropped(@) EXCEPT !.reset_pending = TRUE]]
                 /\ UNCHANGED opener
         /\ UNCHANGED requests

ReceiveReject(p, id) ==
    IF id \notin core[p].pending_outgoing THEN Ignored
    ELSE /\ core' = [core EXCEPT ![p] = remember_closed(answered(@, id), id)]
         /\ channels' = [channels EXCEPT ![p] = Unregister(p, id)]
         /\ opener' = [opener EXCEPT ![id] = IF @ = "waiting" THEN "rejected" ELSE @]
         /\ UNCHANGED requests

\* receive_data, receive_window, receive_fin and receive_closed.
ReceiveOnChannel(p, f) ==
    IF f.id \notin Registered(p) THEN Ignored
    ELSE LET ch   == channels[p][f.id]
             gone == f.kind = "CLOSED" /\ ch.closed_sent
         IN  /\ channels' =
                 IF gone THEN [channels EXCEPT ![p] = Unregister(p, f.id)]
                 ELSE [channels EXCEPT ![p][f.id] =
                        [ch EXCEPT
                          !.inbound = @ \/ (f.kind = "DATA" /\ ~ch.discard_inbound),
                          !.consumed = IF f.kind = "FIN" THEN FALSE
                                       ELSE @ \/ (f.kind = "DATA" /\ ch.discard_inbound),
                          !.remote_fin = @ \/ f.kind = "FIN",
                          !.remote_closed = @ \/ f.kind = "CLOSED"]]
             /\ core' = IF gone THEN [core EXCEPT ![p] = remember_closed(@, f.id)] ELSE core
             /\ UNCHANGED <<opener, requests>>

\* Mutant: a reset does not withdraw a request nobody has answered.
ReceiveResetKeepsRequest(p, id) ==
    /\ core' = [core EXCEPT ![p] = remember_closed(answered(@, id), id)]
    /\ channels' = [channels EXCEPT ![p] = Unregister(p, id)]
    /\ opener' = [opener EXCEPT ![id] = IF owns_id(p, id) /\ @ = "waiting" THEN "reset" ELSE @]
    /\ UNCHANGED requests

ReceiveReset(p, id) ==
    /\ core' = [core EXCEPT ![p] = remember_closed(withdrawn(answered(@, id), id), id)]
    /\ channels' = [channels EXCEPT ![p] = Unregister(p, id)]
    /\ opener' = [opener EXCEPT ![id] = IF owns_id(p, id) /\ @ = "waiting" THEN "reset" ELSE @]
    /\ UNCHANGED requests

\* process_frame.
Process(p, f) ==
    CASE f.kind = "OPEN"   -> ReceiveOpen(p, f.id)
      [] f.kind = "ACCEPT" -> ReceiveAccept(p, f.id)
      [] f.kind = "REJECT" -> ReceiveReject(p, f.id)
      [] f.kind = "RESET"  -> ReceiveReset(p, f.id)
      [] OTHER             -> ReceiveOnChannel(p, f)

\* Driver::run returns: the connection fails and the transport is dropped.
DriverReturns(p, error) ==
    /\ Fail(p, error)
    /\ running' = [running EXCEPT ![p] = FALSE]
    /\ writing' = [writing EXCEPT ![p] = NoFrame]
    /\ UNCHANGED sched

\* reader_loop: one frame, or the error that ends the driver.
Receive(p) ==
    /\ running[p] /\ wire[Other(p)] # <<>>
    /\ wire' = [wire EXCEPT ![Other(p)] = Tail(@)]
    /\ LET f     == Head(wire[Other(p)])
           error == FrameError(p, f)
       IN  IF error # "none" THEN DriverReturns(p, error) /\ UNCHANGED requests
           ELSE Process(p, f) /\ UNCHANGED <<running, writing, sched>>
    /\ UNCHANGED <<listening, handle>>

\* The peer's driver is gone: end of file once its frames are read, or a failed write.
TransportEnds(p) ==
    /\ running[p] /\ ~running[Other(p)]
    /\ wire[Other(p)] = <<>> \/ writing[p] # NoFrame
    /\ DriverReturns(p, "Io")
    /\ UNCHANGED <<apps, wire>>

\* writer_loop finds that an application has failed the connection.
WriterEnds(p) ==
    /\ running[p] /\ ~Live(p) /\ writing[p] = NoFrame
    /\ DriverReturns(p, core[p].terminal)
    /\ UNCHANGED <<apps, wire>>

\* Driver::drop.
DropDriver(p) ==
    /\ running[p] /\ p \in Stoppable
    /\ DriverReturns(p, "ConnectionClosed")
    /\ UNCHANGED <<apps, wire>>

-----------------------------------------------------------------------------
Writer(p) ==
    SelectQueued(p) \/ SelectControl(p) \/ SelectData(p) \/ CompleteFrame(p) \/ WriterEnds(p)

Respond(p, id) == Accept(p, id) \/ Reject(p, id) \/ ResponseFails(p, id) \/ DropRequest(p, id)

Next ==
    \/ \E p \in Peers : \/ Open(p) \/ OpenExhausted(p) \/ Recv(p) \/ DropIncoming(p)
                        \/ SelectQueued(p) \/ SelectControl(p) \/ SelectData(p) \/ CompleteFrame(p)
                        \/ Receive(p) \/ TransportEnds(p) \/ WriterEnds(p) \/ DropDriver(p)
    \/ \E id \in Ids : OpenReturns(id) \/ CancelOpen(id) \/ CancelDelivered(id) \/ CancelReset(id)
    \/ \E p \in Peers, id \in Ids :
          \/ Accept(p, id) \/ Reject(p, id) \/ ResponseFails(p, id) \/ DropRequest(p, id)
          \/ Write(p, id) \/ Read(p, id) \/ DropChannel(p, id)

\* What runs by itself: both loops of a running driver are polled, the application serves its
\* requests, and the drop of a future or of a request runs to its end.
Runs ==
    \E p \in Peers : \/ Writer(p) \/ Receive(p) \/ TransportEnds(p) \/ Recv(p)
                     \/ \E id \in Ids : Respond(p, id) \/ CancelReset(id)

\* Opens are finite in number, so it is enough that some ready task runs.
Spec == Init /\ [][Next]_vars /\ WF_vars(Runs)

-----------------------------------------------------------------------------

(* Two peers that run this code never accuse each other: no order of       *)
(* opens, cancellations, answers, closes and late frames makes a receive   *)
(* handler of driver.rs return a protocol error, which would end every     *)
(* channel of the connection.                                              *)
NoProtocolError == \A p \in Peers : core[p].terminal \notin ProtocolErrors

Settled(p) ==
    /\ running[p] /\ Live(p) /\ writing[p] = NoFrame /\ wire[p] = <<>>
    /\ core[p].controls = <<>> /\ ControlReady(p) = {}

(* Once no frame is queued, ready, being written or under way, the two     *)
(* registries hold the same channels: neither side keeps one, and its      *)
(* share of max_channels, that the other side has forgotten.               *)
TablesAgree ==
    (\A p \in Peers : Settled(p)) =>
        \A id \in Ids : LET a == Owner(id)
                            b == Other(a)
                        IN  /\ id \in Registered(a) <=>
                                 id \in Registered(b) \union core[b].pending_incoming
                            /\ id \in core[a].pending_outgoing <=> id \in core[b].pending_incoming

(* open() returns a channel only if the peer's application accepted it,    *)
(* and a rejection only if it did not.                                     *)
OutcomesAgree ==
    \A id \in Ids : LET accepted == handle[Other(Owner(id))][id] # "none"
                    IN  /\ opener[id] \in {"delivered", "open", "dropping"} => accepted
                        /\ opener[id] = "rejected" => ~accepted

(* Every open() is answered, rejected or failed in the end, and a          *)
(* cancelled one leaves both registries.                                   *)
OpensSettle ==
    []<>(\A id \in Ids :
            /\ opener[id] # "waiting"
            /\ opener[id] = "cancelled" =>
                 \A p \in Peers : id \notin Registered(p) \union core[p].pending_incoming)

=============================================================================
