----------------------------- MODULE MuxChannel -----------------------------
(***************************************************************************)
(* One accepted channel of the stream multiplexer, from acceptance to      *)
(* removal on both sides (tascarrel-mux, connection.rs and driver.rs).     *)
(*                                                                         *)
(* Each peer has a channel record (ChannelInner), an application that      *)
(* reads, writes, shuts down, closes or drops the channel, a writer that   *)
(* selects one frame, writes it and then commits its completion, and a     *)
(* reader that applies the frames of the peer in order.  Both driver loops *)
(* run in one task, so selection, completion and receipt are atomic steps  *)
(* and interleave only where the writer waits for the transport.           *)
(* The transports in use (the host's UnixStream, the guest's device) flush *)
(* without suspending: a frame is visible to the peer and committed in one *)
(* step.  A transport that suspends in between is outside this model.      *)
(*                                                                         *)
(* A byte is its position in the stream it was written to.  Every frame    *)
(* carries the totals of its direction before it (pos); they are auxiliary *)
(* and no guard reads them.                                                *)
(***************************************************************************)
EXTENDS Integers, Sequences

CONSTANTS
    ByteWindow,   \* initial_byte_window of each peer
    FrameWindow,  \* initial_frame_window of each peer
    MaxFrameSize, \* max_frame_size of each peer
    MaxBytes      \* bound: bytes each application writes

Peers == {"client", "server"}

Other(p) == IF p = "client" THEN "server" ELSE "client"

\* Config::validate.
ASSUME ChannelAssumption ==
    /\ ByteWindow \in [Peers -> Nat \ {0}]
    /\ FrameWindow \in [Peers -> Nat \ {0}]
    /\ MaxFrameSize \in [Peers -> Nat \ {0}]
    /\ \A p \in Peers : MaxFrameSize[p] <= ByteWindow[p]
    /\ MaxBytes \in [Peers -> Nat]

VARIABLES
    app,     \* what the application holds: "open", "closing", "closed", "dropped"
    written, \* bytes poll_write accepted
    read,    \* bytes consumed or discarded from the peer's stream
    eof,     \* the application has seen the end of the peer's stream
    aborted, \* the channel was dropped before its write half was shut down
    ch,      \* flags and credits of ChannelInner
    inbound, \* end position of each received chunk not yet consumed
    writing, \* the frame the writer selected and has not completed
    wire,    \* wire[p]: frames written by p and not yet received
    put,     \* totals of the frames selected by p
    got,     \* totals of the frames received by p
    fault    \* protocol error that ended p's driver, or "none"

vars == <<app, written, read, eof, aborted, ch, inbound, writing, wire, put, got, fault>>

-----------------------------------------------------------------------------
(* Frames and totals.                                                      *)

\* Bytes and frames of DATA, bytes and frames returned by WINDOW, FINs, CLOSEDs.
Totals == [db : Nat, df : Nat, wb : Nat, wf : Nat, fin : Nat, cl : Nat]

Zero == [db |-> 0, df |-> 0, wb |-> 0, wf |-> 0, fin |-> 0, cl |-> 0]

Frames ==
    [kind : {"DATA", "WINDOW", "FIN", "CLOSED"}, bytes : Nat, frames : Nat, pos : Totals]

NoFrame == [kind |-> "NONE", bytes |-> 0, frames |-> 0, pos |-> Zero]

\* Totals of a direction once frame f is added to those before it.
After(f) ==
    [db  |-> IF f.kind = "DATA" THEN f.pos.db + f.bytes ELSE f.pos.db,
     df  |-> IF f.kind = "DATA" THEN f.pos.df + 1 ELSE f.pos.df,
     wb  |-> IF f.kind = "WINDOW" THEN f.pos.wb + f.bytes ELSE f.pos.wb,
     wf  |-> IF f.kind = "WINDOW" THEN f.pos.wf + f.frames ELSE f.pos.wf,
     fin |-> IF f.kind = "FIN" THEN f.pos.fin + 1 ELSE f.pos.fin,
     cl  |-> IF f.kind = "CLOSED" THEN f.pos.cl + 1 ELSE f.pos.cl]

Channel ==
    [send_bytes : Nat, send_frames : Nat,
     receive_bytes : Nat, receive_frames : Nat,
     consumed_bytes : Nat, consumed_frames : Nat,
     discard_inbound : BOOLEAN,
     local_fin_requested : BOOLEAN, fin_sent : BOOLEAN, remote_fin : BOOLEAN,
     local_close_requested : BOOLEAN, closed_sent : BOOLEAN,
     remote_closed : BOOLEAN, removed : BOOLEAN]

\* ChannelInner::new, then the windows advertised in OPEN and ACCEPT.
NewChannel(p) ==
    [send_bytes |-> ByteWindow[Other(p)], send_frames |-> FrameWindow[Other(p)],
     receive_bytes |-> ByteWindow[p], receive_frames |-> FrameWindow[p],
     consumed_bytes |-> 0, consumed_frames |-> 0,
     discard_inbound |-> FALSE,
     local_fin_requested |-> FALSE, fin_sent |-> FALSE, remote_fin |-> FALSE,
     local_close_requested |-> FALSE, closed_sent |-> FALSE,
     remote_closed |-> FALSE, removed |-> FALSE]

Init ==
    /\ app = [p \in Peers |-> "open"]
    /\ written = [p \in Peers |-> 0]
    /\ read = [p \in Peers |-> 0]
    /\ eof = [p \in Peers |-> FALSE]
    /\ aborted = [p \in Peers |-> FALSE]
    /\ ch = [p \in Peers |-> NewChannel(p)]
    /\ inbound = [p \in Peers |-> <<>>]
    /\ writing = [p \in Peers |-> NoFrame]
    /\ wire = [p \in Peers |-> <<>>]
    /\ put = [p \in Peers |-> Zero]
    /\ got = [p \in Peers |-> Zero]
    /\ fault = [p \in Peers |-> "none"]

Faults == {"none", "DATA after channel close", "byte credit", "frame credit",
           "credit update", "duplicate FIN", "unexpected CLOSED"}

Live(p) == fault[p] = "none"

\* Bytes accepted from the application and not yet put in a frame.
outbound_len(p) == written[p] - put[p].db

\* Bytes received and neither read nor discarded.
inbound_len(p) == got[p].db - read[p]

-----------------------------------------------------------------------------
(* The application.                                                        *)

\* poll_write: accepts at most what fits the local output buffer.
Write(p, n) ==
    /\ Live(p) /\ app[p] = "open" /\ ~ch[p].local_fin_requested
    /\ n <= ByteWindow[p] - outbound_len(p)
    /\ written[p] + n <= MaxBytes[p]
    /\ written' = [written EXCEPT ![p] = @ + n]
    /\ UNCHANGED <<app, read, eof, aborted, ch, inbound, writing, wire, put, got, fault>>

\* Mutant: a finished chunk does not return its frame credit.
ReadKeepsFrameCredit(p, n) ==
    LET finished == read[p] + n = Head(inbound[p]) IN
    /\ Live(p) /\ app[p] \in {"open", "closed"} /\ inbound[p] # <<>>
    /\ read[p] + n <= Head(inbound[p])
    /\ read' = [read EXCEPT ![p] = @ + n]
    /\ inbound' = [inbound EXCEPT ![p] = IF finished THEN Tail(@) ELSE @]
    /\ ch' = [ch EXCEPT ![p].consumed_bytes = IF ch[p].remote_fin THEN @ ELSE @ + n]
    /\ UNCHANGED <<app, written, eof, aborted, writing, wire, put, got, fault>>

\* poll_read: n bytes of the front chunk; credit for them is collected unless
\* the peer has already closed its write half.
Read(p, n) ==
    LET finished == read[p] + n = Head(inbound[p])
        open == ~ch[p].remote_fin IN
    /\ Live(p) /\ app[p] \in {"open", "closed"} /\ inbound[p] # <<>>
    /\ read[p] + n <= Head(inbound[p])
    /\ read' = [read EXCEPT ![p] = @ + n]
    /\ inbound' = [inbound EXCEPT ![p] = IF finished THEN Tail(@) ELSE @]
    /\ ch' = [ch EXCEPT ![p].consumed_bytes = IF open THEN @ + n ELSE @,
                        ![p].consumed_frames = IF open /\ finished THEN @ + 1 ELSE @]
    /\ UNCHANGED <<app, written, eof, aborted, writing, wire, put, got, fault>>

\* poll_read with nothing buffered after the peer's FIN.
ReadEof(p) ==
    /\ Live(p) /\ app[p] \in {"open", "closed"} /\ ~eof[p]
    /\ inbound[p] = <<>> /\ ch[p].remote_fin
    /\ eof' = [eof EXCEPT ![p] = TRUE]
    /\ UNCHANGED <<app, written, read, aborted, ch, inbound, writing, wire, put, got, fault>>

\* poll_shutdown.
Shutdown(p) ==
    /\ Live(p) /\ app[p] = "open" /\ ~ch[p].local_fin_requested
    /\ ch' = [ch EXCEPT ![p].local_fin_requested = TRUE]
    /\ UNCHANGED <<app, written, read, eof, aborted, inbound, writing, wire, put, got, fault>>

\* Channel::close until its first wait.
CloseChannel(p) ==
    /\ Live(p) /\ app[p] = "open"
    /\ app' = [app EXCEPT ![p] = "closing"]
    /\ ch' = [ch EXCEPT ![p].local_fin_requested = TRUE,
                        ![p].local_close_requested = TRUE]
    /\ UNCHANGED <<written, read, eof, aborted, inbound, writing, wire, put, got, fault>>

\* The close future is cancelled; the flags it set stay.
CancelClose(p) ==
    /\ Live(p) /\ app[p] = "closing"
    /\ app' = [app EXCEPT ![p] = "open"]
    /\ UNCHANGED <<written, read, eof, aborted, ch, inbound, writing, wire, put, got, fault>>

\* Channel::close returns Ok.
CloseReturns(p) ==
    /\ Live(p) /\ app[p] = "closing"
    /\ ch[p].closed_sent /\ ch[p].remote_closed
    /\ app' = [app EXCEPT ![p] = "closed"]
    /\ UNCHANGED <<written, read, eof, aborted, ch, inbound, writing, wire, put, got, fault>>

\* Drop for Channel: what is buffered counts as consumed and later data is
\* discarded on arrival.
Drop(p) ==
    LET open == ~ch[p].remote_fin IN
    /\ Live(p) /\ app[p] # "dropped"
    /\ app' = [app EXCEPT ![p] = "dropped"]
    /\ ch' = [ch EXCEPT
                ![p].consumed_bytes = IF open THEN @ + inbound_len(p) ELSE @,
                ![p].consumed_frames = IF open THEN @ + Len(inbound[p]) ELSE @,
                ![p].discard_inbound = TRUE,
                ![p].local_fin_requested = TRUE,
                ![p].local_close_requested = TRUE]
    /\ aborted' = [aborted EXCEPT ![p] = ~ch[p].local_fin_requested]
    /\ read' = [read EXCEPT ![p] = got[p].db]
    /\ inbound' = [inbound EXCEPT ![p] = <<>>]
    /\ UNCHANGED <<written, eof, writing, wire, put, got, fault>>

-----------------------------------------------------------------------------
(* The writer: select_channel_control and select_channel_data choose a     *)
(* frame, write_frame hands it to the transport, complete_frame commits.   *)

Idle(p) == Live(p) /\ writing[p] = NoFrame /\ ~ch[p].removed

Select(p, kind, bytes, frames) ==
    LET f == [kind |-> kind, bytes |-> bytes, frames |-> frames, pos |-> put[p]] IN
    /\ writing' = [writing EXCEPT ![p] = f]
    /\ put' = [put EXCEPT ![p] = After(f)]
    /\ UNCHANGED <<app, written, read, eof, aborted, inbound, wire, got, fault>>

WindowReady(p) ==
    /\ ~ch[p].remote_fin
    /\ ch[p].consumed_bytes # 0 \/ ch[p].consumed_frames # 0

FinReady(p) ==
    ch[p].local_fin_requested /\ ~ch[p].fin_sent /\ outbound_len(p) = 0

SelectWindow(p) ==
    /\ Idle(p) /\ WindowReady(p)
    /\ Select(p, "WINDOW", ch[p].consumed_bytes, ch[p].consumed_frames)
    /\ ch' = [ch EXCEPT ![p].consumed_bytes = 0, ![p].consumed_frames = 0]

\* Mutant: FIN while output is still buffered.
SelectFinEarly(p) ==
    /\ Idle(p) /\ ~WindowReady(p)
    /\ ch[p].local_fin_requested /\ ~ch[p].fin_sent
    /\ Select(p, "FIN", 0, 0)
    /\ ch' = [ch EXCEPT ![p].fin_sent = TRUE]

\* fin_sent is committed at selection, before the write yields.
SelectFin(p) ==
    /\ Idle(p) /\ ~WindowReady(p) /\ FinReady(p)
    /\ Select(p, "FIN", 0, 0)
    /\ ch' = [ch EXCEPT ![p].fin_sent = TRUE]

\* Mutant: CLOSED is sent only in answer to the peer's.
SelectClosedWaits(p) ==
    /\ Idle(p) /\ ~WindowReady(p) /\ ~FinReady(p)
    /\ ch[p].fin_sent /\ ch[p].remote_closed
    /\ ch[p].local_close_requested /\ ~ch[p].closed_sent
    /\ Select(p, "CLOSED", 0, 0)
    /\ UNCHANGED ch

SelectClosed(p) ==
    /\ Idle(p) /\ ~WindowReady(p) /\ ~FinReady(p)
    /\ ch[p].fin_sent /\ ch[p].remote_fin
    /\ ch[p].local_close_requested /\ ~ch[p].closed_sent
    /\ Select(p, "CLOSED", 0, 0)
    /\ UNCHANGED ch

\* The size of the next DATA frame.
DataAmount(p) ==
    LET least(a, b) == IF a < b THEN a ELSE b
    IN  least(least(ch[p].send_bytes, MaxFrameSize[Other(p)]), outbound_len(p))

\* Mutant: a DATA frame does not use frame credit.
SelectDataKeepsFrameCredit(p) ==
    /\ Idle(p) /\ ch[p].send_bytes # 0 /\ ch[p].send_frames # 0 /\ outbound_len(p) # 0
    /\ Select(p, "DATA", DataAmount(p), 0)
    /\ ch' = [ch EXCEPT ![p].send_bytes = @ - DataAmount(p)]

\* The burst limit may force DATA ahead of ready control frames, so no order
\* between the two is assumed.
SelectData(p) ==
    /\ Idle(p) /\ ch[p].send_bytes # 0 /\ ch[p].send_frames # 0 /\ outbound_len(p) # 0
    /\ Select(p, "DATA", DataAmount(p), 0)
    /\ ch' = [ch EXCEPT ![p].send_bytes = @ - DataAmount(p), ![p].send_frames = @ - 1]

\* write_frame returns and complete_frame commits the frame.
CompleteFrame(p) ==
    LET f == writing[p] IN
    /\ Live(p) /\ f # NoFrame
    /\ wire' = [wire EXCEPT ![p] = Append(@, f)]
    /\ writing' = [writing EXCEPT ![p] = NoFrame]
    /\ ch' = CASE f.kind = "WINDOW" ->
                    [ch EXCEPT ![p].receive_bytes = @ + f.bytes,
                               ![p].receive_frames = @ + f.frames]
               [] f.kind = "CLOSED" ->
                    [ch EXCEPT ![p].closed_sent = TRUE,
                               ![p].removed = ch[p].remote_closed]
               [] f.kind \in {"DATA", "FIN"} -> ch
    /\ UNCHANGED <<app, written, read, eof, aborted, inbound, put, got, fault>>

-----------------------------------------------------------------------------
(* The reader: process_frame on the next frame of the peer.                *)

Arrives(p, kind) ==
    Live(p) /\ wire[Other(p)] # <<>> /\ Head(wire[Other(p)]).kind = kind

\* A frame for a removed channel finds its tombstone and is ignored; an error
\* ends the driver before the channel record changes.
Receive(p, error) ==
    /\ wire' = [wire EXCEPT ![Other(p)] = Tail(@)]
    /\ got' = [got EXCEPT ![p] = After(Head(wire[Other(p)]))]
    /\ fault' = [fault EXCEPT ![p] = error]
    /\ UNCHANGED <<app, written, eof, aborted, writing, put>>

Applies(p, error) == ~ch[p].removed /\ error = "none"

DataError(p, n) ==
    IF ch[p].removed THEN "none"
    ELSE IF ch[p].remote_fin THEN "DATA after channel close"
    ELSE IF ch[p].receive_bytes < n THEN "byte credit"
    ELSE IF ch[p].receive_frames < 1 THEN "frame credit" ELSE "none"

\* Mutant: data discarded for a dropped channel does not return credit.
ReceiveDataDiscardLosesCredit(p) ==
    LET n == Head(wire[Other(p)]).bytes
        use == Applies(p, DataError(p, n))
        discard == ch[p].discard_inbound IN
    /\ Arrives(p, "DATA") /\ Receive(p, DataError(p, n))
    /\ ch' = IF use THEN [ch EXCEPT ![p].receive_bytes = @ - n, ![p].receive_frames = @ - 1]
             ELSE ch
    /\ read' = IF use /\ discard THEN [read EXCEPT ![p] = @ + n] ELSE read
    /\ inbound' = IF use /\ ~discard
                  THEN [inbound EXCEPT ![p] = Append(@, got[p].db + n)] ELSE inbound

ReceiveData(p) ==
    LET n == Head(wire[Other(p)]).bytes
        use == Applies(p, DataError(p, n))
        discard == ch[p].discard_inbound IN
    /\ Arrives(p, "DATA") /\ Receive(p, DataError(p, n))
    /\ ch' = IF use
             THEN [ch EXCEPT ![p].receive_bytes = @ - n,
                             ![p].receive_frames = @ - 1,
                             ![p].consumed_bytes = IF discard THEN @ + n ELSE @,
                             ![p].consumed_frames = IF discard THEN @ + 1 ELSE @]
             ELSE ch
    /\ read' = IF use /\ discard THEN [read EXCEPT ![p] = @ + n] ELSE read
    /\ inbound' = IF use /\ ~discard
                  THEN [inbound EXCEPT ![p] = Append(@, got[p].db + n)] ELSE inbound

WindowError(p, f) ==
    IF /\ ~ch[p].removed
       /\ \/ ch[p].send_bytes + f.bytes > ByteWindow[Other(p)]
          \/ ch[p].send_frames + f.frames > FrameWindow[Other(p)]
    THEN "credit update" ELSE "none"

ReceiveWindow(p) ==
    LET f == Head(wire[Other(p)])
        error == WindowError(p, f) IN
    /\ Arrives(p, "WINDOW") /\ Receive(p, error)
    /\ ch' = IF Applies(p, error)
             THEN [ch EXCEPT ![p].send_bytes = @ + f.bytes, ![p].send_frames = @ + f.frames]
             ELSE ch
    /\ UNCHANGED <<inbound, read>>

FinError(p) ==
    IF ~ch[p].removed /\ ch[p].remote_fin THEN "duplicate FIN" ELSE "none"

\* No more DATA can arrive, so credit not yet on the wire is forgotten.
ReceiveFin(p) ==
    /\ Arrives(p, "FIN") /\ Receive(p, FinError(p))
    /\ ch' = IF Applies(p, FinError(p))
             THEN [ch EXCEPT ![p].remote_fin = TRUE,
                             ![p].consumed_bytes = 0, ![p].consumed_frames = 0]
             ELSE ch
    /\ UNCHANGED <<inbound, read>>

ClosedError(p) ==
    IF ~ch[p].removed /\ (~ch[p].fin_sent \/ ~ch[p].remote_fin \/ ch[p].remote_closed)
    THEN "unexpected CLOSED" ELSE "none"

ReceiveClosed(p) ==
    /\ Arrives(p, "CLOSED") /\ Receive(p, ClosedError(p))
    /\ ch' = IF Applies(p, ClosedError(p))
             THEN [ch EXCEPT ![p].remote_closed = TRUE, ![p].removed = ch[p].closed_sent]
             ELSE ch
    /\ UNCHANGED <<inbound, read>>

-----------------------------------------------------------------------------
AppStep(p) ==
    \/ \E n \in 1 .. MaxBytes[p] : Write(p, n)
    \/ \E n \in 1 .. MaxBytes[Other(p)] : Read(p, n)
    \/ ReadEof(p) \/ Shutdown(p) \/ CloseChannel(p)
    \/ CancelClose(p) \/ CloseReturns(p) \/ Drop(p)

WriterStep(p) ==
    \/ SelectWindow(p) \/ SelectFin(p) \/ SelectClosed(p) \/ SelectData(p)
    \/ CompleteFrame(p)

ReaderStep(p) ==
    ReceiveData(p) \/ ReceiveWindow(p) \/ ReceiveFin(p) \/ ReceiveClosed(p)

Next == \E p \in Peers : AppStep(p) \/ WriterStep(p) \/ ReaderStep(p)

Spec == Init /\ [][Next]_vars

(* What runs by itself: the driver task is polled whenever the transport   *)
(* or a notification makes one of its loops ready, and applications read   *)
(* what is buffered and await close.                                       *)
Runs ==
    \E p \in Peers :
        WriterStep(p) \/ ReaderStep(p) \/ CloseReturns(p) \/ \E n \in 1 .. MaxBytes[Other(p)] : Read(p, n)

(* Writes are finite in number, so it is enough that some ready task runs. *)
FairSpec == Spec /\ WF_vars(Runs)

-----------------------------------------------------------------------------
ChannelTypeOK ==
    /\ app \in [Peers -> {"open", "closing", "closed", "dropped"}]
    /\ written \in [Peers -> Nat]
    /\ read \in [Peers -> Nat]
    /\ eof \in [Peers -> BOOLEAN]
    /\ aborted \in [Peers -> BOOLEAN]
    /\ ch \in [Peers -> Channel]
    /\ inbound \in [Peers -> Seq(Nat)]
    /\ writing \in [Peers -> Frames \cup {NoFrame}]
    /\ wire \in [Peers -> Seq(Frames)]
    /\ put \in [Peers -> Totals]
    /\ got \in [Peers -> Totals]
    /\ fault \in [Peers -> Faults]

(* Two peers that run this code never trip one of the protocol checks of   *)
(* receive_data, receive_window, receive_fin and receive_closed, which end *)
(* the whole connection: credit is never exceeded, no DATA follows FIN, no *)
(* FIN or CLOSED is repeated or comes early.                               *)
NoProtocolFault == \A p \in Peers : fault[p] = "none"

(* "A slow channel cannot consume unbounded memory" (lib.rs 5-7): what is  *)
(* buffered for an application that does not read stays within the byte    *)
(* and frame windows, and so does what an application queues for sending.  *)
BuffersBounded ==
    \A p \in Peers : /\ inbound_len(p) <= ByteWindow[p]
                     /\ Len(inbound[p]) <= FrameWindow[p]
                     /\ outbound_len(p) <= ByteWindow[p]

(* The "bounded by the receive window" expectations of complete_frame:     *)
(* returning credit never raises the receive window above its initial      *)
(* value, so the driver does not panic.                                    *)
ReceiveCreditBounded ==
    \A p \in Peers : /\ ch[p].receive_bytes <= ByteWindow[p]
                     /\ ch[p].receive_frames <= FrameWindow[p]

(* No credit is lost: once everything a peer sent is consumed and the      *)
(* returned credit has arrived, the sender has its full window again,      *)
(* however reads, drops and window updates interleaved.                    *)
CreditReturns ==
    \A p \in Peers :
        LET q == Other(p) IN
        /\ wire[p] = <<>> /\ wire[q] = <<>> /\ writing[p] = NoFrame /\ writing[q] = NoFrame
        /\ inbound[q] = <<>> /\ ~WindowReady(q)
        /\ ~ch[q].remote_fin /\ fault[p] = "none" /\ fault[q] = "none"
        => /\ ch[p].send_bytes = ByteWindow[q]
           /\ ch[p].send_frames = FrameWindow[q]

(* An application sees the end of the stream only after every byte the     *)
(* peer's application wrote: FIN is selected behind all buffered output.   *)
EofIsComplete ==
    \A p \in Peers : eof[p] => read[p] = written[Other(p)]

(* close() "confirms that the peer's channel handler has finished"         *)
(* (connection.rs 360-363): it returns only after the peer's application   *)
(* has closed or dropped its channel too.                                  *)
CloseConfirmsPeer ==
    \A p \in Peers : app[p] = "closed" => ch[Other(p)].local_close_requested

(* A side forgets the channel only when no frame of it can arrive any      *)
(* more, so a graceful close never depends on the bounded set of           *)
(* tombstones: CLOSED is ordered behind every WINDOW and FIN.              *)
RemovedIsQuiet ==
    \A p \in Peers :
        ch[p].removed =>
            /\ wire[Other(p)] = <<>>
            /\ writing[Other(p)] = NoFrame
            /\ ch[Other(p)].closed_sent \/ writing[Other(p)].kind = "CLOSED"

(* Dropping both ends releases the channel on both sides: each side drains *)
(* the other's data, the FINs and CLOSEDs cross, and both map entries go.  *)
DroppedIsReleased ==
    []<>((\A p \in Peers : app[p] = "dropped") => \A p \in Peers : ch[p].removed)

(* Bytes an application wrote reach the reading application, also after    *)
(* the writer shut down or dropped its channel, unless the reader stopped  *)
(* reading to close.                                                       *)
WrittenIsConsumed ==
    []<>(\A p \in Peers : read[Other(p)] = written[p] \/ app[Other(p)] \in {"closing", "closed"})

(* close() called after the end of the peer's stream returns once the peer *)
(* has released its channel.                                               *)
CloseAfterEofCompletes ==
    []<>(\A p \in Peers : ~(app[p] = "closing" /\ eof[p] /\ app[Other(p)] = "dropped"))

(* lib.rs 11-13: "dropping an unfinished channel resets it", so the peer   *)
(* of a channel dropped before shutdown never reads a regular end of       *)
(* stream from it.                                                         *)
AbortIsNotEof ==
    \A p \in Peers : aborted[p] => ~eof[Other(p)]

=============================================================================
