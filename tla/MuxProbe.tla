------------------------------ MODULE MuxProbe ------------------------------
(***************************************************************************)
(* Transport synchronization of the stream multiplexer (tascarrel-mux,     *)
(* protocol.rs).  Before either peer writes frames, both repeat a          *)
(* standalone probe byte.  A peer that reads a probe writes exactly one    *)
(* reciprocal probe and enters framed mode; surplus probes are skipped at  *)
(* frame boundaries.                                                       *)
(*                                                                         *)
(* The transport (virtio-serial) is external: lib.rs documents that it may *)
(* discard bytes until a path exists, that once it delivers a probe one    *)
(* way it delivers the next probe of the other way, and that from its      *)
(* first delivered probe on a direction is ordered and lossless.           *)
(***************************************************************************)
EXTENDS Naturals, Sequences

CONSTANTS
    Capacity,    \* bytes the transport buffers per direction
    StaleProbes, \* probes a previous connection may have left in a direction
    MaxFrames    \* bound: frames each peer writes

ASSUME ProbeAssumption ==
    /\ Capacity \in Nat \ {0}
    /\ StaleProbes \in 0 .. (Capacity - 1)
    /\ MaxFrames \in Nat

Sides == {"client", "server"}

OtherSide(p) == IF p = "client" THEN "server" ELSE "client"

VARIABLES
    pc,       \* where each peer's driver is
    stream,   \* stream[p]: bytes written by p and not yet read by OtherSide(p)
    open,     \* open[p]: the direction written by p no longer discards
    owed,     \* owed[p]: a probe was delivered to p, its next probe must arrive
    closed,   \* closed[p]: p dropped its transport half
    sent      \* frames written by p

probe_vars == <<pc, stream, open, owed, closed, sent>>

ProbeTypeOK ==
    /\ pc \in [Sides -> {"write", "poll", "wait", "reply", "framed",
                      "eof", "protocol"}]
    /\ stream \in [Sides -> Seq({"probe", "frame"})]
    /\ \A p \in Sides : Len(stream[p]) <= Capacity
    /\ open \in [Sides -> BOOLEAN]
    /\ owed \in [Sides -> BOOLEAN]
    /\ closed \in [Sides -> BOOLEAN]
    /\ sent \in [Sides -> 0 .. MaxFrames]

ProbeInit ==
    /\ pc = [p \in Sides |-> "write"]
    /\ open \in [Sides -> BOOLEAN]
    /\ \E n \in [Sides -> 0 .. StaleProbes] :
          /\ \A p \in Sides : ~open[p] => n[p] = 0
          /\ stream = [p \in Sides |-> [i \in 1 .. n[p] |-> "probe"]]
    /\ owed = [p \in Sides |-> FALSE]
    /\ closed = [p \in Sides |-> FALSE]
    /\ sent = [p \in Sides |-> 0]

-----------------------------------------------------------------------------
(* What happens to one byte written by p.  A write to an established       *)
(* direction waits for buffer space; one to a direction without a path     *)
(* succeeds and the byte disappears, unless the transport owes p delivery. *)
WriteByte(p, byte) ==
    IF open[p] \/ (byte = "probe" /\ owed[p])
    THEN /\ Len(stream[p]) < Capacity
         /\ stream' = [stream EXCEPT ![p] = Append(@, byte)]
         /\ open' = [open EXCEPT ![p] = TRUE]
    ELSE UNCHANGED <<stream, open>>

Running(p) == ~closed[p] /\ pc[p] \notin {"eof", "protocol"}

\* probe_handshake: write and flush one probe, then poll the reader against a
\* fresh deadline.
WriteProbe(p) ==
    /\ Running(p) /\ pc[p] = "write"
    /\ WriteByte(p, "probe")
    /\ pc' = [pc EXCEPT ![p] = "poll"]
    /\ UNCHANGED <<owed, closed, sent>>

\* The first poll found nothing to read; the deadline cannot have elapsed yet.
Park(p) ==
    /\ Running(p) /\ pc[p] = "poll"
    /\ stream[OtherSide(p)] = <<>> /\ ~closed[OtherSide(p)]
    /\ pc' = [pc EXCEPT ![p] = "wait"]
    /\ UNCHANGED <<stream, open, owed, closed, sent>>

\* Mutant: a peer that probes only once.
ProbeIntervalNoRetry(p) ==
    /\ Running(p) /\ pc[p] = "wait"
    /\ pc' = [pc EXCEPT ![p] = "poll"]
    /\ UNCHANGED <<stream, open, owed, closed, sent>>

\* The probe interval elapsed.  A byte that arrived meanwhile may lose the
\* race, since select! picks among ready branches at random.
ProbeInterval(p) ==
    /\ Running(p) /\ pc[p] = "wait"
    /\ pc' = [pc EXCEPT ![p] = "write"]
    /\ UNCHANGED <<stream, open, owed, closed, sent>>

\* A probe read in the handshake asks for the reciprocal probe; a non-probe
\* byte before establishment is a protocol error.
ReadProbe(p) ==
    /\ Running(p) /\ pc[p] \in {"poll", "wait"} /\ stream[OtherSide(p)] # <<>>
    /\ pc' = [pc EXCEPT ![p] =
                IF Head(stream[OtherSide(p)]) = "probe" THEN "reply" ELSE "protocol"]
    /\ stream' = [stream EXCEPT ![OtherSide(p)] = Tail(@)]
    /\ owed' = [owed EXCEPT ![p] = TRUE]
    /\ UNCHANGED <<open, closed, sent>>

\* Mutant: framed mode without the reciprocal probe.
WriteReplySkipped(p) ==
    /\ Running(p) /\ pc[p] = "reply"
    /\ pc' = [pc EXCEPT ![p] = "framed"]
    /\ UNCHANGED <<stream, open, owed, closed, sent>>

\* Exactly one reciprocal probe, then framed mode.
WriteReply(p) ==
    /\ Running(p) /\ pc[p] = "reply"
    /\ WriteByte(p, "probe")
    /\ pc' = [pc EXCEPT ![p] = "framed"]
    /\ UNCHANGED <<owed, closed, sent>>

\* write_frame after synchronization.
WriteFrame(p) ==
    /\ Running(p) /\ pc[p] = "framed" /\ sent[p] < MaxFrames
    /\ WriteByte(p, "frame")
    /\ sent' = [sent EXCEPT ![p] = @ + 1]
    /\ UNCHANGED <<pc, owed, closed>>

\* read_frame_header: a probe at a frame boundary is discarded.
ReadFrame(p) ==
    /\ Running(p) /\ pc[p] = "framed" /\ stream[OtherSide(p)] # <<>>
    /\ stream' = [stream EXCEPT ![OtherSide(p)] = Tail(@)]
    /\ UNCHANGED <<pc, open, owed, closed, sent>>

\* The peer is gone: a read meets the end of the transport, a write fails.
TransportClosed(p) ==
    /\ Running(p) /\ closed[OtherSide(p)]
    /\ pc[p] \in {"poll", "wait"} => stream[OtherSide(p)] = <<>>
    /\ pc' = [pc EXCEPT ![p] = "eof"]
    /\ UNCHANGED <<stream, open, owed, closed, sent>>

\* The driver is dropped.
Close(p) ==
    /\ ~closed[p]
    /\ closed' = [closed EXCEPT ![p] = TRUE]
    /\ UNCHANGED <<pc, stream, open, owed, sent>>

\* External: the transport establishes the direction written by p.
Establish(p) ==
    /\ ~open[p]
    /\ open' = [open EXCEPT ![p] = TRUE]
    /\ UNCHANGED <<pc, stream, owed, closed, sent>>

DriverStep(p) ==
    \/ WriteProbe(p) \/ Park(p) \/ ProbeInterval(p) \/ ReadProbe(p) \/ WriteReply(p)
    \/ WriteFrame(p) \/ ReadFrame(p) \/ TransportClosed(p)

ProbeNext == \E p \in Sides : DriverStep(p) \/ Close(p) \/ Establish(p)

(* The driver's task is polled whenever one of its futures is ready, so    *)
(* every driver step that stays possible is taken.  The transport          *)
(* eventually establishes each direction.                                  *)
Fairness ==
    \A p \in Sides : WF_probe_vars(DriverStep(p)) /\ WF_probe_vars(Establish(p))

ProbeSpec == ProbeInit /\ [][ProbeNext]_probe_vars /\ Fairness

-----------------------------------------------------------------------------
(* A peer that is in framed mode writes to a direction that no longer      *)
(* discards, so no frame can vanish in the transport (lib.rs 16-28).       *)
FramedOnlyOnOpenPath == \A p \in Sides : pc[p] = "framed" => open[p]

(* The "non-probe byte before connection establishment" error of           *)
(* probe_handshake is unreachable between two peers that run it: whatever  *)
(* probes were lost, repeated or left over, a peer reads a probe first.    *)
NoFrameBeforeSynchronization == \A p \in Sides : pc[p] # "protocol"

(* Unless a side goes away, both peers reach framed mode, whichever probes *)
(* the transport discarded before it established its paths.                *)
BothSynchronize ==
    <>((\A p \in Sides : pc[p] = "framed") \/ (\E p \in Sides : closed[p]))

=============================================================================
