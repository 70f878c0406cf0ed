---------------------------- MODULE MCMuxChannel ----------------------------
(***************************************************************************)
(* TLC instances of MuxChannel.  In the main one the server's byte window  *)
(* can be left partly used, so that a DATA frame is cut to the credit, and *)
(* the client needs returned credit to send all it writes.                 *)
(***************************************************************************)
EXTENDS MuxChannel

PerPeer(c, s) == [p \in Peers |-> IF p = "client" THEN c ELSE s]

MCByteWindow == PerPeer(2, 2)
MCFrameWindow == PerPeer(1, 2)
MCMaxFrameSize == PerPeer(1, 2)
MCMaxBytes == PerPeer(3, 0)

=============================================================================
