-------------------------- MODULE MCMuxConnection --------------------------
(***************************************************************************)
(* TLC instances of MuxConnection.  In the main one the client opens two   *)
(* channels to a server that allows one, over control queues of one frame, *)
(* so that every queue fills and every table reaches its limit; it writes  *)
(* DATA to the first, and its driver may be dropped.  In the burst         *)
(* instance the server sends a control frame before it accepts a channel   *)
(* and writes to it.                                                       *)
(***************************************************************************)
EXTENDS MuxConnection

MCMaxChannels == [p \in Peers |-> IF p = "client" THEN 2 ELSE 1]
MCTwoChannels == [p \in Peers |-> 2]

MCWriters == {<<"client", 1>>}
MCWritersBurst == {<<"server", 3>>}

=============================================================================
