--------------------------- MODULE MCMuxScheduler ---------------------------
(***************************************************************************)
(* TLC instance of MuxScheduler: three channels, a burst of two.           *)
(***************************************************************************)
EXTENDS MuxScheduler

MCIds == {1, 2, 3}

=============================================================================
